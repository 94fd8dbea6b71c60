------------------------------- MODULE MCShim -------------------------------
(***************************************************************************)
(* Model-checking instance of two parts of the shim that share no state:   *)
(* the volumes and the template builds.  A behaviour is one of a single    *)
(* part, chosen at the start; the other stays in its initial state.        *)
(***************************************************************************)
EXTENDS VolumeMirror, TemplateBuild, TLC

CONSTANTS x, y, d

\* d/x is below the directory d, the file dy only shares its first letter.
OneUnder == (d :> {x})
TwoPrefixed == (d :> {x, y})

\* What a sandbox does to its own files: the shim never reads what it makes of
\* them, so that one content is as good as another.
RemovesX == {<<x, NoData>>}
WritesX == {x} \X Data

\* The starters of builds are handlers, and the values of Data name the builds.
Symmetry == Permutations(Handlers) \union Permutations(Data)

VARIABLE part

allVars == <<part, vars, buildVars>>

MCInit ==
  /\ part \in {"volumes", "builds"}
  /\ Init /\ BuildInit
  /\ part = "builds" => backend = "local"
  /\ part = "volumes" => \E n \in Names : name = [b \in Builds |-> n]

\* Nothing is claimed of a volume that is gone, nor of a sandbox that is: all
\* that is still followed then are the sandbox's own last requests.
Claimed ==
  \/ vol # "gone" /\ \E b \in Sandboxes : mounted[b] # "gone"
  \/ \E h \in Handlers : pc[h] \in {"write", "mirror"}

MCNext ==
  /\ UNCHANGED part
  /\ \/ part = "volumes" /\ Claimed /\ Next /\ UNCHANGED buildVars
     \/ part = "builds" /\ BuildNext /\ UNCHANGED vars

MCSpec == MCInit /\ [][MCNext]_allVars
=============================================================================
