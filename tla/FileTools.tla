----------------------------- MODULE FileTools -----------------------------
(***************************************************************************)
(* The daemon's edit and write tools (tools-rust/src/main.rs): the edits[] *)
(* of one request as a function on texts, and requests on one file of a    *)
(* session as a state machine.  tool_edit reads the file, applies the      *)
(* edits and writes the file again; nothing keeps other requests of the    *)
(* session away meanwhile, and tokio::fs::write truncates before it        *)
(* writes.                                                                 *)
(***************************************************************************)
EXTENDS Naturals, Sequences, FiniteSets

CONSTANTS
  Letters, MaxText,  \* texts of the instance: sequences of Letters up to MaxText
  Requests           \* edit and write requests, each made once

ASSUME FileAssumption == MaxText \in Nat

----------------------------------------------------------------------------
(* apply_edit_req, edits[] form.  An edit is [old, new]; texts are         *)
(* sequences of characters.                                                *)
Rejected == <<"rejected">>

MatchAt(src, old, i) ==
  i + Len(old) - 1 <= Len(src) /\ SubSeq(src, i, i + Len(old) - 1) = old

\* match_indices: from left to right, a match begins behind the last one.
ScanStep(src, old, acc, i) ==
  IF i >= acc.next /\ MatchAt(src, old, i)
  THEN [next |-> i + Len(old), found |-> Append(acc.found, i)]
  ELSE acc

Matches(src, old) ==
  LET scan[i \in 0..Len(src)] ==
        IF i = 0 THEN [next |-> 1, found |-> <<>>] ELSE ScanStep(src, old, scan[i - 1], i)
  IN scan[Len(src)].found

\* The range an edit replaces, when its oldText is found and found once.
Unique(src, edit) == edit.old # <<>> /\ Len(Matches(src, edit.old)) = 1
RangeAt(edit, i) == [from |-> i, to |-> i + Len(edit.old), new |-> edit.new]
RangeOf(src, edit) == RangeAt(edit, Matches(src, edit.old)[1])

Sorted_AsGiven(ranges) == ranges

\* ranges.sort_by_key(start), which keeps the order of equal starts.
Sorted(ranges) ==
  LET before(j, k) ==
        ranges[j].from < ranges[k].from \/ (ranges[j].from = ranges[k].from /\ j < k)
      order == CHOOSE p \in [DOMAIN ranges -> DOMAIN ranges] :
                 \A i, j \in DOMAIN ranges : i < j => before(p[i], p[j])
  IN [i \in DOMAIN ranges |-> ranges[order[i]]]

\* The text between the ranges is kept, the cursor behind the last one copied.
Cursor(ranges, k) == IF k = 0 THEN 1 ELSE ranges[k].to

Splice(src, ranges) ==
  LET out[k \in 0..Len(ranges)] ==
        IF k = 0 THEN <<>>
        ELSE out[k - 1] \o SubSeq(src, Cursor(ranges, k - 1), ranges[k].from - 1) \o ranges[k].new
  IN out[Len(ranges)] \o SubSeq(src, Cursor(ranges, Len(ranges)), Len(src))

ApplyEdits(src, edits) ==
  LET ranges == Sorted([k \in DOMAIN edits |-> RangeOf(src, edits[k])]) IN
  IF edits = <<>> \/ \E k \in DOMAIN edits : ~Unique(src, edits[k]) THEN Rejected
  ELSE IF \E k \in 1..(Len(edits) - 1) : ranges[k + 1].from < ranges[k].to THEN Rejected
  ELSE Splice(src, ranges)

\* The older form: old_string, new_string and replace_all.
ApplyLegacy(src, edit, all) ==
  LET found == IF edit.old = <<>> THEN <<>> ELSE Matches(src, edit.old) IN
  IF found = <<>> \/ (Len(found) > 1 /\ ~all) THEN Rejected
  ELSE Splice(src, [k \in DOMAIN found |-> RangeAt(edit, found[k])])

----------------------------------------------------------------------------
(* Requests on one file. *)
VARIABLES
  text,      \* one input of the edit functions: a text and two oldTexts
  doc,       \* the file: the requests whose text is in it
  intact,    \* FALSE while it is truncated, or when two writers mixed in it
  asked,     \* where each request is
  seen,      \* what tool_edit read
  answered,  \* requests that were told 200
  excused    \* history: requests whose effect another one or a failed write
             \* may have taken

fileVars == <<text, doc, intact, asked, seen, answered, excused>>

FileInit ==
  /\ doc = {}
  /\ intact = TRUE
  /\ asked = [r \in Requests |-> "new"]
  /\ seen = [r \in Requests |-> {}]
  /\ answered = {}
  /\ excused = {}

InProgress == {r \in Requests : asked[r] \in {"open", "write"}}

\* A request begins while others are in progress: they may undo each other.
Overlapping(r) == IF InProgress = {} THEN {} ELSE InProgress \union {r}

Ask(r, label) == asked' = [asked EXCEPT ![r] = label]

\* tool_edit, read and apply.  A file somebody else is writing may be read
\* half written, and its rest is lost when the oldText is found all the same.
EditReads(r) ==
  /\ asked[r] = "new"
  /\ seen' = [seen EXCEPT ![r] = doc]
  /\ Ask(r, "open")
  /\ excused' = excused \union Overlapping(r) \union (IF intact THEN {} ELSE answered)
  /\ UNCHANGED <<text, doc, intact, answered>>

\* No file, or no oldText in it: 404, 400.
EditFindsNothing(r) ==
  /\ asked[r] = "new"
  /\ Ask(r, "refused")
  /\ UNCHANGED <<text, doc, intact, seen, answered, excused>>

\* tool_write replaces what is there.
WriteBegins(r) ==
  /\ asked[r] = "new"
  /\ seen' = [seen EXCEPT ![r] = {}]
  /\ Ask(r, "open")
  /\ excused' = excused \union answered \union Overlapping(r)
  /\ UNCHANGED <<text, doc, intact, answered>>

\* fs::write: the file is truncated, then filled.  Another writer's text may
\* be in it by then; what the two leave is anybody's guess.
Truncates(r) ==
  /\ asked[r] = "open"
  /\ doc' = {}
  /\ intact' = FALSE
  /\ Ask(r, "write")
  /\ UNCHANGED <<text, seen, answered, excused>>

\* The edit is applied to an empty text.
Fills_Fresh(r) ==
  /\ asked[r] = "write"
  /\ doc' = {r}
  /\ intact' = TRUE
  /\ Ask(r, "done")
  /\ answered' = answered \union {r}
  /\ UNCHANGED <<text, seen, excused>>

Fills(r) ==
  /\ asked[r] = "write"
  /\ \/ doc' = seen[r] \union {r} /\ intact' = TRUE /\ UNCHANGED excused
     \/ intact /\ doc' = {} /\ intact' = FALSE /\ excused' = excused \union answered \union {r}
  /\ Ask(r, "done")
  /\ answered' = answered \union {r}
  /\ UNCHANGED <<text, seen>>

\* The write fails half way (500): the old text is gone.
FillFails(r) ==
  /\ asked[r] = "write"
  /\ Ask(r, "refused")
  /\ excused' = excused \union answered \union InProgress
  /\ UNCHANGED <<text, doc, intact, seen, answered>>

FileNext ==
  \E r \in Requests :
    \/ EditReads(r) \/ EditFindsNothing(r) \/ WriteBegins(r)
    \/ Truncates(r) \/ Fills(r) \/ FillFails(r)

FileSpec == FileInit /\ [][FileNext]_fileVars

----------------------------------------------------------------------------
(* An edit that was answered with 200 is in the file, unless another       *)
(* request on the file overlapped with it, a write replaced the file, or a *)
(* later write failed half way or was read half done: requests one after   *)
(* the other lose nothing.                                                 *)
EditsKept ==
  InProgress = {} /\ intact => answered \ excused \subseteq doc

Texts(n) == UNION {[1..k -> Letters] : k \in 1..n}
Inputs == [src : Texts(MaxText), old1 : Texts(2), old2 : Texts(2)]

(* The outcome of edits[] does not depend on the order of the list; every  *)
(* accepted replacement is made once, at its place in the original text,   *)
(* whatever the other one inserts (here, the other's oldText); and the two *)
(* forms of the request agree on a single replacement (apply_edit_req).    *)
EditsIndependent ==
  LET e1 == [old |-> text.old1, new |-> <<"x">> \o text.old2]
      e2 == [old |-> text.old2, new |-> <<"y">>]
      out == ApplyEdits(text.src, <<e1, e2>>)
      count(c) == Cardinality({i \in DOMAIN out : out[i] = c})
  IN /\ out = ApplyEdits(text.src, <<e2, e1>>)
     /\ out # Rejected =>
          /\ Len(out) = Len(text.src) - Len(text.old1) + 2
          /\ count("x") = 1 /\ count("y") = 1
     /\ ApplyEdits(text.src, <<e1>>) = ApplyLegacy(text.src, e1, FALSE)
     /\ ApplyLegacy(text.src, e1, TRUE) # Rejected =>
          Matches(ApplyLegacy(text.src, [e1 EXCEPT !.new = <<"x">>], TRUE), text.old1) = <<>>
=============================================================================
