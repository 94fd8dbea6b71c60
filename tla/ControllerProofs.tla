-------------------------- MODULE ControllerProofs --------------------------
(***************************************************************************)
(* Proofs about the controller apart from its registry.  ToolsForward, for *)
(* any number of clients, templates, daemons and sessions: where the       *)
(* sticky map and the requests under way lead, and which sessions nobody   *)
(* can reach any more.  ReplicaStart, for any number of concurrent starts, *)
(* containers, warmup commands and restarts: no error path loses a         *)
(* container, and what reaches the registry is ready.                      *)
(***************************************************************************)
EXTENDS ToolsForward, ReplicaStart, TLAPS

----------------------------------------------------------------------------
(* The session routes. *)

\* A handler that waits for an upstream has one; its session is known.
Located ==
  \A c \in Clients :
    /\ pc[c] # "idle" => url[c] \in Urls
    /\ pc[c] \in {"created", "delete", "call"} => sid[c] \in Sids

\* A daemon holds only ids that were drawn, and no two hold the same one.
Unique ==
  /\ \A u \in Urls : sessions[u] \subseteq used
  /\ \A u, w \in Urls : \A s \in sessions[u] : s \in sessions[w] => u = w

\* An id that was not drawn yet has no entry, and a request that guesses it is
\* on its way to the fallback daemon.
Undrawn ==
  \A s \in Sids \ used :
    /\ sticky[s] = NoUrl
    /\ \A c \in Clients : pc[c] \in {"call", "delete"} /\ sid[c] = s => url[c] = Fallback

\* A session just created is at its creator's upstream, its creator is the only
\* one and has not recorded it yet.
Fresh ==
  \A c \in Clients : pc[c] = "created" =>
    /\ sid[c] \in used
    /\ sticky[sid[c]] = NoUrl
    /\ \A u \in Urls : sid[c] \in sessions[u] => url[c] = u
    /\ \A d \in Clients : pc[d] = "created" /\ sid[d] = sid[c] => d = c

RouteInv == TypeOK /\ Located /\ Unique /\ Undrawn /\ Fresh /\ RoutedHome /\ OrphansExplained

\* The handlers that only wait do not see the registry work.
LEMMA RegistryStep ==
  ASSUME RouteInv, TypeOK', UNCHANGED <<sticky, used, orphaned, client>>,
         \A u \in Urls : sessions'[u] \subseteq sessions[u]
  PROVE  RouteInv'
<1>1. Located' /\ Unique' /\ Undrawn' /\ Fresh'
  BY DEF RouteInv, TypeOK, Located, Unique, Undrawn, Fresh, client
<1>2. RoutedHome' /\ OrphansExplained'
  BY DEF RouteInv, TypeOK, RoutedHome, OrphansExplained, client
<1>. QED BY <1>1, <1>2 DEF RouteInv

\* What a handler's step leaves of the other handlers' variables.
LEMMA ReturnFacts ==
  ASSUME TypeOK, NEW c \in Clients, Return(c)
  PROVE  /\ pc' \in [Clients -> PC]
         /\ url' \in [Clients -> Urls \union {NoUrl}]
         /\ sid' \in [Clients -> Sids \union {NoSid}]
         /\ pc'[c] = "idle"
         /\ \A d \in Clients \ {c} : pc'[d] = pc[d] /\ url'[d] = url[d] /\ sid'[d] = sid[d]
BY DEF TypeOK, Return, PC

\* What sending a request upstream leaves of the handlers' variables.
LEMMA UpstreamFacts ==
  ASSUME TypeOK, NEW c \in Clients, NEW label \in PC, NEW u \in Urls,
         NEW s \in Sids \union {NoSid}, Upstream(c, label, u, s)
  PROVE  /\ pc' \in [Clients -> PC]
         /\ url' \in [Clients -> Urls \union {NoUrl}]
         /\ sid' \in [Clients -> Sids \union {NoSid}]
         /\ pc'[c] = label /\ url'[c] = u /\ sid'[c] = s
         /\ \A d \in Clients \ {c} : pc'[d] = pc[d] /\ url'[d] = url[d] /\ sid'[d] = sid[d]
BY DEF TypeOK, Upstream

\* The registry's answer keeps the types of what it changes.
LEMMA DaemonForTypes ==
  ASSUME TypeOK, NEW t \in Templates \union {NoUrl}, NEW u \in Urls, DaemonFor(t, u)
  PROVE  /\ state' \in [Urls -> {"absent", "running", "paused"}]
         /\ owner' \in [Urls -> Templates \union {NoUrl}]
<1>1. CASE Acquired(t, u) /\ t \in Templates
  BY <1>1 DEF TypeOK, Acquired
<1>2. CASE UNCHANGED registry
  BY <1>2 DEF TypeOK, registry
<1>. QED BY <1>1, <1>2 DEF DaemonFor

\* A create under way refers to no session yet.
LEMMA CreateSessionStep ==
  ASSUME RouteInv, NEW c \in Clients, CreateSession(c)
  PROVE  RouteInv'
<1>1. PICK t \in Templates \union {NoUrl}, u \in Urls :
        DaemonFor(t, u) /\ Upstream(c, "create", u, NoSid)
  BY DEF CreateSession
<1>2. pc[c] = "idle" /\ UNCHANGED <<sticky, sessions, used, orphaned>>
  BY DEF CreateSession
<1>3. /\ pc' \in [Clients -> PC]
      /\ url' \in [Clients -> Urls \union {NoUrl}]
      /\ sid' \in [Clients -> Sids \union {NoSid}]
      /\ pc'[c] = "create" /\ url'[c] = u
      /\ \A d \in Clients \ {c} : pc'[d] = pc[d] /\ url'[d] = url[d] /\ sid'[d] = sid[d]
  BY <1>1, UpstreamFacts DEF RouteInv, PC
<1>4. TypeOK'
  BY <1>1, <1>2, <1>3, DaemonForTypes DEF RouteInv, TypeOK
<1>5. Located' /\ Unique' /\ Undrawn'
  BY <1>2, <1>3 DEF RouteInv, Located, Unique, Undrawn
<1>6. Fresh'
  BY <1>2, <1>3 DEF RouteInv, Fresh
<1>7. RoutedHome' /\ OrphansExplained'
  BY <1>2, <1>3 DEF RouteInv, RoutedHome, OrphansExplained
<1>. QED BY <1>4, <1>5, <1>6, <1>7 DEF RouteInv

\* The new id was in no map and on no request but guesses, which go to the fallback.
LEMMA DaemonCreatesStep ==
  ASSUME RouteInv, NEW c \in Clients, DaemonCreates(c)
  PROVE  RouteInv'
<1>1. PICK s \in Sids \ used :
        /\ used' = used \union {s}
        /\ sessions' = [sessions EXCEPT ![url[c]] = @ \union {s}]
        /\ Upstream(c, "created", url[c], s)
  BY DEF DaemonCreates
<1>2. pc[c] = "create" /\ UNCHANGED <<registry, sticky, orphaned>> /\ url[c] \in Urls
  BY DEF DaemonCreates, RouteInv, Located
<1>3. /\ pc' \in [Clients -> PC]
      /\ url' \in [Clients -> Urls \union {NoUrl}]
      /\ sid' \in [Clients -> Sids \union {NoSid}]
      /\ pc'[c] = "created" /\ url'[c] = url[c] /\ sid'[c] = s
      /\ \A d \in Clients \ {c} : pc'[d] = pc[d] /\ url'[d] = url[d] /\ sid'[d] = sid[d]
  BY <1>1, <1>2, UpstreamFacts DEF RouteInv, PC
<1>4. /\ sessions' \in [Urls -> SUBSET Sids]
      /\ sessions'[url[c]] = sessions[url[c]] \union {s}
      /\ \A u \in Urls \ {url[c]} : sessions'[u] = sessions[u]
      /\ \A u \in Urls : s \notin sessions[u]
  BY <1>1, <1>2 DEF RouteInv, TypeOK, Unique
<1>5. TypeOK'
  BY <1>1, <1>2, <1>3, <1>4 DEF RouteInv, TypeOK, registry
<1>6. Located' /\ Unique' /\ Undrawn'
  BY <1>1, <1>2, <1>3, <1>4 DEF RouteInv, Located, Unique, Undrawn
<1>7. Fresh'
  BY <1>1, <1>2, <1>3, <1>4 DEF RouteInv, Fresh, Undrawn
<1>8. RoutedHome'
  BY <1>1, <1>2, <1>3, <1>4 DEF RouteInv, RoutedHome, Undrawn
<1>9. OrphansExplained'
  BY <1>1, <1>2, <1>3, <1>4 DEF RouteInv, OrphansExplained
<1>. QED BY <1>5, <1>6, <1>7, <1>8, <1>9 DEF RouteInv

\* The entry made sticky is the daemon that drew the id.
LEMMA RecordStep ==
  ASSUME RouteInv, NEW c \in Clients, Record(c)
  PROVE  RouteInv'
<1>1. /\ pc[c] = "created"
      /\ sticky' = [sticky EXCEPT ![sid[c]] = url[c]]
      /\ UNCHANGED <<registry, sessions, used, orphaned>>
      /\ url[c] \in Urls /\ sid[c] \in Sids
  BY DEF Record, RouteInv, Located
<1>2. /\ pc' \in [Clients -> PC]
      /\ url' \in [Clients -> Urls \union {NoUrl}]
      /\ sid' \in [Clients -> Sids \union {NoSid}]
      /\ pc'[c] = "idle"
      /\ \A d \in Clients \ {c} : pc'[d] = pc[d] /\ url'[d] = url[d] /\ sid'[d] = sid[d]
  BY ReturnFacts DEF Record, RouteInv
<1>3. /\ sticky' \in [Sids -> Urls \union {NoUrl}]
      /\ sticky'[sid[c]] = url[c]
      /\ \A s \in Sids \ {sid[c]} : sticky'[s] = sticky[s]
  BY <1>1 DEF RouteInv, TypeOK
<1>4. TypeOK'
  BY <1>1, <1>2, <1>3 DEF RouteInv, TypeOK, registry
<1>5. Located' /\ Unique'
  BY <1>1, <1>2 DEF RouteInv, Located, Unique
<1>6. Undrawn'
  BY <1>1, <1>2, <1>3 DEF RouteInv, Undrawn, Fresh
<1>7. Fresh'
  BY <1>1, <1>2, <1>3 DEF RouteInv, Fresh, Located
<1>8. RoutedHome' /\ OrphansExplained'
  BY <1>1, <1>2, <1>3 DEF RouteInv, RoutedHome, OrphansExplained, Fresh, TypeOK
<1>. QED BY <1>4, <1>5, <1>6, <1>7, <1>8 DEF RouteInv

\* The entry goes, and the request that carries its URL takes its place.
LEMMA DeleteSessionStep ==
  ASSUME RouteInv, NEW c \in Clients, NEW s \in Sids, DeleteSession(c, s)
  PROVE  RouteInv'
<1>1. /\ pc[c] = "idle"
      /\ sticky' = [sticky EXCEPT ![s] = NoUrl]
      /\ UNCHANGED <<registry, sessions, used, orphaned>>
      /\ Route(s) \in Urls
      /\ sticky[s] # NoUrl => Route(s) = sticky[s]
      /\ sticky[s] = NoUrl => Route(s) = Fallback
  BY ForwardAssumption DEF DeleteSession, RouteInv, TypeOK, Route, ForwardAssumption
<1>2. /\ pc' \in [Clients -> PC]
      /\ url' \in [Clients -> Urls \union {NoUrl}]
      /\ sid' \in [Clients -> Sids \union {NoSid}]
      /\ pc'[c] = "delete" /\ url'[c] = Route(s) /\ sid'[c] = s
      /\ \A d \in Clients \ {c} : pc'[d] = pc[d] /\ url'[d] = url[d] /\ sid'[d] = sid[d]
  BY <1>1, UpstreamFacts DEF DeleteSession, RouteInv, PC
<1>3. /\ sticky' \in [Sids -> Urls \union {NoUrl}]
      /\ sticky'[s] = NoUrl
      /\ \A r \in Sids \ {s} : sticky'[r] = sticky[r]
  BY <1>1 DEF RouteInv, TypeOK
<1>4. TypeOK'
  BY <1>1, <1>2, <1>3 DEF RouteInv, TypeOK, registry
<1>5. Located' /\ Unique'
  BY <1>1, <1>2 DEF RouteInv, Located, Unique
<1>6. Undrawn' /\ Fresh'
  BY <1>1, <1>2, <1>3 DEF RouteInv, Undrawn, Fresh, Located
<1>7. RoutedHome'
  BY <1>1, <1>2, <1>3 DEF RouteInv, RoutedHome, TypeOK
<1>8. OrphansExplained'
  <2>. SUFFICES ASSUME NEW u \in Urls, NEW r \in sessions[u]
                PROVE  \/ sticky'[r] = u
                       \/ r \in orphaned
                       \/ \E d \in Clients : sid'[d] = r /\ url'[d] = u /\ pc'[d] \in {"created", "delete"}
    BY <1>1 DEF OrphansExplained
  <2>1. r \in Sids
    BY DEF RouteInv, TypeOK
  <2>2. CASE sticky[r] = u
    <3>1. u # NoUrl
      BY ForwardAssumption DEF ForwardAssumption
    <3>. QED BY <1>1, <1>2, <1>3, <2>1, <2>2, <3>1
  <2>3. CASE r \in orphaned
    BY <2>3
  <2>4. ASSUME NEW d \in Clients, sid[d] = r, url[d] = u, pc[d] \in {"created", "delete"}
        PROVE  sid'[d] = r /\ url'[d] = u /\ pc'[d] \in {"created", "delete"}
    BY <1>1, <1>2, <2>4
  <2>. QED BY <2>2, <2>3, <2>4 DEF RouteInv, OrphansExplained
<1>. QED BY <1>4, <1>5, <1>6, <1>7, <1>8 DEF RouteInv

\* The session that loses its last reference is the one that goes.
LEMMA DaemonDeletesStep ==
  ASSUME RouteInv, NEW c \in Clients, DaemonDeletes(c)
  PROVE  RouteInv'
<1>1. /\ pc[c] = "delete" /\ url[c] \in Urls
      /\ sessions' = [sessions EXCEPT ![url[c]] = @ \ {sid[c]}]
      /\ UNCHANGED <<registry, sticky, used, orphaned>>
  BY DEF DaemonDeletes, RouteInv, Located
<1>2. /\ pc' \in [Clients -> PC]
      /\ url' \in [Clients -> Urls \union {NoUrl}]
      /\ sid' \in [Clients -> Sids \union {NoSid}]
      /\ pc'[c] = "idle"
      /\ \A d \in Clients \ {c} : pc'[d] = pc[d] /\ url'[d] = url[d] /\ sid'[d] = sid[d]
  BY ReturnFacts DEF DaemonDeletes, RouteInv
<1>3. /\ sessions' \in [Urls -> SUBSET Sids]
      /\ \A u \in Urls : sessions'[u] \subseteq sessions[u]
      /\ sid[c] \notin sessions'[url[c]]
  BY <1>1 DEF RouteInv, TypeOK
<1>4. TypeOK'
  BY <1>1, <1>2, <1>3 DEF RouteInv, TypeOK, registry
<1>5. Located' /\ Unique' /\ Undrawn' /\ Fresh'
  BY <1>1, <1>2, <1>3 DEF RouteInv, Located, Unique, Undrawn, Fresh
<1>6. RoutedHome'
  BY <1>1, <1>2, <1>3 DEF RouteInv, RoutedHome
<1>7. OrphansExplained'
  BY <1>1, <1>2, <1>3 DEF RouteInv, OrphansExplained
<1>. QED BY <1>4, <1>5, <1>6, <1>7 DEF RouteInv

\* A call follows the entry, or goes to the fallback daemon.
LEMMA ToolCallStep ==
  ASSUME RouteInv, NEW c \in Clients, NEW s \in Sids, NEW tool, ToolCall(c, s, tool)
  PROVE  RouteInv'
<1>1. /\ pc[c] = "idle"
      /\ UNCHANGED <<registry, sticky, sessions, used, orphaned>>
      /\ Route(s) \in Urls
      /\ sticky[s] # NoUrl => Route(s) = sticky[s]
      /\ sticky[s] = NoUrl => Route(s) = Fallback
  BY ForwardAssumption DEF ToolCall, RouteInv, TypeOK, Route, ForwardAssumption
<1>2. /\ pc' \in [Clients -> PC]
      /\ url' \in [Clients -> Urls \union {NoUrl}]
      /\ sid' \in [Clients -> Sids \union {NoSid}]
      /\ pc'[c] = "call" /\ url'[c] = Route(s) /\ sid'[c] = s
      /\ \A d \in Clients \ {c} : pc'[d] = pc[d] /\ url'[d] = url[d] /\ sid'[d] = sid[d]
  BY <1>1, UpstreamFacts DEF ToolCall, RouteInv, PC
<1>3. TypeOK'
  BY <1>1, <1>2 DEF RouteInv, TypeOK, registry
<1>4. Located' /\ Unique'
  BY <1>1, <1>2 DEF RouteInv, Located, Unique
<1>5. Undrawn' /\ Fresh'
  BY <1>1, <1>2 DEF RouteInv, Undrawn, Fresh
<1>6. RoutedHome'
  BY <1>1, <1>2 DEF RouteInv, RoutedHome, TypeOK
<1>7. OrphansExplained'
  BY <1>1, <1>2 DEF RouteInv, OrphansExplained
<1>. QED BY <1>3, <1>4, <1>5, <1>6, <1>7 DEF RouteInv

\* A handler returns and the sessions only it referred to are orphaned.
LEMMA GiveUpStep ==
  ASSUME RouteInv, NEW c \in Clients, pc[c] # "idle",
         Return(c), UNCHANGED <<registry, sticky, sessions, used>>,
         orphaned' \in SUBSET Sids, orphaned \subseteq orphaned',
         pc[c] \in {"created", "delete"} => sid[c] \in orphaned'
  PROVE  RouteInv'
<1>1. /\ pc' \in [Clients -> PC]
      /\ url' \in [Clients -> Urls \union {NoUrl}]
      /\ sid' \in [Clients -> Sids \union {NoSid}]
      /\ pc'[c] = "idle"
      /\ \A d \in Clients \ {c} : pc'[d] = pc[d] /\ url'[d] = url[d] /\ sid'[d] = sid[d]
  BY ReturnFacts DEF RouteInv
<1>2. TypeOK'
  BY <1>1 DEF RouteInv, TypeOK, registry
<1>3. Located' /\ Unique' /\ Undrawn' /\ Fresh'
  BY <1>1 DEF RouteInv, Located, Unique, Undrawn, Fresh
<1>4. RoutedHome'
  BY <1>1 DEF RouteInv, RoutedHome
<1>5. OrphansExplained'
  BY <1>1 DEF RouteInv, OrphansExplained
<1>. QED BY <1>2, <1>3, <1>4, <1>5 DEF RouteInv

\* The seven parts of the invariant survive every step.
LEMMA RouteInvStep ==
  ASSUME RouteInv, [Next]_vars
  PROVE  RouteInv'
<1>1. ASSUME NEW c \in Clients, Handler(c)
      PROVE  RouteInv'
  <2>1. CASE DaemonAnswers(c)
    BY <2>1, GiveUpStep DEF DaemonAnswers, RouteInv, TypeOK
  <2>2. CASE Fails(c) \/ Disconnect(c)
    <3>1. pc[c] # "idle" /\ GiveUp(c)
      BY <2>2 DEF Fails, Disconnect
    <3>2. Abandoned(c) \in SUBSET Sids
      BY DEF Abandoned, RouteInv, Located
    <3>. QED BY <3>1, <3>2, GiveUpStep DEF GiveUp, Abandoned, RouteInv, TypeOK
  <2>. QED
    BY <1>1, <2>1, <2>2, CreateSessionStep, DaemonCreatesStep, RecordStep,
       DeleteSessionStep, DaemonDeletesStep, ToolCallStep DEF Handler
<1>2. ASSUME NEW t \in Templates, PauseTemplate(t)
      PROVE  RouteInv'
  <2>1. TypeOK'
    BY <1>2 DEF PauseTemplate, RouteInv, TypeOK, client
  <2>. QED BY <1>2, <2>1, RegistryStep DEF PauseTemplate
<1>3. ASSUME NEW t \in Templates, RemoveTemplate(t)
      PROVE  RouteInv'
  <2>1. sessions' \in [Urls -> SUBSET Sids] /\ \A u \in Urls : sessions'[u] \subseteq sessions[u]
    BY <1>3 DEF RemoveTemplate, RouteInv, TypeOK
  <2>2. TypeOK'
    BY <1>3, <2>1 DEF RemoveTemplate, RouteInv, TypeOK, client
  <2>. QED BY <1>3, <2>1, <2>2, RegistryStep DEF RemoveTemplate
<1>4. ASSUME NEW u \in Urls, IdleReap(u)
      PROVE  RouteInv'
  <2>1. sessions' \in [Urls -> SUBSET Sids] /\ \A w \in Urls : sessions'[w] \subseteq sessions[w]
    BY <1>4 DEF IdleReap, RouteInv, TypeOK
  <2>2. TypeOK'
    BY <1>4, <2>1 DEF IdleReap, RouteInv, TypeOK, client, registry
  <2>. QED BY <1>4, <2>1, <2>2, RegistryStep DEF IdleReap
<1>5. CASE UNCHANGED vars
  <2>1. TypeOK'
    BY <1>5 DEF vars, RouteInv, TypeOK
  <2>. QED BY <1>5, <2>1, RegistryStep DEF vars, client
<1>. QED BY <1>1, <1>2, <1>3, <1>4, <1>5 DEF Next

\* The inductive invariant of the routes.
LEMMA RouteInvHolds == Spec => []RouteInv
<1>1. Init => RouteInv
  <2>. SUFFICES ASSUME Init PROVE RouteInv
    OBVIOUS
  <2>1. TypeOK
    BY DEF Init, TypeOK, PC
  <2>2. Located /\ Unique /\ Undrawn /\ Fresh
    BY DEF Init, Located, Unique, Undrawn, Fresh
  <2>3. RoutedHome /\ OrphansExplained
    BY DEF Init, RoutedHome, OrphansExplained
  <2>. QED BY <2>1, <2>2, <2>3 DEF RouteInv
<1>. QED BY <1>1, RouteInvStep, PTL DEF Spec

\* The routes' variables keep their types.
THEOREM TypeCorrect == Spec => []TypeOK
<1>1. RouteInv => TypeOK
  BY DEF RouteInv
<1>. QED BY <1>1, RouteInvHolds, PTL

\* Whatever the registry pauses, removes and restarts at recycled addresses,
\* the sticky map and the requests under way lead to the daemon that holds the
\* session, and a session without an entry is looked for at the fallback only.
THEOREM CallsGoHome == Spec => []RoutedHome
<1>1. RouteInv => RoutedHome
  BY DEF RouteInv
<1>. QED BY <1>1, RouteInvHolds, PTL

\* A session that its daemon holds and no sticky entry names is being created
\* or deleted, or a handler gave up between its two steps (Record after
\* DaemonCreates, DaemonDeletes after DeleteSession).
THEOREM OnlyAbandonedOrphans == Spec => []OrphansExplained
<1>1. RouteInv => OrphansExplained
  BY DEF RouteInv
<1>. QED BY <1>1, RouteInvHolds, PTL

----------------------------------------------------------------------------
(* The start of a replica. *)

Early == {"idle", "network", "makeNetwork", "create"}
Up == {"inspect", "probe", "warmup", "command", "warmFailed", "hand"}
Phase == Early \union Up \union {"start", "remove"}

\* The variables' types.
ReplicaTypeOK ==
  /\ network \in BOOLEAN
  /\ box \in [Boxes -> {"absent", "created", "running", "removed"}]
  /\ healthy \in SUBSET Boxes
  /\ warmed \in [Boxes -> Nat]
  /\ phase \in [Starts -> Phase]
  /\ held \in [Starts -> Boxes \union {NoBox}]
  /\ handed \in SUBSET Boxes
  /\ strays \in SUBSET Boxes
  /\ restarts \in Nat

\* A start has a container of its own from its creation to its end, and Docker
\* has it in the state the start brought it to.
Owned ==
  \A p \in Starts :
    /\ phase[p] \in Early => held[p] = NoBox
    /\ phase[p] \notin Early => held[p] \in Boxes \ handed /\ box[held[p]] # "absent"
    /\ phase[p] \in Up => box[held[p]] = "running"
    /\ \A q \in Starts : held[p] = held[q] /\ held[p] # NoBox => p = q

\* How far the start's container is.
Progress ==
  \A p \in Starts :
    /\ phase[p] \in {"start", "inspect", "probe", "warmup"} => warmed[held[p]] = 0
    /\ phase[p] \in {"warmup", "command", "warmFailed", "hand"} => held[p] \in healthy
    /\ phase[p] = "hand" => warmed[held[p]] = Commands

\* Nothing has happened in a container that does not exist yet.
Untouched ==
  \A c \in Boxes : box[c] = "absent" => c \notin healthy /\ c \notin handed /\ warmed[c] = 0

ReplicaInv ==
  ReplicaTypeOK /\ Owned /\ Progress /\ Untouched /\ StraysExplained /\ HandedReady

\* What a start that moves on within its container leaves alone.
LEMMA Advance ==
  ASSUME ReplicaInv, NEW p \in Starts, NEW label \in Phase, On(p, label),
         UNCHANGED <<network, box, held, handed, strays, restarts, healthy>>,
         warmed' \in [Boxes -> Nat],
         \A c \in Boxes : c # held[p] => warmed'[c] = warmed[c],
         phase[p] \in Early <=> label \in Early,
         label \in Up => phase[p] \in Up,
         label \in {"start", "inspect", "probe", "warmup"} => warmed'[held[p]] = 0,
         label \in {"warmup", "command", "warmFailed", "hand"} => held[p] \in healthy,
         label = "hand" => warmed'[held[p]] = Commands
  PROVE  ReplicaInv'
<1>1. /\ phase' \in [Starts -> Phase]
      /\ phase'[p] = label
      /\ \A q \in Starts \ {p} : phase'[q] = phase[q]
  BY DEF ReplicaInv, ReplicaTypeOK, On
<1>2. ReplicaTypeOK'
  BY <1>1 DEF ReplicaInv, ReplicaTypeOK
<1>3. Owned'
  BY <1>1 DEF ReplicaInv, Owned
<1>4. \A q \in Starts \ {p} : held[q] \in Boxes => held[q] # held[p]
  BY ReplicaAssumption DEF ReplicaInv, Owned, ReplicaAssumption
<1>5. Progress'
  <2>1. \A q \in Starts \ {p} : phase[q] \notin Early => held[q] \in Boxes
    BY DEF ReplicaInv, Owned
  <2>. QED BY <1>1, <1>4, <2>1 DEF ReplicaInv, Progress, Early
<1>6. Untouched' /\ StraysExplained' /\ HandedReady'
  <2>1. \A c \in Boxes : box[c] = "absent" \/ c \in handed => c # held[p]
    <3>1. CASE phase[p] \in Early
      BY <3>1, ReplicaAssumption DEF ReplicaInv, Owned, ReplicaAssumption
    <3>2. CASE phase[p] \notin Early
      BY <3>2 DEF ReplicaInv, Owned
    <3>. QED BY <3>1, <3>2
  <2>. QED BY <2>1 DEF ReplicaInv, ReplicaTypeOK, Untouched, StraysExplained, HandedReady, Live
<1>. QED BY <1>2, <1>3, <1>5, <1>6 DEF ReplicaInv

\* A start ends; its container is handed over, gone, or a stray.
LEMMA Leaving ==
  ASSUME ReplicaInv, NEW p \in Starts, Leave(p), UNCHANGED <<network, warmed, restarts>>,
         box' \in [Boxes -> {"absent", "created", "running", "removed"}],
         \A c \in Boxes : c # held[p] => box'[c] = box[c] /\ (c \in healthy' <=> c \in healthy),
         \A c \in Boxes : box'[c] = "absent" => box[c] = "absent",
         healthy' \subseteq healthy,
         handed' \in SUBSET Boxes, strays' \in SUBSET Boxes,
         handed \subseteq handed', strays \subseteq strays',
         \A c \in Boxes : c \in handed' /\ c \notin handed =>
            c = held[p] /\ phase[p] = "hand" /\ box' = box /\ healthy' = healthy,
         held[p] \in Boxes =>
            box'[held[p]] = "removed" \/ held[p] \in handed' \union strays'
  PROVE  ReplicaInv'
<1>1. /\ phase' \in [Starts -> Phase]
      /\ held' \in [Starts -> Boxes \union {NoBox}]
      /\ phase'[p] = "idle" /\ held'[p] = NoBox
      /\ \A q \in Starts \ {p} : phase'[q] = phase[q] /\ held'[q] = held[q]
  BY DEF ReplicaInv, ReplicaTypeOK, Leave, On, Phase, Early
<1>2. ReplicaTypeOK'
  BY <1>1 DEF ReplicaInv, ReplicaTypeOK
<1>3. ASSUME NEW q \in Starts \ {p}, phase[q] \notin Early
      PROVE  /\ held[q] \in Boxes /\ held[q] # held[p]
             /\ held[q] \notin handed'
             /\ box'[held[q]] = box[held[q]]
             /\ held[q] \in healthy' <=> held[q] \in healthy
  BY <1>3, ReplicaAssumption DEF ReplicaInv, Owned, ReplicaAssumption
<1>4. Owned'
  <2>1. ASSUME NEW q \in Starts
        PROVE  /\ phase'[q] \in Early => held'[q] = NoBox
               /\ phase'[q] \notin Early => held'[q] \in Boxes \ handed' /\ box'[held'[q]] # "absent"
               /\ phase'[q] \in Up => box'[held'[q]] = "running"
    <3>1. CASE q = p
      BY <1>1, <3>1 DEF Early, Up
    <3>2. CASE q # p
      BY <1>1, <1>3, <3>2 DEF ReplicaInv, Owned, Up, Early
    <3>. QED BY <3>1, <3>2
  <2>2. \A q, r \in Starts : held'[q] = held'[r] /\ held'[q] # NoBox => q = r
    BY <1>1 DEF ReplicaInv, Owned
  <2>. QED BY <2>1, <2>2 DEF Owned
<1>5. Progress'
  BY <1>1, <1>3 DEF ReplicaInv, Progress, Early
<1>6. Untouched'
  <2>1. \A c \in Boxes : box[c] = "absent" => c \notin handed'
    BY DEF ReplicaInv, Untouched, Owned, Up
  <2>. QED BY <2>1 DEF ReplicaInv, Untouched
<1>7. StraysExplained'
  <2>. SUFFICES ASSUME NEW c \in Boxes, box'[c] \in {"created", "running"},
                       c \notin handed', c \notin strays'
                PROVE  \E q \in Starts : held'[q] = c
    BY DEF StraysExplained, Live
  <2>1. c # held[p]
    OBVIOUS
  <2>2. PICK q \in Starts : held[q] = c
    BY <2>1 DEF ReplicaInv, StraysExplained, Live
  <2>. QED BY <1>1, <2>1, <2>2
<1>8. HandedReady'
  <2>1. ASSUME NEW c \in handed'
        PROVE  box'[c] = "running" /\ c \in healthy' /\ warmed'[c] = Commands
    <3>1. CASE c \in handed
      <4>1. c # held[p]
        BY <3>1 DEF ReplicaInv, HandedReady
      <4>. QED BY <3>1, <4>1 DEF ReplicaInv, HandedReady
    <3>2. CASE c \notin handed
      <4>1. c = held[p] /\ phase[p] = "hand" /\ box' = box /\ healthy' = healthy
        BY <3>2
      <4>. QED BY <4>1 DEF ReplicaInv, Owned, Progress, Up
    <3>. QED BY <3>1, <3>2
  <2>2. ASSUME NEW q \in Starts
        PROVE  held'[q] \notin handed'
    <3>1. CASE held'[q] = NoBox
      BY <3>1, ReplicaAssumption DEF ReplicaAssumption
    <3>2. CASE held'[q] # NoBox
      <4>1. q # p /\ phase[q] \notin Early
        BY <1>1, <3>2 DEF ReplicaInv, Owned
      <4>. QED BY <1>1, <1>3, <4>1
    <3>. QED BY <3>1, <3>2
  <2>. QED BY <2>1, <2>2 DEF HandedReady
<1>. QED BY <1>2, <1>4, <1>5, <1>6, <1>7, <1>8 DEF ReplicaInv

\* The container Docker hands out was nobody's before.
LEMMA CreateContainerStep ==
  ASSUME ReplicaInv, NEW p \in Starts, CreateContainer(p)
  PROVE  ReplicaInv'
<1>1. PICK c \in Boxes :
        /\ box[c] = "absent"
        /\ box' = [box EXCEPT ![c] = "created"]
        /\ held' = [held EXCEPT ![p] = c]
  BY DEF CreateContainer
<1>2. /\ phase[p] = "create"
      /\ UNCHANGED <<network, healthy, warmed, handed, strays, restarts>>
  BY DEF CreateContainer
<1>3. /\ phase' \in [Starts -> Phase] /\ phase'[p] = "start"
      /\ held' \in [Starts -> Boxes \union {NoBox}] /\ held'[p] = c
      /\ \A q \in Starts \ {p} : phase'[q] = phase[q] /\ held'[q] = held[q]
      /\ box' \in [Boxes -> {"absent", "created", "running", "removed"}] /\ box'[c] = "created"
      /\ \A d \in Boxes \ {c} : box'[d] = box[d]
  BY <1>1 DEF CreateContainer, On, Phase, ReplicaInv, ReplicaTypeOK
<1>4. c \notin healthy /\ c \notin handed /\ warmed[c] = 0
  BY <1>1 DEF ReplicaInv, Untouched
<1>5. \A q \in Starts : held[q] # c
  BY <1>1, ReplicaAssumption DEF ReplicaInv, Owned, ReplicaAssumption
<1>6. ReplicaTypeOK'
  BY <1>2, <1>3 DEF ReplicaInv, ReplicaTypeOK
<1>7. Owned'
  BY <1>2, <1>3, <1>4, <1>5 DEF ReplicaInv, Owned, Early, Up
<1>8. Progress'
  BY <1>2, <1>3, <1>4 DEF ReplicaInv, Progress
<1>9. Untouched'
  BY <1>2, <1>3 DEF ReplicaInv, Untouched
<1>10. StraysExplained'
  <2>1. held[p] = NoBox
    BY <1>2 DEF ReplicaInv, Owned, Early
  <2>. QED BY <1>2, <1>3, <2>1, ReplicaAssumption
         DEF ReplicaInv, StraysExplained, Live, ReplicaAssumption
<1>11. HandedReady'
  BY <1>2, <1>3, <1>4 DEF ReplicaInv, HandedReady, ReplicaTypeOK
<1>. QED BY <1>6, <1>7, <1>8, <1>9, <1>10, <1>11 DEF ReplicaInv

\* A start changes no container but its own.
LEMMA StartContainerStep ==
  ASSUME ReplicaInv, NEW p \in Starts, StartContainer(p)
  PROVE  ReplicaInv'
<1>1. /\ phase[p] = "start"
      /\ held[p] \in Boxes \ handed
      /\ \A q \in Starts \ {p} : held[q] # held[p]
      /\ UNCHANGED <<network, healthy, warmed, held, handed, strays, restarts>>
  BY ReplicaAssumption DEF StartContainer, ReplicaInv, Owned, Early, ReplicaAssumption
<1>2. /\ phase' \in [Starts -> Phase] /\ phase'[p] = "inspect"
      /\ \A q \in Starts \ {p} : phase'[q] = phase[q]
      /\ box' \in [Boxes -> {"absent", "created", "running", "removed"}]
      /\ box'[held[p]] = "running"
      /\ \A d \in Boxes \ {held[p]} : box'[d] = box[d]
  BY <1>1 DEF StartContainer, On, Phase, Up, ReplicaInv, ReplicaTypeOK
<1>3. ReplicaTypeOK'
  BY <1>1, <1>2 DEF ReplicaInv, ReplicaTypeOK
<1>4. Owned'
  BY <1>1, <1>2 DEF ReplicaInv, Owned, Early, Up
<1>5. Progress' /\ Untouched'
  BY <1>1, <1>2 DEF ReplicaInv, Progress, Untouched
<1>6. StraysExplained'
  BY <1>1, <1>2 DEF ReplicaInv, StraysExplained, Live
<1>7. HandedReady'
  BY <1>1, <1>2 DEF ReplicaInv, HandedReady, ReplicaTypeOK
<1>. QED BY <1>3, <1>4, <1>5, <1>6, <1>7 DEF ReplicaInv

\* After the start-up cleanup only what could not be removed is left.
LEMMA RestartStep ==
  ASSUME ReplicaInv, NEW Kept \in SUBSET Live, ControllerRestart(Kept)
  PROVE  ReplicaInv'
<1>1. ReplicaTypeOK'
  <2>1. Kept \in SUBSET Boxes /\ box' \in [Boxes -> {"absent", "created", "running", "removed"}]
    BY DEF ReplicaInv, ReplicaTypeOK, ControllerRestart, Live
  <2>2. healthy' \in SUBSET Boxes /\ strays' \in SUBSET Boxes /\ network' \in BOOLEAN
    BY <2>1 DEF ReplicaInv, ReplicaTypeOK, ControllerRestart
  <2>3. /\ phase' \in [Starts -> Phase]
        /\ held' \in [Starts -> Boxes \union {NoBox}]
        /\ handed' \in SUBSET Boxes
        /\ restarts' \in Nat
        /\ warmed' \in [Boxes -> Nat]
    BY DEF ReplicaInv, ReplicaTypeOK, ControllerRestart, Phase, Early
  <2>. QED BY <2>1, <2>2, <2>3 DEF ReplicaTypeOK
<1>2. Owned'
  BY DEF ControllerRestart, Owned, Early, Up
<1>3. Progress' /\ Untouched'
  BY DEF ReplicaInv, ReplicaTypeOK, ControllerRestart, Progress, Untouched
<1>4. StraysExplained' /\ HandedReady'
  BY DEF ReplicaInv, ReplicaTypeOK, ControllerRestart, StraysExplained, HandedReady, Live
<1>. QED BY <1>1, <1>2, <1>3, <1>4 DEF ReplicaInv

\* Every step of a start keeps the invariant.
LEMMA StartStepInv ==
  ASSUME ReplicaInv, NEW p \in Starts, StartReplica(p) \/ StartStep(p) \/ Dropped(p)
  PROVE  ReplicaInv'
<1>. DEFINE still == /\ UNCHANGED <<network, box, held, handed, strays, restarts, healthy>>
                     /\ warmed' \in [Boxes -> Nat]
                     /\ \A c \in Boxes : c # held[p] => warmed'[c] = warmed[c]
<1>0. ReplicaTypeOK /\ (phase[p] \notin Early => held[p] \in Boxes)
  BY DEF ReplicaInv, Owned
<1>1. CASE StartReplica(p) \/ InspectNetwork(p)
  <2>1. still /\ \E label \in Early : On(p, label)
    BY <1>0, <1>1 DEF StartReplica, InspectNetwork, engine, ReplicaTypeOK, Early
  <2>2. phase[p] \in Early
    BY <1>1 DEF StartReplica, InspectNetwork, Early
  <2>. QED BY <2>1, <2>2, Advance DEF Phase, Early, Up
<1>2. CASE CreateNetwork(p)
  <2>1. /\ phase' \in [Starts -> Phase]
        /\ phase[p] \in Early /\ phase'[p] \in Early
        /\ \A q \in Starts \ {p} : phase'[q] = phase[q]
        /\ network' = TRUE
        /\ UNCHANGED <<box, healthy, warmed, held, handed, strays, restarts>>
    BY <1>0, <1>2 DEF CreateNetwork, On, ReplicaTypeOK, Phase, Early
  <2>2. ReplicaTypeOK' /\ Owned'
    BY <1>0, <2>1 DEF ReplicaInv, ReplicaTypeOK, Owned, Early, Up
  <2>3. Progress' /\ Untouched' /\ StraysExplained' /\ HandedReady'
    BY <2>1 DEF ReplicaInv, Progress, Untouched, StraysExplained, HandedReady, Live, Early
  <2>. QED BY <2>2, <2>3 DEF ReplicaInv
<1>3. CASE InspectContainer(p)
  BY <1>0, <1>3, Advance DEF InspectContainer, engine, Phase, Early, Up, ReplicaInv,
     Progress, ReplicaTypeOK
<1>4. CASE Probe(p)
  <2>1. still /\ phase[p] = "probe" /\ warmed[held[p]] = 0 /\ held[p] \in healthy
    BY <1>0, <1>4 DEF Probe, engine, ReplicaInv, Progress, ReplicaTypeOK
  <2>2. \/ On(p, "warmup")
        \/ On(p, "hand") /\ Commands = 0
    BY <1>4 DEF Probe
  <2>. QED BY <1>4, <2>1, <2>2, Advance DEF Probe, Phase, Early, Up
<1>5. CASE WarmupSession(p)
  BY <1>0, <1>5, Advance DEF WarmupSession, engine, Phase, Early, Up, ReplicaInv,
     Progress, ReplicaTypeOK
<1>6. CASE WarmupCommand(p)
  <2>1. phase[p] = "command" /\ held[p] \in Boxes /\ held[p] \in healthy
    BY <1>0, <1>6 DEF WarmupCommand, Early, ReplicaInv, Progress
  <2>2. CASE On(p, "warmFailed") /\ UNCHANGED warmed
    BY <1>0, <1>6, <2>1, <2>2, Advance DEF WarmupCommand, engine, Phase, Early, Up,
       ReplicaTypeOK
  <2>3. CASE warmed' = [warmed EXCEPT ![held[p]] = @ + 1] /\ UNCHANGED phase
    <3>1. still
      BY <1>0, <1>6, <2>1, <2>3 DEF WarmupCommand, engine, ReplicaTypeOK
    <3>2. On(p, "command")
      BY <1>0, <2>1, <2>3 DEF On, ReplicaTypeOK
    <3>. QED BY <2>1, <3>1, <3>2, Advance DEF Phase, Early, Up
  <2>. QED BY <1>6, <2>2, <2>3 DEF WarmupCommand
<1>7. CASE WarmupEnd(p)
  <2>1. still
    BY <1>0, <1>7 DEF WarmupEnd, engine, ReplicaTypeOK
  <2>2. \/ phase[p] = "command" /\ warmed'[held[p]] = Commands /\ On(p, "hand")
        \/ phase[p] = "warmFailed" /\ On(p, "remove")
    BY <1>7 DEF WarmupEnd
  <2>3. phase[p] \in {"command", "warmFailed"} => held[p] \in healthy
    BY DEF ReplicaInv, Progress
  <2>. QED BY <2>1, <2>2, <2>3, Advance DEF Phase, Early, Up
<1>8. CASE FailsLate(p)
  BY <1>0, <1>8, Advance DEF FailsLate, engine, Phase, Early, Up, ReplicaTypeOK
<1>9. CASE HandOver(p)
  <2>1. held[p] \in Boxes
    BY <1>0, <1>9 DEF HandOver, Early
  <2>. QED BY <1>0, <1>9, <2>1, Leaving DEF HandOver, engine, ReplicaTypeOK
<1>10. CASE FailsEarly(p)
  <2>1. held[p] = NoBox
    BY <1>10 DEF FailsEarly, ReplicaInv, Owned, Early
  <2>. QED BY <1>0, <1>10, <2>1, Leaving, ReplicaAssumption
         DEF FailsEarly, engine, ReplicaTypeOK, ReplicaAssumption
<1>11. CASE NoClient(p)
  <2>1. held[p] \in Boxes
    BY <1>0, <1>11 DEF NoClient, Early
  <2>. QED BY <1>0, <1>11, <2>1, Leaving DEF NoClient, engine, ReplicaTypeOK
<1>12. CASE RemoveBox(p)
  <2>1. held[p] \in Boxes /\ box[held[p]] # "absent"
    BY <1>12 DEF RemoveBox, Early, ReplicaInv, Owned
  <2>2. CASE UNCHANGED <<box, healthy>> /\ strays' = strays \union {held[p]}
    BY <1>0, <1>12, <2>1, <2>2, Leaving DEF RemoveBox, ReplicaTypeOK
  <2>3. CASE /\ box' = [box EXCEPT ![held[p]] = "removed"]
             /\ healthy' = healthy \ {held[p]}
             /\ UNCHANGED strays
    BY <1>0, <1>12, <2>1, <2>3, Leaving DEF RemoveBox, ReplicaTypeOK
  <2>. QED BY <1>12, <2>2, <2>3 DEF RemoveBox
<1>13. CASE Dropped(p)
  <2>1. strays' = strays \union ({held[p]} \ {NoBox}) /\ strays' \in SUBSET Boxes
    BY <1>0, <1>13 DEF Dropped, ReplicaTypeOK
  <2>2. held[p] \in Boxes => held[p] \in strays'
    BY <2>1, ReplicaAssumption DEF ReplicaAssumption
  <2>. QED BY <1>0, <1>13, <2>1, <2>2, Leaving DEF Dropped, engine, ReplicaTypeOK
<1>. QED
  BY <1>1, <1>2, <1>3, <1>4, <1>5, <1>6, <1>7, <1>8, <1>9, <1>10, <1>11, <1>12, <1>13,
     CreateContainerStep, StartContainerStep DEF StartStep

\* The inductive invariant of the starts.
LEMMA ReplicaInvHolds == ReplicaSpec => []ReplicaInv
<1>1. ASSUME ReplicaInit
      PROVE  ReplicaInv
  <2>1. ReplicaTypeOK
    BY <1>1 DEF ReplicaInit, ReplicaTypeOK, Phase, Early
  <2>2. Owned /\ Progress /\ Untouched
    BY <1>1 DEF ReplicaInit, Owned, Progress, Untouched, Early, Up
  <2>3. StraysExplained /\ HandedReady
    BY <1>1 DEF ReplicaInit, StraysExplained, HandedReady, Live
  <2>. QED BY <2>1, <2>2, <2>3 DEF ReplicaInv
<1>2. ASSUME ReplicaInv, [ReplicaNext]_replicaVars
      PROVE  ReplicaInv'
  <2>1. ASSUME NEW c \in Boxes, DaemonUp(c)
        PROVE  ReplicaInv'
    BY <1>2, <2>1 DEF DaemonUp, ReplicaInv, ReplicaTypeOK, Owned, Progress, Untouched,
       StraysExplained, HandedReady, Live
  <2>2. CASE UNCHANGED replicaVars
    BY <1>2, <2>2 DEF replicaVars, ReplicaInv, ReplicaTypeOK, Owned, Progress, Untouched,
       StraysExplained, HandedReady, Live
  <2>. QED BY <1>2, <2>1, <2>2, StartStepInv, RestartStep DEF ReplicaNext
<1>. QED BY <1>1, <1>2, PTL DEF ReplicaSpec

\* Every error path of start_tools_container removes the container it created,
\* except for the three ways the history names (a failed removal, a dropped
\* handler, no HTTP client), and the start-up cleanup forgets none.
THEOREM NoUnexplainedStray == ReplicaSpec => []StraysExplained
<1>1. ReplicaInv => StraysExplained
  BY DEF ReplicaInv
<1>. QED BY <1>1, ReplicaInvHolds, PTL

\* A container is handed to the registry once, running, after its daemon
\* answered /health and after every warmup command.
THEOREM OnlyReadyHandedOver == ReplicaSpec => []HandedReady
<1>1. ReplicaInv => HandedReady
  BY DEF ReplicaInv
<1>. QED BY <1>1, ReplicaInvHolds, PTL
=============================================================================
