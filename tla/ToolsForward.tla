---------------------------- MODULE ToolsForward ----------------------------
(***************************************************************************)
(* The controller's /v2 routes (api-rust/src/tools_forward.rs).  Creating  *)
(* a session acquires a template, picks one of its daemons and remembers   *)
(* that daemon's URL in the sticky map; later tool calls and the DELETE go *)
(* straight to the remembered URL, past the registry.                      *)
(*                                                                         *)
(* The registry is composed in as PagedRegistry leaves it to the routes: a *)
(* template has no containers, running ones or paused ones, acquire makes  *)
(* them run, and the evictions other requests cause may pause or remove    *)
(* them between any two steps.  Which template is evicted, and when, is    *)
(* PagedRegistry's subject.  A URL holds a container's address on the      *)
(* tools network, so Docker may give it to another container later.        *)
(***************************************************************************)
EXTENDS Naturals, FiniteSets

CONSTANTS
  Clients,    \* handlers of /v2 requests
  Templates,  \* templates a request may name
  Broken,     \* those whose acquire fails (not configured, image missing)
  Sids,       \* session ids the daemons draw (UUIDs: never the same twice)
  Urls,       \* addresses of daemons
  Fallback,   \* TOOLS_DAEMON_URL, or NoUrl
  Exposed,    \* TOOLS_EXPOSE_PROCESS
  NoUrl, NoSid

ASSUME ForwardAssumption ==
  /\ Broken \subseteq Templates
  /\ NoUrl \notin Urls
  /\ NoSid \notin Sids
  /\ Fallback \in Urls \union {NoUrl}
  /\ Exposed \in BOOLEAN

VARIABLES
  sticky,    \* ToolsForwardState.sessions: session id -> daemon URL
  state,     \* of the container at each address
  owner,     \* the template it belongs to
  sessions,  \* the sessions its daemon holds
  used,      \* session ids drawn so far
  pc, url, sid,  \* each handler's position, upstream and session
  orphaned   \* history: sessions whose only reference was dropped

vars == <<sticky, state, owner, sessions, used, pc, url, sid, orphaned>>
registry == <<state, owner>>
client == <<pc, url, sid>>

Managed == Urls \ {Fallback}
PC == {"idle", "create", "created", "delete", "call"}

TypeOK ==
  /\ sticky \in [Sids -> Urls \union {NoUrl}]
  /\ state \in [Urls -> {"absent", "running", "paused"}]
  /\ owner \in [Urls -> Templates \union {NoUrl}]
  /\ sessions \in [Urls -> SUBSET Sids]
  /\ used \in SUBSET Sids
  /\ pc \in [Clients -> PC]
  /\ url \in [Clients -> Urls \union {NoUrl}]
  /\ sid \in [Clients -> Sids \union {NoSid}]
  /\ orphaned \in SUBSET Sids

Init ==
  /\ sticky = [s \in Sids |-> NoUrl]
  /\ state = [u \in Urls |-> IF u = Fallback THEN "running" ELSE "absent"]
  /\ owner = [u \in Urls |-> NoUrl]
  /\ sessions = [u \in Urls |-> {}]
  /\ used = {}
  /\ pc = [c \in Clients |-> "idle"]
  /\ url = [c \in Clients |-> NoUrl]
  /\ sid = [c \in Clients |-> NoSid]
  /\ orphaned = {}

----------------------------------------------------------------------------
(* The registry, seen from the routes. *)

DaemonsOf(t) == {u \in Managed : owner[u] = t}

\* acquire(t), then pick_daemon_url: containers are started at free
\* addresses when there are none, resumed when they are paused, and one of
\* them is handed to the handler.
Acquired(t, u) ==
  IF DaemonsOf(t) = {}
  THEN /\ u \in Managed
       /\ state[u] = "absent"
       /\ \E S \in SUBSET {w \in Managed : state[w] = "absent"} :
            /\ u \in S
            /\ state' = [w \in Urls |-> IF w \in S THEN "running" ELSE state[w]]
            /\ owner' = [w \in Urls |-> IF w \in S THEN t ELSE owner[w]]
  ELSE /\ u \in DaemonsOf(t)
       /\ state' = [w \in Urls |-> IF owner[w] = t THEN "running" ELSE state[w]]
       /\ UNCHANGED owner

\* evict_hot_to_warm_if_needed on behalf of some other template.
PauseTemplate(t) ==
  /\ \E u \in DaemonsOf(t) : state[u] = "running"
  /\ state' = [u \in Urls |-> IF owner[u] = t THEN "paused" ELSE state[u]]
  /\ UNCHANGED <<owner, sticky, sessions, used, orphaned, client>>

\* evict_warm_to_cold_if_needed: the containers go, with their sessions.
RemoveTemplate(t) ==
  /\ \E u \in DaemonsOf(t) : state[u] = "paused"
  /\ state' = [u \in Urls |-> IF owner[u] = t THEN "absent" ELSE state[u]]
  /\ sessions' = [u \in Urls |-> IF owner[u] = t THEN {} ELSE sessions[u]]
  /\ owner' = [u \in Urls |-> IF owner[u] = t THEN NoUrl ELSE owner[u]]
  /\ UNCHANGED <<sticky, used, orphaned, client>>

\* The daemon's idle reaper drops a session; the controller is not told.
IdleReap(u) ==
  /\ state[u] = "running"
  /\ \E s \in sessions[u] : sessions' = [sessions EXCEPT ![u] = @ \ {s}]
  /\ UNCHANGED <<registry, sticky, used, orphaned, client>>

----------------------------------------------------------------------------
(* The handlers.  A handler resolves its upstream, sends the request and   *)
(* waits without a deadline; a paused daemon accepts it and does not       *)
(* answer, an absent one refuses the connection (502).                     *)

Return(c) ==
  /\ pc' = [pc EXCEPT ![c] = "idle"]
  /\ url' = [url EXCEPT ![c] = NoUrl]
  /\ sid' = [sid EXCEPT ![c] = NoSid]

Upstream(c, label, u, s) ==
  /\ pc' = [pc EXCEPT ![c] = label]
  /\ url' = [url EXCEPT ![c] = u]
  /\ sid' = [sid EXCEPT ![c] = s]

\* daemon_for: the template's daemon; the fallback daemon, if there is one,
\* when the request names no template or acquire fails.
DaemonFor(t, u) ==
  \/ /\ t \in Templates \ Broken
     /\ Acquired(t, u)
  \/ /\ t \in Broken \union {NoUrl}
     /\ Fallback # NoUrl
     /\ u = Fallback
     /\ UNCHANGED registry

\* Bound of the model: an id is left for every create under way.
CreateSession(c) ==
  /\ pc[c] = "idle"
  /\ Cardinality({d \in Clients : pc[d] = "create"}) < Cardinality(Sids \ used)
  /\ \E t \in Templates \union {NoUrl}, u \in Urls :
       /\ DaemonFor(t, u)
       /\ Upstream(c, "create", u, NoSid)
  /\ UNCHANGED <<sticky, sessions, used, orphaned>>

\* POST /sessions reaches the daemon, which draws an id.
DaemonCreates(c) ==
  /\ pc[c] = "create"
  /\ state[url[c]] = "running"
  /\ \E s \in Sids \ used :
       /\ used' = used \union {s}
       /\ sessions' = [sessions EXCEPT ![url[c]] = @ \union {s}]
       /\ Upstream(c, "created", url[c], s)
  /\ UNCHANGED <<registry, sticky, orphaned>>

\* Another daemon of the template is asked for at the end.
Record_Bounces(c) ==
  /\ pc[c] = "created"
  /\ \E u \in Urls :
       /\ owner[u] = owner[url[c]]
       /\ sticky' = [sticky EXCEPT ![sid[c]] = u]
  /\ Return(c)
  /\ UNCHANGED <<registry, sessions, used, orphaned>>

\* The daemon answered with success: the URL becomes sticky and the client
\* learns the session id.
Record(c) ==
  /\ pc[c] = "created"
  /\ sticky' = [sticky EXCEPT ![sid[c]] = url[c]]
  /\ Return(c)
  /\ UNCHANGED <<registry, sessions, used, orphaned>>

\* The upstream of a session: its sticky URL, else the fallback daemon.
Route(s) == IF sticky[s] # NoUrl THEN sticky[s] ELSE Fallback

\* The entry is dropped and the request is not forwarded.
DeleteSession_Forgets(c, s) ==
  /\ pc[c] = "idle"
  /\ Route(s) # NoUrl
  /\ sticky' = [sticky EXCEPT ![s] = NoUrl]
  /\ UNCHANGED <<registry, sessions, used, orphaned, client>>

\* The sticky entry goes before the request does.
DeleteSession(c, s) ==
  /\ pc[c] = "idle"
  /\ Route(s) # NoUrl
  /\ Upstream(c, "delete", Route(s), s)
  /\ sticky' = [sticky EXCEPT ![s] = NoUrl]
  /\ UNCHANGED <<registry, sessions, used, orphaned>>

DaemonDeletes(c) ==
  /\ pc[c] = "delete"
  /\ state[url[c]] = "running"
  /\ sessions' = [sessions EXCEPT ![url[c]] = @ \ {sid[c]}]
  /\ Return(c)
  /\ UNCHANGED <<registry, sticky, used, orphaned>>

\* A tool call; the process tool only when it is exposed (else 403).
ToolCall(c, s, tool) ==
  /\ pc[c] = "idle"
  /\ tool = "process" => Exposed
  /\ Route(s) # NoUrl
  /\ Upstream(c, "call", Route(s), s)
  /\ UNCHANGED <<registry, sticky, sessions, used, orphaned>>

\* The daemon runs the tool, or answers that it does not know the session.
DaemonAnswers(c) ==
  /\ pc[c] = "call"
  /\ state[url[c]] = "running"
  /\ Return(c)
  /\ UNCHANGED <<registry, sticky, sessions, used, orphaned>>

\* What a handler that gives up leaves behind: a created session nobody was
\* told of, a session whose DELETE did not arrive.
Abandoned(c) ==
  IF pc[c] \in {"created", "delete"} THEN {sid[c]} ELSE {}

GiveUp(c) ==
  /\ orphaned' = orphaned \union Abandoned(c)
  /\ Return(c)
  /\ UNCHANGED <<registry, sticky, sessions, used>>

Fails_Waits(c) == FALSE /\ GiveUp(c)

\* Connection refused, or lost: 502.
Fails(c) ==
  /\ pc[c] \in {"create", "created", "delete", "call"}
  /\ state[url[c]] = "absent"
  /\ GiveUp(c)

\* The client disconnects and the server drops the handler at an await.
Disconnect(c) ==
  /\ pc[c] \in {"create", "created", "delete", "call"}
  /\ GiveUp(c)

Handler(c) ==
  \/ CreateSession(c) \/ DaemonCreates(c) \/ Record(c)
  \/ DaemonDeletes(c) \/ DaemonAnswers(c) \/ Fails(c) \/ Disconnect(c)
  \/ \E s \in Sids : \/ DeleteSession(c, s)
                     \/ \E tool \in {"bash", "process"} : ToolCall(c, s, tool)

Next ==
  \/ \E c \in Clients : Handler(c)
  \/ \E t \in Templates : PauseTemplate(t) \/ RemoveTemplate(t)
  \/ \E u \in Urls : IdleReap(u)

Spec == Init /\ [][Next]_vars

\* A running daemon answers, a lost connection is noticed, a handler with an
\* answer returns.  Nothing makes clients disconnect or the registry resume
\* a paused template.
Fairness ==
  \A c \in Clients :
    /\ WF_vars(DaemonCreates(c)) /\ WF_vars(Record(c))
    /\ WF_vars(DaemonDeletes(c)) /\ WF_vars(DaemonAnswers(c))
    /\ WF_vars(Fails(c))

FairSpec == Spec /\ Fairness

----------------------------------------------------------------------------
(* The sticky map and every request under way name the daemon that holds   *)
(* the session, if any daemon still does, also when replicas are evicted   *)
(* and restarted at recycled addresses; only a session without an entry is *)
(* looked for at the fallback daemon.  Round-robin per request, which the  *)
(* comment at tools_forward.rs:31 warns of, would break it.                *)
RoutedHome ==
  \A u \in Urls : \A s \in sessions[u] :
    /\ sticky[s] \in {u, NoUrl}
    /\ \A c \in Clients : pc[c] \in {"call", "delete"} /\ sid[c] = s =>
         url[c] \in {u, Fallback}

(* A session its daemon holds can be reached through the controller, is    *)
(* just being created or deleted, or was orphaned by a handler that gave   *)
(* up after the daemon had created it or before the DELETE arrived: the    *)
(* DELETE drops the sticky entry first (tools_forward.rs:218).             *)
OrphansExplained ==
  \A u \in Urls : \A s \in sessions[u] :
    \/ sticky[s] = u
    \/ s \in orphaned
    \/ \E c \in Clients : sid[c] = s /\ url[c] = u /\ pc[c] \in {"created", "delete"}

(* Every request is answered unless its daemon is paused: the handlers     *)
(* wait without a deadline and the registry is not asked again.            *)
AnsweredOrPaused ==
  \A c \in Clients : pc[c] # "idle" ~>
    (pc[c] = "idle" \/ (url[c] # NoUrl /\ state[url[c]] = "paused"))

(* A tool call finds its daemon running.  The head comment of              *)
(* tools_forward.rs has the URL "resolved per request by acquiring the     *)
(* template", which would resume a paused template; a sticky call goes     *)
(* past the registry and waits for somebody else to do so.                 *)
CallsWake ==
  [][\A c \in Clients : pc[c] = "idle" /\ pc'[c] = "call" =>
        (sid'[c] \in sessions[url'[c]] => state'[url'[c]] = "running")]_vars
=============================================================================
