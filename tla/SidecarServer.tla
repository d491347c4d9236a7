---------------------------- MODULE SidecarServer ----------------------------
(***************************************************************************)
(* serve of the sidecar (alice-computer/src/main.rs) over the runtime      *)
(* (runtime/src/lib.rs): one request at a time is read, checked against    *)
(* the replay window, handled, and answered.  The server keeps the         *)
(* sessions and, for each, the ids under which its client knows the        *)
(* windows of the desktop.                                                 *)
(*                                                                         *)
(* The runtime has one caller, this loop, so its flags are never raced.    *)
(* A request is its id and its method; what the backend answers and        *)
(* whether the response can be written are free choices.                   *)
(***************************************************************************)
EXTENDS Naturals, Sequences, FiniteSets

CONSTANTS
  RequestIds,       \* request ids a client may use, well formed ones
  Capacity,         \* MAX_TRACKED_REQUEST_IDS (8192 in the code)
  Handles,          \* native window handles
  MaxCreated,       \* bound: sessions created
  MaxRequests       \* bound: requests handled

ASSUME CapacityAssumption == Capacity \in Nat \ {0}
ASSUME ServerBounds == MaxCreated \in Nat /\ MaxRequests \in Nat

VARIABLES
  serving,          \* "serving", or how serve ended: "clean" or "failed"
  order,            \* RequestReplayWindow.order
  seen,             \* RequestReplayWindow.seen
  ready,            \* ServerState.initialized
  flag,             \* ComputerRuntime.initialized
  up,               \* the backend's own initialized flag
  created,          \* next_session: how many sessions there have been
  table,            \* ServerState.sessions
  maps,             \* ServerState.window_maps
  closed,           \* the closed flags of all sessions
  pressed,          \* sessions whose input is down in the backend
  handled,          \* history: the ids handled, in order
  given             \* history: the window ids the client was given

sideVars == <<serving, order, seen, ready, flag, up, created, table, maps,
              closed, pressed, handled, given>>
lifeVars == <<ready, flag, up, created>>
sessVars == <<table, maps, closed, pressed, given>>

PublicIds    == 1..Cardinality(Handles)

\* WindowMap; its public ids are sidecar-window-1, -2, ...
NewMap == [next_id |-> 1, public_to_backend |-> <<>>, backend_to_public |-> <<>>]

\* f[x := v], also for a new x
With(f, x, v) == [y \in DOMAIN f \union {x} |-> IF y = x THEN v ELSE f[y]]
Without(f, x) == [y \in DOMAIN f \ {x} |-> f[y]]

-----------------------------------------------------------------------------
(* The replay window.                                                      *)

\* Mutant: the capacity counts the id that is being remembered.
ForgetEarly(id) ==
  LET grown == Append(order, id)
  IN /\ order' = IF Len(grown) >= Capacity THEN Tail(grown) ELSE grown
     /\ seen' = {order'[i] : i \in 1..Len(order')}

\* remember, of an id that is not in seen; one append can overflow by one only.
remember(id) ==
  LET grown == Append(order, id)
  IN IF Len(grown) > Capacity
     THEN order' = Tail(grown) /\ seen' = (seen \union {id}) \ {Head(grown)}
     ELSE order' = grown /\ seen' = seen \union {id}

\* The response reaches the client, or write_frame fails and serve returns the
\* error on the spot.
Answer == serving' = "serving" \/ serving' = "failed"

\* A request is accepted for handling.
Accept(id) ==
  /\ serving = "serving" /\ Len(handled) < MaxRequests
  /\ id \notin seen /\ remember(id)
  /\ handled' = Append(handled, id)

\* A frame or a request that cannot be decoded, a request id that is too long
\* or empty, and an id that is in the window: answered, not handled.  An
\* answer to a bad frame may be lost.
Rejected ==
  /\ serving = "serving" /\ Answer
  /\ UNCHANGED <<order, seen, handled, lifeVars, sessVars>>

-----------------------------------------------------------------------------
(* The runtime and the sessions.                                           *)

\* ensure_initialized with ComputerRuntime::initialize under it.
EnsureInitialized ==
  IF ready THEN UNCHANGED <<ready, flag, up>>
           ELSE ~flag /\ flag' = TRUE /\ up' = TRUE /\ ready' = TRUE

\* The backend does not start, and the runtime takes its flag back.
InitializeFails == ~ready /\ UNCHANGED <<ready, flag, up>>

\* hello and unknown methods: an answer and nothing else.
Hello(id) == Accept(id) /\ Answer /\ UNCHANGED <<lifeVars, sessVars>>

SideHealth(id) ==
  /\ Accept(id) /\ Answer
  /\ EnsureInitialized \/ InitializeFails
  /\ UNCHANGED <<created, sessVars>>

\* Mutant: the window ids of the session before are kept for the new one.
CreateReusing(id) ==
  /\ Accept(id) /\ Answer /\ created < MaxCreated
  /\ EnsureInitialized /\ created' = created + 1
  /\ table' = table \union {created'}
  /\ maps' = With(maps, created', IF created \in DOMAIN maps THEN maps[created] ELSE NewMap)
  /\ UNCHANGED <<closed, pressed, given>>

\* session.create: start_session and both tables.
SessionCreate(id) ==
  /\ Accept(id) /\ Answer
  /\ \/ /\ created < MaxCreated /\ EnsureInitialized
        /\ created' = created + 1
        /\ table' = table \union {created'}
        /\ maps' = With(maps, created', NewMap)
        /\ UNCHANGED <<closed, pressed, given>>
     \/ InitializeFails /\ UNCHANGED <<created, sessVars>>

\* A method that names a session this server does not have, or parameters that
\* do not parse.
NoSuchSession(id) == Accept(id) /\ Answer /\ UNCHANGED <<lifeVars, sessVars>>

\* session.close: close() swaps the flag and the backend releases the input;
\* no backend refuses, and the session and its ids are forgotten.
SessionClose(id, s) ==
  /\ Accept(id) /\ Answer /\ s \in table
  /\ closed' = closed \union {s} /\ pressed' = pressed \ {s}
  /\ table' = table \ {s} /\ maps' = Without(maps, s)
  /\ UNCHANGED <<given, lifeVars>>

\* ensure_open, and a backend that is initialized.
Usable(s) == s \notin closed /\ up

CleanupPressed(id, s) ==
  /\ Accept(id) /\ Answer /\ s \in table
  /\ pressed' = IF Usable(s) THEN pressed \ {s} ELSE pressed
  /\ UNCHANGED <<table, maps, closed, given, lifeVars>>

\* Mutant: every window gets a new id.
AlwaysNewId(m, h) ==
  [next_id |-> m.next_id + 1,
   public_to_backend |-> With(m.public_to_backend, m.next_id, h),
   backend_to_public |-> With(m.backend_to_public, h, m.next_id)]

\* public_id: the id of a handle this session has seen, or a new one.
public_id(m, h) ==
  IF h \in DOMAIN m.backend_to_public THEN m
  ELSE [next_id |-> m.next_id + 1,
        public_to_backend |-> With(m.public_to_backend, m.next_id, h),
        backend_to_public |-> With(m.backend_to_public, h, m.next_id)]

\* The client is told about a window.
Shown(s, h) ==
  LET m == public_id(maps[s], h)
  IN /\ maps' = With(maps, s, m)
     /\ given' = given \union {[session |-> s, public |-> m.backend_to_public[h], handle |-> h]}

\* window.list, observe and semantic.element_window; a list is several of these.
WindowShown(id, s, h) ==
  /\ Accept(id) /\ Answer /\ s \in table
  /\ \/ Usable(s) /\ Shown(s, h)
     \/ UNCHANGED <<maps, given>>
  /\ UNCHANGED <<table, closed, pressed, lifeVars>>

\* semantic.observe, capability.probe and semantic.validate: an answer about
\* elements, without the id of a window that the client does not have.
SemanticRead(id, s) ==
  /\ Accept(id) /\ Answer /\ s \in table
  /\ UNCHANGED <<sessVars, lifeVars>>

\* frame.capture, .metadata, .encode, .release and screenshot: FrameStore.
FrameCall(id, s) == SemanticRead(id, s)

\* backend_window_id and internal_action: what a public id stands for.
backend_id(s, p) == maps[s].public_to_backend[p]

\* execution.perform, semantic.action and action, on the window p or, 0, on
\* none: an action may leave input down, its result may name the window it was
\* aimed at, and one that names an id that was not given is INVALID_WINDOW.
Perform(id, s, p) ==
  /\ Accept(id) /\ Answer /\ s \in table
  /\ \/ /\ p \in DOMAIN maps[s].public_to_backend \union {0} /\ Usable(s)
        /\ pressed' \in {pressed, pressed \union {s}, pressed \ {s}}
        /\ \/ UNCHANGED <<maps, given>>
           \/ \E h \in Handles : Shown(s, h)
     \/ UNCHANGED <<pressed, maps, given>>
  /\ UNCHANGED <<table, closed, lifeVars>>

\* Mutant: the sessions are left to the backend.
DropSessions == UNCHANGED closed

CloseSessions == closed' = closed \union table

\* ComputerRuntime::shutdown: only what is initialized is shut down, and the
\* backend then releases the input of every session.
RuntimeShutdown ==
  IF flag THEN flag' = FALSE /\ up' = FALSE /\ pressed' = {}
          ELSE UNCHANGED <<flag, up>> /\ pressed' = pressed \ table

\* shutdown, answered and followed by the end of serve, whose own cleanup then
\* finds nothing.
SideShutdown(id) ==
  /\ serving = "serving" /\ Len(handled) < MaxRequests
  /\ id \notin seen /\ remember(id) /\ handled' = Append(handled, id)
  /\ CloseSessions /\ RuntimeShutdown
  /\ table' = {} /\ maps' = <<>> /\ ready' = FALSE
  /\ serving' \in {"clean", "failed"}
  /\ UNCHANGED <<created, given>>

\* The client closed the pipe between frames, or in the middle of one.
EndOfInput ==
  /\ serving = "serving" /\ serving' = "clean"
  /\ CloseSessions /\ RuntimeShutdown
  /\ UNCHANGED <<order, seen, handled, ready, created, table, maps, given>>

-----------------------------------------------------------------------------

SideInit ==
  /\ serving = "serving" /\ order = <<>> /\ seen = {}
  /\ ready = FALSE /\ flag = FALSE /\ up = FALSE /\ created = 0
  /\ table = {} /\ maps = <<>> /\ closed = {} /\ pressed = {}
  /\ handled = <<>> /\ given = {}

SideNext ==
  \/ Rejected \/ EndOfInput
  \/ \E id \in RequestIds :
       \/ Hello(id) \/ SideHealth(id) \/ SessionCreate(id) \/ NoSuchSession(id) \/ SideShutdown(id)
       \/ \E s \in table :
            \/ SessionClose(id, s) \/ CleanupPressed(id, s)
            \/ SemanticRead(id, s) \/ FrameCall(id, s)
            \/ \E h \in Handles : WindowShown(id, s, h)
            \/ \E p \in PublicIds \union {0} : Perform(id, s, p)

SideSpec == SideInit /\ [][SideNext]_sideVars

-----------------------------------------------------------------------------
(* Properties.                                                             *)

SideTypeOK ==
  /\ serving \in {"serving", "clean", "failed"}
  /\ order \in Seq(RequestIds) /\ Len(order) <= Capacity
  /\ seen \subseteq RequestIds
  /\ ready \in BOOLEAN /\ flag \in BOOLEAN /\ up \in BOOLEAN
  /\ created \in 0..MaxCreated /\ table \subseteq 1..created
  /\ closed \subseteq 1..created /\ pressed \subseteq 1..created
  /\ DOMAIN maps = table \/ serving # "serving"
  /\ handled \in Seq(RequestIds) /\ Len(handled) <= MaxRequests

\* The replay window: a request id is not handled again while fewer than
\* Capacity others have been handled since, however often it comes, and the
\* index of the window never disagrees with its queue (remember).
ReplayRefused ==
  /\ \A i, j \in 1..Len(handled) : i < j /\ handled[i] = handled[j] => j - i > Capacity
  /\ seen = {order[i] : i \in 1..Len(order)} /\ Cardinality(seen) = Len(order)

\* A window id the client was given stands for the same native window, and
\* that window for the same id, for as long as the session is served, and no
\* two windows share one (WindowMap).
WindowIdsHold ==
  \A g \in given :
    g.session \in table /\ serving = "serving" =>
      LET m == maps[g.session]
      IN /\ g.public \in DOMAIN m.public_to_backend
         /\ m.public_to_backend[g.public] = g.handle
         /\ m.backend_to_public[g.handle] = g.public

\* Every session the server knows can be used: it is open, the runtime and the
\* backend are initialized, and its window ids are its own (handle_request).
LiveSessionsWork ==
  serving = "serving" =>
    \A s \in table :
      /\ s \notin closed /\ ready /\ flag /\ up
      /\ \A p \in DOMAIN maps[s].public_to_backend :
           [session |-> s, public |-> p, handle |-> backend_id(s, p)] \in given

\* When serve ends without an error every session there was is closed, no
\* input is left down and the backend is shut down, whether the client asked
\* for it or just went away.
NothingLeftBehind ==
  serving = "clean" => closed = 1..created /\ pressed = {} /\ ~up
=============================================================================
