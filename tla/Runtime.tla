------------------------------- MODULE Runtime -------------------------------
(***************************************************************************)
(* The process-wide runtime (server/runtime.py): the settings in memory    *)
(* and in their file, the revision that guards every change, the session   *)
(* of the open vault, the transition that swaps services under it, and the *)
(* requests and scheduled tasks that must not meet a swap.  The provider   *)
(* library is that of server/config.py (AISettings), the stack of the      *)
(* vault that of server/vault/lifecycle.py.                                *)
(*                                                                         *)
(* A route stands for everything a provider profile holds and is a new     *)
(* number for every edit, so that a lost edit shows.  The search settings  *)
(* are two fields, so that a partial edit has something to keep.           *)
(***************************************************************************)
EXTENDS Naturals, FiniteSets, Functions

CONSTANTS
  Workers,       \* threads that serve settings requests
  Requests,      \* requests of the other routes
  Roots,         \* vault directories
  Extra,         \* ids of profiles a user may add
  MaxProfiles,   \* MAX_AI_PROFILES
  MaxEdits,      \* bound: settings requests
  MaxCrashes     \* bound: restarts

ASSUME RuntimeAssumption == {MaxProfiles, MaxEdits, MaxCrashes} \subseteq Nat

VARIABLES
  settings,   \* Runtime.settings
  revision,   \* Runtime.revision
  session,    \* Runtime.session_id
  changing,   \* Runtime.changing
  inflight,   \* request or task -> session it was admitted under, 0 when idle
  file,       \* the settings file
  vault,      \* root and search settings of the lifecycle in use
  apart,      \* services a request left apart from the settings (for the properties)
  building,   \* the startup scan of the lifecycle is still running
  sched,      \* the scheduler in use and the one being prepared
  agent,      \* the route the adapter of the agent service was built with
  work,       \* progress of each settings request
  edits,      \* settings requests so far
  crashes     \* restarts so far

vars == <<settings, revision, session, changing, inflight, file, vault, apart, building,
          sched, agent, work, edits, crashes>>

Task == "task"
Fields == {"embedding", "ranking"}
-----------------------------------------------------------------------------
(* AISettings: the flat fields in use, the library and its active entry. *)

Default == "default"

\* synthesized_profiles, ensure_active_profile
Synthesized(ai) == IF DOMAIN ai.profiles = {} THEN [i \in {Default} |-> ai.flat] ELSE ai.profiles
EnsureActive(ai) == [ai EXCEPT !.profiles = Synthesized(ai)]

\* effective_profile and the validator that runs at every load: the flat fields
\* become those of the active entry.
Project(ai) == IF DOMAIN ai.profiles = {} THEN ai
               ELSE [ai EXCEPT !.flat = ai.profiles[ai.active]]
Projected(ai) == Project(ai) = ai

\* The entry of that id, if there is one, goes, and this one is appended.
Stored(profiles, id, route) ==
  [i \in DOMAIN profiles \cup {id} |-> IF i = id THEN route ELSE profiles[i]]

WithProfile(ai, id, route, activate) ==
  LET stored == [EnsureActive(ai) EXCEPT !.profiles = Stored(@, id, route)]
  IN IF activate THEN [stored EXCEPT !.active = id, !.flat = route] ELSE stored

WithoutProfile(ai, id) ==
  [EnsureActive(ai) EXCEPT !.profiles = Restrict(@, DOMAIN @ \ {id})]

WithFlatOverrides(ai, route) ==
  IF DOMAIN ai.profiles = {} THEN [ai EXCEPT !.flat = route]
  ELSE WithProfile(Project(ai), ai.active, route, TRUE)

\* apply_rag: the fields of the request over those in use.
WithRag(rag, field, value) == [rag EXCEPT ![field] = value]

\* What the request would make of the settings s.
Applied(op, s) ==
  CASE op.kind = "flat"     -> [s EXCEPT !.ai = WithFlatOverrides(@, op.route)]
    [] op.kind = "upsert"   -> [s EXCEPT !.ai = WithProfile(@, op.id, op.route, op.activate)]
    [] op.kind = "activate" -> [s EXCEPT !.ai = WithProfile(@, op.id, Synthesized(@)[op.id], TRUE)]
    [] op.kind = "delete"   -> [s EXCEPT !.ai = WithoutProfile(@, op.id)]
    [] op.kind = "rag"      -> [s EXCEPT !.rag = WithRag(@, op.field, op.route)]
    [] op.kind = "switch"   -> [s EXCEPT !.root = op.root]

\* _find_profile and the early refusals of upsert, activate and delete.
Refused(op, ai) ==
  LET known == DOMAIN Synthesized(ai)
  IN CASE op.kind = "upsert" ->
            op.id \notin known /\ Cardinality(DOMAIN ai.profiles) >= MaxProfiles
       [] op.kind = "activate" -> op.id \notin known
       [] op.kind = "delete" ->
            op.id \notin known \/ op.id = ai.active \/ Cardinality(known) <= 1
       [] OTHER -> FALSE

\* activate_profile of the entry already applied: checked, then nothing.
NoOp(op, ai) == op.kind = "activate" /\ op.id = ai.active

Ids == {Default} \cup Extra

Ops(n) ==
  [kind : {"flat"}, route : {n}]
    \cup [kind : {"upsert"}, id : Ids, route : {n}, activate : BOOLEAN]
    \cup [kind : {"activate", "delete"}, id : Ids]
    \cup [kind : {"rag"}, field : Fields, route : {n}]
    \cup [kind : {"switch"}, root : Roots]
-----------------------------------------------------------------------------
Idle == [pc |-> "idle"]

Init ==
  /\ \E root \in Roots :
       settings = [ai |-> [profiles |-> <<>>, active |-> Default, flat |-> 0],
                   rag |-> [f \in Fields |-> 0], root |-> root]
  /\ revision = 1
  /\ session = 1
  /\ changing = FALSE
  /\ inflight = [q \in Requests \cup {Task} |-> 0]
  /\ file = [settings |-> settings, revision |-> 1]
  /\ vault = [root |-> settings.root, rag |-> settings.rag]
  /\ apart = {}
  /\ building = TRUE
  /\ sched = [cur |-> "running", new |-> "none"]
  /\ agent = settings.ai.flat
  /\ work = [w \in Workers |-> Idle]
  /\ edits = 0
  /\ crashes = 0

\* _finish_background_index
FinishIndex ==
  /\ building
  /\ building' = FALSE
  /\ UNCHANGED <<settings, revision, session, changing, inflight, file, vault, apart, sched,
                 agent, work, edits, crashes>>

\* Runtime.request: a route under /api/v1 that is neither settings nor reader.
\* One that names the session of an earlier vault is refused.
EnterRequest(q) ==
  /\ inflight[q] = 0
  /\ ~changing
  /\ inflight' = [inflight EXCEPT ![q] = session]
  /\ UNCHANGED <<settings, revision, session, changing, file, vault, apart, building, sched,
                 agent, work, edits, crashes>>

\* A scheduler that is not paused runs a task with the services it was built
\* from; one being prepared can only do so if it was not paused.
StartTask ==
  /\ inflight[Task] = 0
  /\ "running" \in {sched.cur, sched.new}
  /\ inflight' = [inflight EXCEPT ![Task] = session]
  /\ UNCHANGED <<settings, revision, session, changing, file, vault, apart, building, sched,
                 agent, work, edits, crashes>>

Leave(q) ==
  /\ inflight[q] # 0
  /\ inflight' = [inflight EXCEPT ![q] = 0]
  /\ UNCHANGED <<settings, revision, session, changing, file, vault, apart, building, sched,
                 agent, work, edits, crashes>>
-----------------------------------------------------------------------------
(* A settings request. *)

Step(w, pc) == work' = [work EXCEPT ![w].pc = pc]

\* The page sends what it last saw, which may be old.  It knows a revision only
\* from a snapshot, and a snapshot projects the settings it shows in place.
Submit(w) ==
  /\ work[w].pc = "idle"
  /\ edits < MaxEdits
  /\ edits' = edits + 1
  /\ \E op \in Ops(edits'), rev \in 1 .. revision, ses \in 1 .. session :
       /\ rev = revision => Projected(settings.ai)
       /\ work' = [work EXCEPT ![w] = [pc |-> "sent", op |-> op, rev |-> rev, ses |-> ses]]
  /\ UNCHANGED <<settings, revision, session, changing, inflight, file, vault, apart, building,
                 sched, agent, crashes>>

\* What apply_ai, apply_rag and the profile routes compute from the settings
\* before they enter the transition.
Draft(w) ==
  /\ work[w].pc = "sent"
  /\ IF Refused(work[w].op, settings.ai) THEN work' = [work EXCEPT ![w] = Idle]
     ELSE work' = [work EXCEPT ![w] = [pc |-> "drafted", op |-> @.op, rev |-> @.rev,
                     ses |-> @.ses, draft |-> Applied(@.op, settings),
                     noop |-> NoOp(@.op, settings.ai)]]
  /\ UNCHANGED <<settings, revision, session, changing, inflight, file, vault, apart, building,
                 sched, agent, edits, crashes>>

\* Mutant: requests under way do not hold a transition up.
MayEnterMut(w) ==
  /\ ~changing
  /\ work[w].rev = revision
  /\ work[w].op.kind = "switch" => work[w].ses = session

\* The tests at the door of a transition.
MayEnter(w) ==
  /\ ~changing
  /\ \A q \in Requests : inflight[q] = 0
  /\ work[w].rev = revision
  /\ work[w].op.kind = "switch" => work[w].ses = session
  /\ inflight[Task] = 0

\* transition, its first half.  A request that may not enter is answered with a
\* conflict and changes nothing.
Enter(w) ==
  /\ work[w].pc = "drafted"
  /\ IF MayEnter(w)
       THEN /\ changing' = TRUE
            /\ sched' = [sched EXCEPT !.cur = "paused"]
            /\ Step(w, IF work[w].noop THEN "leaving" ELSE "entered")
       ELSE /\ work' = [work EXCEPT ![w] = Idle]
            /\ UNCHANGED <<changing, sched>>
  /\ UNCHANGED <<settings, revision, session, inflight, file, vault, apart, building, agent,
                 edits, crashes>>

\* switch_vault: the vault is the one in use, or its scan is not finished.
SwitchStays(w) ==
  /\ work[w].pc = "entered"
  /\ work[w].op.kind = "switch"
  /\ work[w].op.root = settings.root \/ building
  /\ Step(w, "leaving")
  /\ UNCHANGED <<settings, revision, session, changing, inflight, file, vault, apart, building,
                 sched, agent, edits, crashes>>

\* _commit_ai: an agent and a paused scheduler of the new settings.
BuildServices(w) ==
  /\ work[w].pc = "entered"
  /\ work[w].op.kind \notin {"rag", "switch"}
  /\ sched' = [sched EXCEPT !.new = "paused"]
  /\ Step(w, "built")
  /\ UNCHANGED <<settings, revision, session, changing, inflight, file, vault, apart, building,
                 agent, edits, crashes>>

\* apply_rag: reconfigure_rag swaps the stack of the lifecycle in use.
SwapStack(w) ==
  /\ work[w].pc = "entered"
  /\ work[w].op.kind = "rag"
  /\ vault' = [vault EXCEPT !.rag = work[w].draft.rag]
  /\ Step(w, "built")
  /\ UNCHANGED <<settings, revision, session, changing, inflight, file, apart, building,
                 sched, agent, edits, crashes>>

\* switch_vault: a whole lifecycle beside the one in use, an agent and a paused
\* scheduler over it.
PrepareVault(w) ==
  /\ work[w].pc = "entered"
  /\ work[w].op.kind = "switch"
  /\ work[w].op.root # settings.root /\ ~building
  /\ sched' = [sched EXCEPT !.new = "paused"]
  /\ Step(w, "built")
  /\ UNCHANGED <<settings, revision, session, changing, inflight, file, vault, apart, building,
                 agent, edits, crashes>>

\* Mutant: of an AI change only the fields in use are kept.
UpdatedMut(w) ==
  LET op == work[w].op
  IN CASE op.kind = "rag" -> [settings EXCEPT !.rag = work[w].draft.rag]
       [] op.kind = "switch" -> [settings EXCEPT !.root = op.root]
       [] OTHER -> [settings EXCEPT !.ai.flat = work[w].draft.ai.flat]

\* The section of the request over the settings of now.
Updated(w) ==
  LET op == work[w].op
  IN CASE op.kind = "rag" -> [settings EXCEPT !.rag = work[w].draft.rag]
       [] op.kind = "switch" -> [settings EXCEPT !.root = op.root]
       [] OTHER -> [settings EXCEPT !.ai = work[w].draft.ai]

\* ConfigRepository.save up to the replace, which is its commit point.
Save(w) ==
  /\ work[w].pc = "built"
  /\ file' = [settings |-> Updated(w), revision |-> revision + 1]
  /\ Step(w, "saved")
  /\ UNCHANGED <<settings, revision, session, changing, inflight, vault, apart, building, sched,
                 agent, edits, crashes>>

\* Building the services or saving raises: the prepared scheduler is stopped.
FailServices(w) ==
  /\ work[w].pc \in {"entered", "built"}
  /\ work[w].op.kind \notin {"rag", "switch"}
  /\ sched' = [sched EXCEPT !.new = "none"]
  /\ Step(w, "leaving")
  /\ UNCHANGED <<settings, revision, session, changing, inflight, file, vault, apart, building,
                 agent, edits, crashes>>

\* reconfigure_rag raises after it closed the old stack, or the save after the
\* stack was swapped: the lifecycle keeps the search settings it was given.
FailSwap(w) ==
  /\ work[w].pc \in {"entered", "built"}
  /\ work[w].op.kind = "rag"
  /\ vault' = [vault EXCEPT !.rag = work[w].draft.rag]
  /\ apart' = apart \cup {"stack"}
  /\ Step(w, "leaving")
  /\ UNCHANGED <<settings, revision, session, changing, inflight, file, building, sched,
                 agent, edits, crashes>>

\* Mutant: the file is replaced before the step that may fail.
FailVaultMut(w) ==
  /\ work[w].pc \in {"entered", "built"}
  /\ work[w].op.kind = "switch"
  /\ work[w].op.root # settings.root /\ ~building
  /\ sched' = [sched EXCEPT !.new = "none"]
  /\ Step(w, "leaving")
  /\ file' = [file EXCEPT !.settings = Updated(w)]
  /\ UNCHANGED <<settings, revision, session, changing, inflight, vault, apart, building,
                 agent, edits, crashes>>

\* The candidate does not start, its index is not ready, or the save raises:
\* the candidate and its scheduler are shut down.
FailVault(w) ==
  /\ work[w].pc \in {"entered", "built"}
  /\ work[w].op.kind = "switch"
  /\ work[w].op.root # settings.root /\ ~building
  /\ sched' = [sched EXCEPT !.new = "none"]
  /\ Step(w, "leaving")
  /\ UNCHANGED <<settings, revision, session, changing, inflight, file, vault, apart, building,
                 agent, edits, crashes>>

(* The assignments after the save. *)

\* upsert_profile of the entry in use without activate: the entry changes, the
\* flat fields the agent is built from do not.
EditsInUse(op, ai) == op.kind = "upsert" /\ ~op.activate /\ op.id = ai.active

AssignServices(w) ==
  /\ work[w].pc = "saved"
  /\ work[w].op.kind \notin {"rag", "switch"}
  /\ settings' = Updated(w)
  /\ agent' = settings'.ai.flat
  /\ apart' = IF EditsInUse(work[w].op, settings.ai) THEN apart \cup {"agent"}
              ELSE apart \ {"agent"}
  /\ sched' = [cur |-> sched.new, new |-> "none"]
  /\ Step(w, "assigned")
  /\ UNCHANGED <<revision, session, changing, inflight, file, vault, building, edits, crashes>>

AssignStack(w) ==
  /\ work[w].pc = "saved"
  /\ work[w].op.kind = "rag"
  /\ settings' = Updated(w)
  /\ apart' = apart \ {"stack"}
  /\ Step(w, "assigned")
  /\ UNCHANGED <<revision, session, changing, inflight, file, vault, building, sched, agent,
                 edits, crashes>>

AssignVault(w) ==
  /\ work[w].pc = "saved"
  /\ work[w].op.kind = "switch"
  /\ settings' = Updated(w)
  /\ vault' = [root |-> settings'.root, rag |-> settings'.rag]
  /\ agent' = settings'.ai.flat
  /\ apart' = {}
  /\ sched' = [cur |-> sched.new, new |-> "none"]
  /\ Step(w, "assigned")
  /\ UNCHANGED <<revision, session, changing, inflight, file, building, edits, crashes>>

\* The new session, the revision and _publish; the old services are stopped,
\* and their failure is only logged.
Publish(w) ==
  /\ work[w].pc = "assigned"
  /\ revision' = revision + 1
  /\ session' = IF work[w].op.kind = "switch" THEN session + 1 ELSE session
  /\ Step(w, "leaving")
  /\ UNCHANGED <<settings, changing, inflight, file, vault, apart, building, sched, agent,
                 edits, crashes>>

\* transition, its second half, and the snapshot for the answer, which projects
\* the active entry onto the flat fields in place.
Exit(w) ==
  /\ work[w].pc = "leaving"
  /\ changing' = FALSE
  /\ sched' = [sched EXCEPT !.cur = "running"]
  /\ settings' = [settings EXCEPT !.ai = Project(@)]
  /\ work' = [work EXCEPT ![w] = Idle]
  /\ UNCHANGED <<revision, session, inflight, file, vault, apart, building, agent, edits,
                 crashes>>

\* ConfigRepository.load
Load(f) == [f.settings EXCEPT !.ai = Project(@)]

\* The process dies and starts again from its file.
Restart ==
  /\ crashes < MaxCrashes
  /\ crashes' = crashes + 1
  /\ settings' = Load(file)
  /\ revision' = file.revision
  /\ session' = session + 1
  /\ changing' = FALSE
  /\ inflight' = [q \in DOMAIN inflight |-> 0]
  /\ vault' = [root |-> file.settings.root, rag |-> file.settings.rag]
  /\ building' = TRUE
  /\ sched' = [cur |-> "running", new |-> "none"]
  /\ agent' = settings'.ai.flat
  /\ apart' = {}
  /\ work' = [w \in Workers |-> Idle]
  /\ UNCHANGED <<file, edits>>

Next ==
  \/ FinishIndex \/ StartTask \/ Restart
  \/ \E q \in Requests : EnterRequest(q)
  \/ \E q \in DOMAIN inflight : Leave(q)
  \/ \E w \in Workers :
       \/ Submit(w) \/ Draft(w) \/ Enter(w) \/ SwitchStays(w)
       \/ BuildServices(w) \/ SwapStack(w) \/ PrepareVault(w) \/ Save(w)
       \/ FailServices(w) \/ FailSwap(w) \/ FailVault(w)
       \/ AssignServices(w) \/ AssignStack(w) \/ AssignVault(w) \/ Publish(w) \/ Exit(w)

Spec == Init /\ [][Next]_vars
-----------------------------------------------------------------------------
(***************************************************************************)
(* No settings request loses the effect of another: what a commit makes    *)
(* the settings is its own edit applied to the settings it replaces,       *)
(* although the edit was computed before the transition took any lock      *)
(* (runtime.py apply_ai, apply_rag and the profile methods).               *)
(***************************************************************************)
NoLostEdit ==
  [][\A w \in Workers :
       work[w].pc = "saved" /\ work'[w].pc = "assigned" =>
         Load([settings |-> settings']) = Load([settings |-> Applied(work[w].op, settings)])]_vars

(***************************************************************************)
(* A request or a scheduled task works on one vault: as long as it is      *)
(* under way the session is the one it was admitted under, and no swap of  *)
(* services is in progress (runtime.py request and transition).            *)
(***************************************************************************)
RequestSeesOneVault ==
  \A q \in DOMAIN inflight : inflight[q] # 0 => inflight[q] = session /\ ~changing

(***************************************************************************)
(* Outside a transition memory, file and services agree: a restart would   *)
(* give the same settings and revision, the vault in use is the configured *)
(* one, the agent was built with the route in use, the retrieval stack has *)
(* the search settings in use, and the scheduler runs, also after a        *)
(* failure (runtime.py _commit_ai, apply_rag, switch_vault).  Two requests *)
(* leave a service apart: a failed apply_rag the stack, until search       *)
(* settings are applied; an edit of the entry in use that does not         *)
(* activate it the agent, until the next change of a provider.  A switch   *)
(* of vault and a restart end both.                                        *)
(***************************************************************************)
SavedIsLive ==
  ~changing =>
    /\ Load(file) = Load([settings |-> settings])
    /\ file.revision = revision
    /\ vault.root = settings.root
    /\ "stack" \notin apart => vault.rag = settings.rag
    /\ "agent" \notin apart => agent = settings.ai.flat
    /\ sched = [cur |-> "running", new |-> "none"]
=============================================================================
