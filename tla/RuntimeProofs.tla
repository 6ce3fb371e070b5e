---------------------------- MODULE RuntimeProofs ----------------------------
(***************************************************************************)
(* Proofs about the runtime: no request meets a swap of services, no       *)
(* settings edit is lost, and outside a transition memory, file, vault,    *)
(* agent and scheduler agree.                                              *)
(***************************************************************************)
EXTENDS Runtime, Integers, FiniteSetTheorems, TLAPS

(***************************************************************************)
(* Types                                                                   *)
(***************************************************************************)
Library == UNION {[S -> Nat] : S \in SUBSET Ids}
AI == [profiles : Library, active : Ids, flat : Nat]
Rag == [Fields -> Nat]
Config == [ai : AI, rag : Rag, root : Roots]

\* What a settings request may ask for.
FlatOp == [kind : {"flat"}, route : Nat]
UpsertOp == [kind : {"upsert"}, id : Ids, route : Nat, activate : BOOLEAN]
ChoiceOp == [kind : {"activate", "delete"}, id : Ids]
RagOp == [kind : {"rag"}, field : Fields, route : Nat]
SwitchOp == [kind : {"switch"}, root : Roots]
Operation == FlatOp \cup UpsertOp \cup ChoiceOp \cup RagOp \cup SwitchOp

Swapping == {"entered", "built", "saved", "assigned", "leaving"}
Sent == [pc : {"sent"}, op : Operation, rev : Nat, ses : Nat]
Work == [pc : Swapping \cup {"drafted"}, op : Operation, rev : Nat, ses : Nat,
         draft : Config, noop : BOOLEAN]

\* The active entry is one of the library.
Known(ai) == ai.active \in DOMAIN Synthesized(ai)

TypeInv ==
  /\ settings \in Config /\ Known(settings.ai)
  /\ revision \in Nat /\ session \in Nat /\ changing \in BOOLEAN
  /\ inflight \in [Requests \cup {Task} -> Nat]
  /\ file \in [settings : Config, revision : Nat] /\ Known(file.settings.ai)
  /\ vault \in [root : Roots, rag : Rag] /\ agent \in Nat
  /\ sched \in [cur : {"running", "paused"}, new : {"none", "paused"}]
  /\ work \in [Workers -> {Idle} \cup Sent \cup Work]
  /\ \A w \in Workers : work[w].pc \in Swapping \cup {"drafted"} => Known(work[w].draft.ai)
  /\ edits \in Nat

(***************************************************************************)
(* The transition                                                          *)
(***************************************************************************)

\* One settings request at a time swaps services, and nothing else is under way.
LockInv ==
  /\ \A w \in Workers : work[w].pc \in Swapping => changing
  /\ \A v, w \in Workers : work[v].pc \in Swapping /\ work[w].pc \in Swapping => v = w
  /\ changing => sched.cur = "paused" /\ \A q \in DOMAIN inflight : inflight[q] = 0
  /\ ~changing => sched = [cur |-> "running", new |-> "none"]
  /\ \A w \in Workers : work[w].pc \in Swapping =>
       (sched.new = "paused" <=> work[w].pc \in {"built", "saved"} /\ work[w].op.kind # "rag")
  /\ RequestSeesOneVault

\* The vault in use is the configured one.
Serves(s) == vault.root = s.root

\* Settings as a start of the process would read them.
Loaded(s) == Load([settings |-> s])

\* Memory and file agree but between the commit and the publication.
LiveInv ==
  /\ Serves(settings)
  /\ \A w \in Workers : work[w].pc = "saved" =>
       file.settings = Updated(w) /\ file.revision = revision + 1
  /\ \A w \in Workers : work[w].pc = "assigned" =>
       file.settings = settings /\ file.revision = revision + 1
  /\ (\A w \in Workers : work[w].pc \notin {"saved", "assigned"}) =>
       Loaded(file.settings) = Loaded(settings) /\ file.revision = revision

\* A draft is what its edit makes of the settings s.
Fresh(c, s) ==
  /\ ~Refused(c.op, s.ai)
  /\ c.op.kind = "rag" => c.draft.rag = WithRag(s.rag, c.op.field, c.op.route)
  /\ c.op.kind \notin {"rag", "switch"} => Project(c.draft.ai) = Project(Applied(c.op, s).ai)

\* As long as the revision is the one the request named, its draft is fresh.
FreshInv ==
  /\ \A w \in Workers : work[w].pc # "idle" => work[w].rev <= revision
  /\ \A w \in Workers : work[w].pc \in {"entered", "built", "saved"} => work[w].rev = revision
  /\ \A w \in Workers :
       /\ work[w].pc \in {"drafted", "entered", "built", "saved"} /\ work[w].rev = revision
       /\ \A v \in Workers : work[v].pc # "assigned"
       => Fresh(work[w], settings)

\* The settings request w was sent for the revision in use and may still be
\* committed.
Current(w) ==
  /\ work[w].pc \in {"sent", "drafted", "entered", "built", "saved"}
  /\ work[w].rev = revision
  /\ \A v \in Workers : work[v].pc # "assigned"

\* The flat fields are those of the entry in use but between a commit and the end
\* of its transition, and in a draft but after an edit of the entry in use; the
\* agent was built with them.
AgentInv ==
  /\ (\A w \in Workers : work[w].pc \notin {"assigned", "leaving"}) => Projected(settings.ai)
  /\ \A w \in Workers : Current(w) =>
       /\ Projected(settings.ai)
       /\ work[w].pc # "sent" /\ work[w].op.kind \notin {"rag", "switch"} =>
            EditsInUse(work[w].op, settings.ai) \/ Projected(work[w].draft.ai)
  /\ "agent" \notin apart => agent = Project(settings.ai).flat

\* The retrieval stack has the search settings in use, or those of the request
\* that is about to commit them.
Retuning(w) == work[w].pc \in {"built", "saved"} /\ work[w].op.kind = "rag"

StackInv ==
  /\ \A w \in Workers : Retuning(w) => vault.rag = work[w].draft.rag
  /\ "stack" \notin apart /\ (\A w \in Workers : ~Retuning(w)) => vault.rag = settings.rag

RuntimeInv == TypeInv /\ LockInv /\ LiveInv /\ FreshInv /\ AgentInv /\ StackInv

(***************************************************************************)
(* The library of profiles                                                 *)
(***************************************************************************)

\* A library is a function on some ids, and the other way round.
LEMMA LibraryIs ==
  /\ \A f \in Library : DOMAIN f \subseteq Ids /\ (\A i \in DOMAIN f : f[i] \in Nat) /\ f \in [DOMAIN f -> Nat]
  /\ \A S \in SUBSET Ids : [S -> Nat] \subseteq Library
<1>1. ASSUME NEW f \in Library
      PROVE  DOMAIN f \subseteq Ids /\ (\A i \in DOMAIN f : f[i] \in Nat) /\ f \in [DOMAIN f -> Nat]
  <2>1. PICK S \in SUBSET Ids : f \in [S -> Nat]
    BY DEF Library
  <2> QED
    BY <2>1
<1>2. \A S \in SUBSET Ids : [S -> Nat] \subseteq Library
  BY DEF Library
<1> QED
  BY <1>1, <1>2

\* Two settings with the same fields are the same.
LEMMA SameAI ==
  ASSUME NEW a \in AI, NEW b \in AI, a.profiles = b.profiles, a.active = b.active, a.flat = b.flat
  PROVE  a = b
BY DEF AI

\* The library a request starts from is never empty.
LEMMA SynthesizedIs ==
  ASSUME NEW ai \in AI
  PROVE  /\ Synthesized(ai) \in Library /\ DOMAIN Synthesized(ai) # {} /\ DOMAIN Synthesized(ai) \subseteq Ids
         /\ DOMAIN ai.profiles # {} => Synthesized(ai) = ai.profiles
         /\ DOMAIN ai.profiles = {} => DOMAIN Synthesized(ai) = {Default}
<1>1. ai.profiles \in Library /\ ai.flat \in Nat /\ Default \in Ids
  BY DEF AI, Ids
<1>2. CASE DOMAIN ai.profiles = {}
  <2>1. Synthesized(ai) = [i \in {Default} |-> ai.flat]
    BY <1>2 DEF Synthesized
  <2>2. Synthesized(ai) \in [{Default} -> Nat] /\ DOMAIN Synthesized(ai) = {Default}
    BY <1>1, <2>1
  <2> QED
    BY <1>1, <1>2, <2>2, LibraryIs
<1>3. CASE DOMAIN ai.profiles # {}
  BY <1>1, <1>3, LibraryIs DEF Synthesized
<1> QED
  BY <1>2, <1>3

\* What the flat fields become at a load, and that a second load changes nothing.
LEMMA ProjectIs ==
  ASSUME NEW ai \in AI, Known(ai)
  PROVE  /\ Project(ai) \in AI /\ Project(ai).profiles = ai.profiles /\ Project(ai).active = ai.active
         /\ Project(ai).flat = IF DOMAIN ai.profiles = {} THEN ai.flat ELSE ai.profiles[ai.active]
         /\ Synthesized(Project(ai)) = Synthesized(ai) /\ Known(Project(ai))
         /\ Project(Project(ai)) = Project(ai)
<1>1. ai.profiles \in Library /\ ai.flat \in Nat /\ ai.active \in Ids
  BY DEF AI
<1>2. CASE DOMAIN ai.profiles = {}
  BY <1>2 DEF Project
<1>3. CASE DOMAIN ai.profiles # {}
  <2> DEFINE v == ai.profiles[ai.active]
  <2>1. v \in Nat
    BY <1>1, <1>3, LibraryIs, SynthesizedIs DEF Known
  <2>2. Project(ai) = [ai EXCEPT !.flat = v]
    BY <1>3 DEF Project
  <2> HIDE DEF v
  <2>3. /\ Project(ai) \in AI /\ Project(ai).profiles = ai.profiles /\ Project(ai).active = ai.active
        /\ Project(ai).flat = v
    BY <2>1, <2>2 DEF AI
  <2>4. Synthesized(Project(ai)) = ai.profiles /\ Synthesized(ai) = ai.profiles
    BY <1>3, <2>3 DEF Synthesized
  <2>5. Project(Project(ai)) = [Project(ai) EXCEPT !.flat = v]
    BY <1>3, <2>3 DEF Project, v
  <2>6. [Project(ai) EXCEPT !.flat = v] = Project(ai)
    BY <2>3 DEF AI
  <2> QED
    BY <1>3, <2>3, <2>4, <2>5, <2>6 DEF Known, v
<1> QED
  BY <1>2, <1>3

\* A library with one entry more, or one replaced.
LEMMA StoredIs ==
  ASSUME NEW f \in Library, NEW id \in Ids, NEW route \in Nat
  PROVE  /\ Stored(f, id, route) \in Library /\ DOMAIN Stored(f, id, route) = DOMAIN f \cup {id}
         /\ Stored(f, id, route)[id] = route
<1> DEFINE S == DOMAIN f \cup {id}
<1>1. S \in SUBSET Ids /\ \A i \in DOMAIN f : f[i] \in Nat
  BY LibraryIs
<1>2. Stored(f, id, route) \in [S -> Nat]
  BY <1>1 DEF Stored
<1> QED
  BY <1>1, <1>2, LibraryIs DEF Stored

\* Its first step: the flat fields become the one entry of an empty library.
LEMMA EnsureActiveIs ==
  ASSUME NEW ai \in AI
  PROVE  /\ EnsureActive(ai) \in AI /\ EnsureActive(ai).profiles = Synthesized(ai)
         /\ EnsureActive(ai).active = ai.active /\ EnsureActive(ai).flat = ai.flat
<1> DEFINE f == Synthesized(ai)
<1>1. f \in Library
  BY SynthesizedIs
<1>2. EnsureActive(ai) = [ai EXCEPT !.profiles = f]
  BY DEF EnsureActive
<1> HIDE DEF f
<1>3. EnsureActive(ai) \in AI /\ EnsureActive(ai).profiles = f /\ EnsureActive(ai).active = ai.active
      /\ EnsureActive(ai).flat = ai.flat
  BY <1>1, <1>2 DEF AI
<1> QED
  BY <1>3 DEF f

\* What with_profile returns.
LEMMA WithProfileIs ==
  ASSUME NEW ai \in AI, Known(ai), NEW id \in Ids, NEW route \in Nat, NEW activate \in BOOLEAN
  PROVE  LET new == WithProfile(ai, id, route, activate) IN
         /\ new \in AI /\ Known(new)
         /\ new.profiles = Stored(Synthesized(ai), id, route)
         /\ new.active = IF activate THEN id ELSE ai.active
         /\ new.flat = IF activate THEN route ELSE ai.flat
<1> DEFINE f == Stored(Synthesized(ai), id, route)
           base == EnsureActive(ai)
           stored == [base EXCEPT !.profiles = f]
           new == WithProfile(ai, id, route, activate)
<1>1. f \in Library /\ DOMAIN f = DOMAIN Synthesized(ai) \cup {id}
  BY SynthesizedIs, StoredIs
<1>2. base \in AI /\ base.profiles = Synthesized(ai) /\ base.active = ai.active /\ base.flat = ai.flat
  BY EnsureActiveIs
<1>3. new = IF activate THEN [stored EXCEPT !.active = id, !.flat = route] ELSE stored
  BY <1>2 DEF WithProfile
<1> HIDE DEF f, base, new
<1>4. stored \in AI /\ stored.profiles = f /\ stored.active = ai.active /\ stored.flat = ai.flat
  BY <1>1, <1>2 DEF AI
<1> HIDE DEF stored
<1>5. /\ new \in AI /\ new.profiles = f /\ new.active = IF activate THEN id ELSE ai.active
      /\ new.flat = IF activate THEN route ELSE ai.flat
  BY <1>3, <1>4 DEF AI
<1>6. Synthesized(new) = f
  BY <1>1, <1>5 DEF Synthesized
<1>7. Known(new)
  BY <1>1, <1>5, <1>6 DEF Known
<1> QED
  BY <1>5, <1>7 DEF f, new

\* What without_profile returns.
LEMMA WithoutProfileIs ==
  ASSUME NEW ai \in AI, Known(ai), NEW id \in Ids, id # ai.active
  PROVE  LET new == WithoutProfile(ai, id) IN
         /\ new \in AI /\ Known(new) /\ DOMAIN new.profiles # {}
         /\ new.profiles = Restrict(Synthesized(ai), DOMAIN Synthesized(ai) \ {id})
         /\ new.active = ai.active
<1> DEFINE S == DOMAIN Synthesized(ai) \ {id}
           f == Restrict(Synthesized(ai), S)
           base == EnsureActive(ai)
           new == WithoutProfile(ai, id)
<1>1. Synthesized(ai) \in Library /\ ai.active \in S
  BY SynthesizedIs DEF Known
<1>2. f \in [S -> Nat] /\ S \in SUBSET Ids
  BY <1>1, LibraryIs DEF Restrict
<1>3. f \in Library /\ DOMAIN f = S
  BY <1>2, LibraryIs
<1>4. base \in AI /\ base.profiles = Synthesized(ai) /\ base.active = ai.active
  BY EnsureActiveIs
<1>5. new = [base EXCEPT !.profiles = f]
  BY <1>4 DEF WithoutProfile
<1> HIDE DEF f, base, new, S
<1>6. new \in AI /\ new.profiles = f /\ new.active = ai.active
  BY <1>3, <1>4, <1>5 DEF AI
<1>7. Synthesized(new) = f
  BY <1>1, <1>3, <1>6 DEF Synthesized
<1>8. Known(new) /\ DOMAIN new.profiles # {}
  BY <1>1, <1>3, <1>6, <1>7 DEF Known
<1> QED
  BY <1>6, <1>8 DEF f, S, new

(***************************************************************************)
(* Settings requests                                                       *)
(***************************************************************************)

\* What a request carries.
LEMMA OperationIs ==
  ASSUME NEW op \in Operation
  PROVE  /\ op.kind \in {"flat", "upsert", "activate", "delete", "rag", "switch"}
         /\ op.kind \in {"flat", "upsert", "rag"} => op.route \in Nat
         /\ op.kind \in {"upsert", "activate", "delete"} => op.id \in Ids
         /\ op.kind = "upsert" => op.activate \in BOOLEAN
         /\ op.kind = "rag" => op.field \in Fields
         /\ op.kind = "switch" => op.root \in Roots
<1>1. CASE op \in FlatOp
  BY <1>1 DEF FlatOp
<1>2. CASE op \in UpsertOp
  BY <1>2 DEF UpsertOp
<1>3. CASE op \in ChoiceOp
  BY <1>3 DEF ChoiceOp
<1>4. CASE op \in RagOp
  BY <1>4 DEF RagOp
<1>5. CASE op \in SwitchOp
  BY <1>5 DEF SwitchOp
<1> QED
  BY <1>1, <1>2, <1>3, <1>4, <1>5 DEF Operation

\* The requests that are sent are among them.
LEMMA OpsAreOperations ==
  ASSUME NEW n \in Nat
  PROVE  Ops(n) \subseteq Operation
<1>1. [kind : {"flat"}, route : {n}] \subseteq FlatOp
  BY DEF FlatOp
<1>2. [kind : {"upsert"}, id : Ids, route : {n}, activate : BOOLEAN] \subseteq UpsertOp
  BY DEF UpsertOp
<1>3. [kind : {"rag"}, field : Fields, route : {n}] \subseteq RagOp
  BY DEF RagOp
<1> QED
  BY <1>1, <1>2, <1>3 DEF Ops, Operation, ChoiceOp, SwitchOp

\* An AI request that is not refused leaves a library whose active entry is in it.
LEMMA EditedAI ==
  ASSUME NEW op \in Operation, NEW ai \in AI, Known(ai), ~Refused(op, ai)
  PROVE  /\ op.kind = "flat" => WithFlatOverrides(ai, op.route) \in AI /\ Known(WithFlatOverrides(ai, op.route))
         /\ op.kind = "upsert" => /\ WithProfile(ai, op.id, op.route, op.activate) \in AI
                                  /\ Known(WithProfile(ai, op.id, op.route, op.activate))
         /\ op.kind = "activate" => /\ op.id \in DOMAIN Synthesized(ai) /\ Synthesized(ai)[op.id] \in Nat
                                    /\ WithProfile(ai, op.id, Synthesized(ai)[op.id], TRUE) \in AI
                                    /\ Known(WithProfile(ai, op.id, Synthesized(ai)[op.id], TRUE))
         /\ op.kind = "delete" => /\ op.id # ai.active /\ DOMAIN ai.profiles # {}
                                  /\ WithoutProfile(ai, op.id) \in AI /\ Known(WithoutProfile(ai, op.id))
<1>1. ASSUME op.kind = "flat"
      PROVE  WithFlatOverrides(ai, op.route) \in AI /\ Known(WithFlatOverrides(ai, op.route))
  <2>1. op.route \in Nat
    BY <1>1, OperationIs
  <2>2. CASE DOMAIN ai.profiles = {}
    <3> DEFINE r == op.route
    <3>1. WithFlatOverrides(ai, op.route) = [ai EXCEPT !.flat = r]
      BY <2>2 DEF WithFlatOverrides
    <3> HIDE DEF r
    <3>2. [ai EXCEPT !.flat = r] \in AI /\ [ai EXCEPT !.flat = r].profiles = ai.profiles
          /\ [ai EXCEPT !.flat = r].active = ai.active
      BY <2>1 DEF AI, r
    <3>3. DOMAIN Synthesized([ai EXCEPT !.flat = r]) = {Default} /\ DOMAIN Synthesized(ai) = {Default}
      BY <2>2, <3>2, SynthesizedIs
    <3> QED
      BY <3>1, <3>2, <3>3 DEF Known
  <2>3. CASE DOMAIN ai.profiles # {}
    <3>1. Project(ai) \in AI /\ Known(Project(ai)) /\ ai.active \in Ids
      BY ProjectIs DEF AI
    <3> DEFINE q == Project(ai)
               id == ai.active
               r == op.route
    <3>2. WithFlatOverrides(ai, op.route) = WithProfile(q, id, r, TRUE)
      BY <2>3 DEF WithFlatOverrides
    <3>3. q \in AI /\ Known(q) /\ id \in Ids /\ r \in Nat
      BY <2>1, <3>1
    <3> HIDE DEF q, id, r
    <3>4. WithProfile(q, id, r, TRUE) \in AI /\ Known(WithProfile(q, id, r, TRUE))
      BY <3>3, WithProfileIs
    <3> QED
      BY <3>2, <3>4
  <2> QED
    BY <2>2, <2>3
<1>2. ASSUME op.kind = "upsert"
      PROVE  /\ WithProfile(ai, op.id, op.route, op.activate) \in AI
             /\ Known(WithProfile(ai, op.id, op.route, op.activate))
  BY <1>2, OperationIs, WithProfileIs
<1>3. ASSUME op.kind = "activate"
      PROVE  /\ op.id \in DOMAIN Synthesized(ai) /\ Synthesized(ai)[op.id] \in Nat
             /\ WithProfile(ai, op.id, Synthesized(ai)[op.id], TRUE) \in AI
             /\ Known(WithProfile(ai, op.id, Synthesized(ai)[op.id], TRUE))
  <2>1. op.id \in DOMAIN Synthesized(ai)
    BY <1>3 DEF Refused
  <2>2. Synthesized(ai)[op.id] \in Nat /\ op.id \in Ids
    BY <2>1, SynthesizedIs, LibraryIs
  <2> QED
    BY <2>1, <2>2, WithProfileIs
<1>4. ASSUME op.kind = "delete"
      PROVE  /\ op.id # ai.active /\ DOMAIN ai.profiles # {}
             /\ WithoutProfile(ai, op.id) \in AI /\ Known(WithoutProfile(ai, op.id))
  <2>1. op.id # ai.active /\ ~(Cardinality(DOMAIN Synthesized(ai)) <= 1) /\ op.id \in Ids
    BY <1>4, OperationIs DEF Refused
  <2>2. DOMAIN ai.profiles # {}
    <3>1. Cardinality({Default}) = 1
      BY FS_Singleton
    <3> QED
      BY <2>1, <3>1, SynthesizedIs
  <2> QED
    BY <2>1, <2>2, WithoutProfileIs
<1> QED
  BY <1>1, <1>2, <1>3, <1>4

\* What a request that is not refused makes of the settings.
LEMMA AppliedIs ==
  ASSUME NEW op \in Operation, NEW s \in Config, Known(s.ai), ~Refused(op, s.ai)
  PROVE  LET new == Applied(op, s) IN
         /\ new \in Config /\ Known(new.ai)
         /\ op.kind = "rag" => new.ai = s.ai /\ new.root = s.root /\ new.rag = WithRag(s.rag, op.field, op.route)
         /\ op.kind = "switch" => new.ai = s.ai /\ new.rag = s.rag /\ new.root = op.root
         /\ op.kind \notin {"rag", "switch"} => new.rag = s.rag /\ new.root = s.root
         /\ op.kind = "flat" => new.ai = WithFlatOverrides(s.ai, op.route)
         /\ op.kind = "upsert" => new.ai = WithProfile(s.ai, op.id, op.route, op.activate)
         /\ op.kind = "activate" => new.ai = WithProfile(s.ai, op.id, Synthesized(s.ai)[op.id], TRUE)
         /\ op.kind = "delete" => new.ai = WithoutProfile(s.ai, op.id)
<1> DEFINE new == Applied(op, s)
<1>1. s.ai \in AI /\ s.rag \in Rag /\ s.root \in Roots
  BY DEF Config
<1>2. ASSUME NEW ai \in AI, Known(ai), new = [s EXCEPT !.ai = ai]
      PROVE  new \in Config /\ Known(new.ai) /\ new.ai = ai /\ new.rag = s.rag /\ new.root = s.root
  BY <1>2 DEF Config
<1> HIDE DEF new
<1>3. CASE op.kind = "flat"
  BY <1>1, <1>2, <1>3, EditedAI DEF Applied, new
<1>4. CASE op.kind = "upsert"
  BY <1>1, <1>2, <1>4, EditedAI DEF Applied, new
<1>5. CASE op.kind = "activate"
  BY <1>1, <1>2, <1>5, EditedAI DEF Applied, new
<1>6. CASE op.kind = "delete"
  BY <1>1, <1>2, <1>6, EditedAI DEF Applied, new
<1>7. CASE op.kind = "rag"
  <2> DEFINE r == WithRag(s.rag, op.field, op.route)
  <2>1. r \in Rag
    BY <1>1, <1>7, OperationIs DEF WithRag, Rag
  <2>2. new = [s EXCEPT !.rag = r]
    BY <1>7 DEF Applied, new
  <2> HIDE DEF r
  <2>3. new \in Config /\ new.ai = s.ai /\ new.rag = r /\ new.root = s.root
    BY <2>1, <2>2 DEF Config
  <2> QED
    BY <1>7, <2>3 DEF new, r
<1>8. CASE op.kind = "switch"
  <2> DEFINE r == op.root
  <2>1. r \in Roots
    BY <1>8, OperationIs
  <2>2. new = [s EXCEPT !.root = r]
    BY <1>8 DEF Applied, new
  <2> HIDE DEF r
  <2>3. new \in Config /\ new.ai = s.ai /\ new.rag = s.rag /\ new.root = r
    BY <2>1, <2>2 DEF Config
  <2> QED
    BY <1>8, <2>3 DEF new, r
<1> QED
  BY <1>3, <1>4, <1>5, <1>6, <1>7, <1>8, OperationIs

\* An edit does not read the flat fields of settings that have a library: what a
\* transition leaves projected gives the same.
LEMMA EditIgnoresFlat ==
  ASSUME NEW op \in Operation, NEW ai \in AI, Known(ai), ~Refused(op, ai)
  PROVE  /\ ~Refused(op, Project(ai))
         /\ op.kind = "flat" => Project(WithFlatOverrides(Project(ai), op.route)) = Project(WithFlatOverrides(ai, op.route))
         /\ op.kind = "upsert" => Project(WithProfile(Project(ai), op.id, op.route, op.activate))
                                   = Project(WithProfile(ai, op.id, op.route, op.activate))
         /\ op.kind = "activate" => Project(WithProfile(Project(ai), op.id, Synthesized(Project(ai))[op.id], TRUE))
                                     = Project(WithProfile(ai, op.id, Synthesized(ai)[op.id], TRUE))
         /\ op.kind = "delete" => Project(WithoutProfile(Project(ai), op.id)) = Project(WithoutProfile(ai, op.id))
<1> DEFINE p == Project(ai)
<1>1. /\ p \in AI /\ Known(p) /\ p.profiles = ai.profiles /\ p.active = ai.active
      /\ Synthesized(p) = Synthesized(ai) /\ Project(p) = p
  BY ProjectIs
<1>2. DOMAIN ai.profiles = {} => p = ai
  BY DEF Project
<1> HIDE DEF p
<1>3. ASSUME NEW a \in AI, NEW b \in AI, Known(a), Known(b), a.profiles = b.profiles, a.active = b.active,
             DOMAIN a.profiles # {}
      PROVE  Project(a) = Project(b)
  <2>1. Project(a).profiles = Project(b).profiles /\ Project(a).active = Project(b).active
        /\ Project(a).flat = Project(b).flat /\ Project(a) \in AI /\ Project(b) \in AI
    BY <1>3, ProjectIs
  <2> QED
    BY <2>1, SameAI
<1>4. ~Refused(op, p)
  BY <1>1, OperationIs DEF Refused
<1>5. ASSUME NEW id \in Ids, NEW route \in Nat, NEW activate \in BOOLEAN
      PROVE  Project(WithProfile(p, id, route, activate)) = Project(WithProfile(ai, id, route, activate))
  <2> DEFINE a == WithProfile(p, id, route, activate)
             b == WithProfile(ai, id, route, activate)
  <2>1. a \in AI /\ Known(a) /\ a.profiles = Stored(Synthesized(ai), id, route)
        /\ a.active = IF activate THEN id ELSE ai.active
    BY <1>1, WithProfileIs
  <2>2. b \in AI /\ Known(b) /\ b.profiles = Stored(Synthesized(ai), id, route)
        /\ b.active = IF activate THEN id ELSE ai.active
    BY WithProfileIs
  <2>3. DOMAIN Stored(Synthesized(ai), id, route) # {}
    BY DEF Stored
  <2> HIDE DEF a, b
  <2>4. Project(a) = Project(b)
    BY <1>3, <2>1, <2>2, <2>3
  <2> QED
    BY <2>4 DEF a, b
<1>6. op.kind = "flat" => Project(WithFlatOverrides(p, op.route)) = Project(WithFlatOverrides(ai, op.route))
  <2>1. CASE DOMAIN ai.profiles = {}
    BY <1>2, <2>1
  <2>2. CASE DOMAIN ai.profiles # {}
    <3>1. WithFlatOverrides(ai, op.route) = WithProfile(p, ai.active, op.route, TRUE)
      BY <2>2 DEF WithFlatOverrides, p
    <3>2. WithFlatOverrides(p, op.route) = WithProfile(Project(p), p.active, op.route, TRUE)
      BY <1>1, <2>2 DEF WithFlatOverrides
    <3> QED
      BY <1>1, <3>1, <3>2
  <2> QED
    BY <2>1, <2>2
<1>7. op.kind = "upsert" => Project(WithProfile(p, op.id, op.route, op.activate))
                            = Project(WithProfile(ai, op.id, op.route, op.activate))
  BY <1>5, OperationIs
<1>8. op.kind = "activate" => Project(WithProfile(p, op.id, Synthesized(p)[op.id], TRUE))
                              = Project(WithProfile(ai, op.id, Synthesized(ai)[op.id], TRUE))
  BY <1>1, <1>5, OperationIs, EditedAI
<1>9. op.kind = "delete" => Project(WithoutProfile(p, op.id)) = Project(WithoutProfile(ai, op.id))
  <2> SUFFICES ASSUME op.kind = "delete"
               PROVE  Project(WithoutProfile(p, op.id)) = Project(WithoutProfile(ai, op.id))
    OBVIOUS
  <2>1. op.id \in Ids /\ op.id # ai.active
    BY OperationIs, EditedAI
  <2> DEFINE a == WithoutProfile(p, op.id)
             b == WithoutProfile(ai, op.id)
             f == Restrict(Synthesized(ai), DOMAIN Synthesized(ai) \ {op.id})
  <2>2. a \in AI /\ Known(a) /\ a.profiles = f /\ a.active = ai.active
    BY <1>1, <2>1, WithoutProfileIs
  <2>3. b \in AI /\ Known(b) /\ b.profiles = f /\ b.active = ai.active /\ DOMAIN b.profiles # {}
    BY <2>1, WithoutProfileIs
  <2> HIDE DEF a, b, f
  <2>4. Project(a) = Project(b)
    BY <1>3, <2>2, <2>3
  <2> QED
    BY <2>4 DEF a, b
<1> QED
  BY <1>4, <1>6, <1>7, <1>8, <1>9 DEF p

(***************************************************************************)
(* Steps                                                                   *)
(***************************************************************************)

\* The stage of a settings request tells what is kept of it.
LEMMA WorkIs ==
  ASSUME TypeInv, NEW w \in Workers
  PROVE  /\ work[w].pc \in Swapping \cup {"drafted"} => work[w] \in Work /\ Known(work[w].draft.ai)
         /\ work[w].pc = "sent" => work[w] \in Sent
         /\ work[w].pc \in Swapping \cup {"idle", "sent", "drafted"}
<1>1. work[w] \in {Idle} \cup Sent \cup Work
  BY DEF TypeInv
<1>2. Idle.pc = "idle"
  BY DEF Idle
<1>3. CASE work[w] = Idle
  BY <1>2, <1>3 DEF Swapping
<1>4. CASE work[w] \in Sent
  BY <1>4 DEF Sent, Swapping
<1>5. CASE work[w] \in Work
  <2>1. work[w].pc \in Swapping \cup {"drafted"}
    BY <1>5 DEF Work
  <2> QED
    BY <1>5, <2>1 DEF TypeInv, Swapping
<1> QED
  BY <1>1, <1>3, <1>4, <1>5

\* A request goes on to its next stage with what it has.
LEMMA StepIs ==
  ASSUME TypeInv, NEW w \in Workers, work[w].pc \in Swapping \cup {"drafted"}, NEW pc \in Swapping, Step(w, pc)
  PROVE  /\ work' \in [Workers -> {Idle} \cup Sent \cup Work]
         /\ work'[w].pc = pc /\ work'[w].op = work[w].op /\ work'[w].rev = work[w].rev
         /\ work'[w].draft = work[w].draft
         /\ \A v \in Workers \ {w} : work'[v] = work[v]
<1> DEFINE c == [work[w] EXCEPT !.pc = pc]
<1>1. work[w] \in Work /\ work \in [Workers -> {Idle} \cup Sent \cup Work]
  BY WorkIs DEF TypeInv
<1>2. work' = [work EXCEPT ![w] = c]
  BY <1>1 DEF Step
<1>3. c \in Work /\ c.pc = pc /\ c.op = work[w].op /\ c.rev = work[w].rev /\ c.draft = work[w].draft
  BY <1>1 DEF Work
<1> HIDE DEF c
<1> QED
  BY <1>1, <1>2, <1>3

\* A request that ends leaves nothing.
LEMMA EndIs ==
  ASSUME TypeInv, NEW w \in Workers, work' = [work EXCEPT ![w] = Idle]
  PROVE  /\ work' \in [Workers -> {Idle} \cup Sent \cup Work]
         /\ work'[w].pc = "idle" /\ \A v \in Workers \ {w} : work'[v] = work[v]
BY DEF TypeInv, Idle

\* The settings a commit writes.
LEMMA UpdatedIs ==
  ASSUME TypeInv, NEW w \in Workers, work[w].pc \in Swapping
  PROVE  /\ Updated(w) \in Config /\ Known(Updated(w).ai)
         /\ Updated(w).ai = IF work[w].op.kind \in {"rag", "switch"} THEN settings.ai ELSE work[w].draft.ai
         /\ Updated(w).rag = IF work[w].op.kind = "rag" THEN work[w].draft.rag ELSE settings.rag
         /\ Updated(w).root = IF work[w].op.kind = "switch" THEN work[w].op.root ELSE settings.root
<1> DEFINE d == work[w].draft
           op == work[w].op
           new == Updated(w)
<1>1. d \in Config /\ Known(d.ai) /\ op \in Operation /\ settings \in Config /\ Known(settings.ai)
  BY WorkIs DEF Work, TypeInv
<1>2. d.ai \in AI /\ d.rag \in Rag /\ (op.kind = "switch" => op.root \in Roots)
  BY <1>1, OperationIs DEF Config
<1>3. CASE op.kind = "rag"
  <2> DEFINE r == d.rag
  <2>1. new = [settings EXCEPT !.rag = r]
    BY <1>3 DEF Updated
  <2> HIDE DEF r, new
  <2>2. new \in Config /\ new.ai = settings.ai /\ new.rag = r /\ new.root = settings.root
    BY <1>1, <1>2, <2>1 DEF Config, r
  <2> QED
    BY <1>1, <1>3, <2>2 DEF r, new
<1>4. CASE op.kind = "switch"
  <2> DEFINE r == op.root
  <2>1. new = [settings EXCEPT !.root = r]
    BY <1>4 DEF Updated
  <2> HIDE DEF r, new
  <2>2. new \in Config /\ new.ai = settings.ai /\ new.rag = settings.rag /\ new.root = r
    BY <1>1, <1>2, <1>4, <2>1 DEF Config, r
  <2> QED
    BY <1>1, <1>4, <2>2 DEF r, new
<1>5. CASE op.kind \notin {"rag", "switch"}
  <2> DEFINE r == d.ai
  <2>1. new = [settings EXCEPT !.ai = r]
    BY <1>5 DEF Updated
  <2> HIDE DEF r, new
  <2>2. new \in Config /\ new.ai = r /\ new.rag = settings.rag /\ new.root = settings.root
    BY <1>1, <1>2, <2>1 DEF Config, r
  <2> QED
    BY <1>1, <1>5, <2>2 DEF r, new
<1> QED
  BY <1>3, <1>4, <1>5

\* What is read back from the file, or left by a transition; reading it again
\* changes nothing.
LEMMA LoadedIs ==
  ASSUME NEW s \in Config, Known(s.ai)
  PROVE  /\ Loaded(s) \in Config /\ Known(Loaded(s).ai)
         /\ Loaded(s).ai = Project(s.ai) /\ Loaded(s).rag = s.rag /\ Loaded(s).root = s.root
         /\ Loaded(s) = [s EXCEPT !.ai = Project(s.ai)]
         /\ Loaded(Loaded(s)) = Loaded(s)
<1> DEFINE Of(u) == /\ Loaded(u) \in Config /\ Known(Loaded(u).ai) /\ Loaded(u) = [u EXCEPT !.ai = Project(u.ai)]
                    /\ Loaded(u).ai = Project(u.ai) /\ Loaded(u).rag = u.rag /\ Loaded(u).root = u.root
<1>1. ASSUME NEW u \in Config, Known(u.ai)
      PROVE  Of(u)
  <2> DEFINE a == Project(u.ai)
  <2>1. a \in AI /\ Known(a)
    BY <1>1, ProjectIs DEF Config
  <2>2. Loaded(u) = [u EXCEPT !.ai = a]
    BY DEF Load, Loaded
  <2> HIDE DEF a
  <2>3. /\ [u EXCEPT !.ai = a] \in Config /\ [u EXCEPT !.ai = a].ai = a /\ [u EXCEPT !.ai = a].rag = u.rag
        /\ [u EXCEPT !.ai = a].root = u.root
    BY <2>1 DEF Config
  <2> QED
    BY <2>1, <2>2, <2>3 DEF a
<1>2. Of(s)
  BY <1>1
<1>3. Of(Loaded(s))
  BY <1>1, <1>2
<1>4. Project(Project(s.ai)) = Project(s.ai)
  BY ProjectIs DEF Config
<1>5. Loaded(Loaded(s)) = Loaded(s)
  <2> DEFINE u == Loaded(s)
             v == Loaded(Loaded(s))
  <2>1. u \in Config /\ v \in Config /\ v.ai = u.ai /\ v.rag = u.rag /\ v.root = u.root
    BY <1>2, <1>3, <1>4
  <2> HIDE DEF u, v
  <2>2. u = v
    BY <2>1 DEF Config
  <2> QED
    BY <2>2 DEF u, v
<1> QED
  BY <1>2, <1>5

\* Settings with the same parts are read alike.
LEMMA SameLoaded ==
  ASSUME NEW s \in Config, NEW u \in Config, Known(s.ai), Known(u.ai),
         Project(s.ai) = Project(u.ai), s.rag = u.rag, s.root = u.root
  PROVE  Loaded(s) = Loaded(u)
<1> DEFINE a == Loaded(s)
           b == Loaded(u)
<1>1. a \in Config /\ b \in Config /\ a.ai = b.ai /\ a.rag = b.rag /\ a.root = b.root
  BY LoadedIs
<1> HIDE DEF a, b
<1>2. a = b
  BY <1>1 DEF Config
<1> QED
  BY <1>2 DEF a, b

\* The file is read so.
LEMMA LoadFile == Load(file) = Loaded(file.settings)
BY DEF Load, Loaded

\* Every step keeps the types, and the active entry in its library.
LEMMA TypeStep ==
  ASSUME TypeInv, LockInv, Next
  PROVE  TypeInv'
<1> DEFINE WorkOK == /\ work \in [Workers -> {Idle} \cup Sent \cup Work]
                     /\ \A w \in Workers : work[w].pc \in Swapping \cup {"drafted"} => Known(work[w].draft.ai)
           SettingsOK == settings \in Config /\ Known(settings.ai)
           FileOK == file \in [settings : Config, revision : Nat] /\ Known(file.settings.ai)
           SchedOK == sched \in [cur : {"running", "paused"}, new : {"none", "paused"}]
           VaultOK == vault \in [root : Roots, rag : Rag]
           RestOK == /\ revision \in Nat /\ session \in Nat /\ changing \in BOOLEAN
                     /\ inflight \in [Requests \cup {Task} -> Nat] /\ agent \in Nat /\ edits \in Nat
<1>1. WorkOK /\ SettingsOK /\ FileOK /\ SchedOK /\ VaultOK /\ RestOK
  BY DEF TypeInv
<1>2. SUFFICES WorkOK' /\ SettingsOK' /\ FileOK' /\ SchedOK' /\ VaultOK' /\ RestOK'
  BY DEF TypeInv
<1>3. Idle.pc = "idle"
  BY DEF Idle
<1>4. ASSUME NEW w \in Workers, work[w].pc \in Swapping \cup {"drafted"}, NEW pc \in Swapping, Step(w, pc)
      PROVE  WorkOK'
  <2>1. /\ work' \in [Workers -> {Idle} \cup Sent \cup Work]
        /\ work'[w].draft = work[w].draft /\ \A v \in Workers \ {w} : work'[v] = work[v]
    BY <1>4, StepIs
  <2>2. Known(work[w].draft.ai)
    BY <1>4, WorkIs
  <2> QED
    BY <1>1, <2>1, <2>2
<1>5. ASSUME NEW w \in Workers, work' = [work EXCEPT ![w] = Idle]
      PROVE  WorkOK'
  <2>1. /\ work' \in [Workers -> {Idle} \cup Sent \cup Work]
        /\ work'[w].pc = "idle" /\ \A v \in Workers \ {w} : work'[v] = work[v]
    BY <1>5, EndIs
  <2> QED
    BY <1>1, <2>1 DEF Swapping
<1>6. ASSUME UNCHANGED work
      PROVE  WorkOK'
  BY <1>1, <1>6
<1>7. ASSUME UNCHANGED settings
      PROVE  SettingsOK'
  BY <1>1, <1>7
<1>8. ASSUME UNCHANGED file
      PROVE  FileOK'
  BY <1>1, <1>8
<1>9. ASSUME UNCHANGED sched \/ sched' = [sched EXCEPT !.cur = "paused"] \/ sched' = [sched EXCEPT !.cur = "running"]
             \/ sched' = [sched EXCEPT !.new = "paused"] \/ sched' = [sched EXCEPT !.new = "none"]
      PROVE  SchedOK'
  BY <1>1, <1>9
<1>10. ASSUME UNCHANGED vault
       PROVE  VaultOK'
  BY <1>1, <1>10
<1>11. CASE FinishIndex \/ StartTask \/ (\E q \in Requests : EnterRequest(q)) \/ (\E q \in DOMAIN inflight : Leave(q))
  <2>1. /\ UNCHANGED <<work, settings, file, sched, vault, revision, session, changing, agent, edits>>
        /\ inflight' = inflight \/ \E q \in Requests \cup {Task}, n \in Nat : inflight' = [inflight EXCEPT ![q] = n]
    BY <1>1, <1>11 DEF FinishIndex, StartTask, EnterRequest, Leave
  <2>2. RestOK'
    BY <1>1, <2>1
  <2> HIDE DEF WorkOK, SettingsOK, FileOK, SchedOK, VaultOK, RestOK
  <2> QED
    BY <1>6, <1>7, <1>8, <1>9, <1>10, <2>1, <2>2
<1>12. ASSUME NEW w \in Workers, Submit(w)
       PROVE  WorkOK' /\ SettingsOK' /\ FileOK' /\ SchedOK' /\ VaultOK' /\ RestOK'
  <2>1. edits' = edits + 1 /\ UNCHANGED <<settings, file, sched, vault, revision, session, changing, inflight, agent>>
    BY <1>12 DEF Submit
  <2>2. PICK op \in Ops(edits'), rev \in 1 .. revision, ses \in 1 .. session :
          work' = [work EXCEPT ![w] = [pc |-> "sent", op |-> op, rev |-> rev, ses |-> ses]]
    BY <1>12 DEF Submit
  <2> DEFINE c == [pc |-> "sent", op |-> op, rev |-> rev, ses |-> ses]
  <2>3. c \in Sent /\ c.pc = "sent"
    BY <1>1, <2>1, OpsAreOperations DEF Sent
  <2> HIDE DEF c
  <2>4. work'[w] = c /\ \A v \in Workers \ {w} : work'[v] = work[v]
    BY <1>1, <2>2 DEF c
  <2>5. work' \in [Workers -> {Idle} \cup Sent \cup Work]
    BY <1>1, <2>2, <2>3 DEF c
  <2>6. WorkOK'
    BY <1>1, <2>3, <2>4, <2>5 DEF Swapping
  <2>7. RestOK'
    BY <1>1, <2>1
  <2> HIDE DEF WorkOK, SettingsOK, FileOK, SchedOK, VaultOK, RestOK
  <2> QED
    BY <1>7, <1>8, <1>9, <1>10, <2>1, <2>6, <2>7
<1>13. ASSUME NEW w \in Workers, Draft(w)
       PROVE  WorkOK' /\ SettingsOK' /\ FileOK' /\ SchedOK' /\ VaultOK' /\ RestOK'
  <2>1. UNCHANGED <<settings, file, sched, vault, revision, session, changing, inflight, agent, edits>>
    BY <1>13 DEF Draft
  <2>2. WorkOK'
    <3>1. CASE Refused(work[w].op, settings.ai)
      BY <1>5, <1>13, <3>1 DEF Draft
    <3>2. CASE ~Refused(work[w].op, settings.ai)
      <4> DEFINE d == Applied(work[w].op, settings)
                 n == NoOp(work[w].op, settings.ai)
                 c == [pc |-> "drafted", op |-> work[w].op, rev |-> work[w].rev, ses |-> work[w].ses, draft |-> d, noop |-> n]
      <4>1. work' = [work EXCEPT ![w] = c]
        BY <1>1, <1>13, <3>2 DEF Draft
      <4>2. work[w] \in Sent
        BY <1>13, WorkIs DEF Draft
      <4>3. d \in Config /\ Known(d.ai) /\ n \in BOOLEAN
        BY <1>1, <3>2, <4>2, AppliedIs DEF Sent, NoOp
      <4> HIDE DEF d, n
      <4>4. c \in Work /\ c.draft = d
        BY <4>2, <4>3 DEF Work, Sent
      <4> HIDE DEF c
      <4>5. work'[w] = c /\ (\A v \in Workers \ {w} : work'[v] = work[v]) /\ work' \in [Workers -> {Idle} \cup Sent \cup Work]
        BY <1>1, <4>1, <4>4
      <4> QED
        BY <1>1, <4>3, <4>4, <4>5
    <3> QED
      BY <3>1, <3>2
  <2>3. RestOK'
    BY <1>1, <2>1
  <2> HIDE DEF WorkOK, SettingsOK, FileOK, SchedOK, VaultOK, RestOK
  <2> QED
    BY <1>7, <1>8, <1>9, <1>10, <2>1, <2>2, <2>3
<1>14. ASSUME NEW w \in Workers, Enter(w)
       PROVE  WorkOK' /\ SettingsOK' /\ FileOK' /\ SchedOK' /\ VaultOK' /\ RestOK'
  <2>1. /\ UNCHANGED <<settings, file, vault, revision, session, inflight, agent, edits>> /\ changing' \in {changing, TRUE}
        /\ sched' = sched \/ sched' = [sched EXCEPT !.cur = "paused"]
        /\ work[w].pc = "drafted"
        /\ \/ work' = [work EXCEPT ![w] = Idle]
           \/ \E pc \in Swapping : Step(w, pc)
    BY <1>14 DEF Enter, Swapping
  <2>2. WorkOK'
    BY <1>4, <1>5, <2>1
  <2>3. RestOK'
    BY <1>1, <2>1
  <2> HIDE DEF WorkOK, SettingsOK, FileOK, SchedOK, VaultOK, RestOK
  <2> QED
    BY <1>7, <1>8, <1>9, <1>10, <2>1, <2>2, <2>3
<1>15. ASSUME NEW w \in Workers, SwitchStays(w) \/ BuildServices(w) \/ PrepareVault(w) \/ FailServices(w)
                                  \/ FailVault(w) \/ Publish(w)
       PROVE  WorkOK' /\ SettingsOK' /\ FileOK' /\ SchedOK' /\ VaultOK' /\ RestOK'
  <2>1. /\ UNCHANGED <<settings, file, vault, inflight, agent, edits, changing>>
        /\ revision' \in {revision, revision + 1} /\ session' \in {session, session + 1}
        /\ sched' = sched \/ sched' = [sched EXCEPT !.new = "paused"] \/ sched' = [sched EXCEPT !.new = "none"]
        /\ work[w].pc \in Swapping /\ \E pc \in Swapping : Step(w, pc)
    BY <1>15 DEF SwitchStays, BuildServices, PrepareVault, FailServices, FailVault, Publish, Swapping
  <2>2. WorkOK'
    BY <1>4, <2>1
  <2>3. RestOK'
    BY <1>1, <2>1
  <2> HIDE DEF WorkOK, SettingsOK, FileOK, SchedOK, VaultOK, RestOK
  <2> QED
    BY <1>7, <1>8, <1>9, <1>10, <2>1, <2>2, <2>3
<1>16. ASSUME NEW w \in Workers, SwapStack(w) \/ FailSwap(w)
       PROVE  WorkOK' /\ SettingsOK' /\ FileOK' /\ SchedOK' /\ VaultOK' /\ RestOK'
  <2>1. /\ UNCHANGED <<settings, file, sched, inflight, agent, edits, changing, revision, session>>
        /\ work[w].pc \in Swapping /\ \E pc \in Swapping : Step(w, pc)
    BY <1>16 DEF SwapStack, FailSwap, Swapping
  <2>2. WorkOK'
    BY <1>4, <2>1
  <2>3. VaultOK'
    <3> DEFINE r == work[w].draft.rag
    <3>1. vault' = [vault EXCEPT !.rag = r]
      BY <1>16 DEF SwapStack, FailSwap
    <3>2. r \in Rag
      BY <2>1, WorkIs DEF Work, Config
    <3> HIDE DEF r
    <3> QED
      BY <1>1, <3>1, <3>2
  <2>4. RestOK'
    BY <1>1, <2>1
  <2> HIDE DEF WorkOK, SettingsOK, FileOK, SchedOK, VaultOK, RestOK
  <2> QED
    BY <1>7, <1>8, <1>9, <2>1, <2>2, <2>3, <2>4
<1>17. ASSUME NEW w \in Workers, Save(w)
       PROVE  WorkOK' /\ SettingsOK' /\ FileOK' /\ SchedOK' /\ VaultOK' /\ RestOK'
  <2>1. /\ UNCHANGED <<settings, vault, sched, inflight, agent, edits, changing, revision, session>>
        /\ work[w].pc \in Swapping /\ \E pc \in Swapping : Step(w, pc)
    BY <1>17 DEF Save, Swapping
  <2>2. WorkOK'
    BY <1>4, <2>1
  <2>3. FileOK'
    <3>1. file' = [settings |-> Updated(w), revision |-> revision + 1]
      BY <1>17 DEF Save
    <3> QED
      BY <1>1, <2>1, <3>1, UpdatedIs
  <2>4. RestOK'
    BY <1>1, <2>1
  <2> HIDE DEF WorkOK, SettingsOK, FileOK, SchedOK, VaultOK, RestOK
  <2> QED
    BY <1>7, <1>9, <1>10, <2>1, <2>2, <2>3, <2>4
<1>18. ASSUME NEW w \in Workers, AssignServices(w) \/ AssignStack(w) \/ AssignVault(w)
       PROVE  WorkOK' /\ SettingsOK' /\ FileOK' /\ SchedOK' /\ VaultOK' /\ RestOK'
  <2>1. /\ settings' = Updated(w) /\ UNCHANGED <<file, revision, session, changing, inflight, edits>>
        /\ agent' = agent \/ agent' = settings'.ai.flat
        /\ vault' = vault \/ vault' = [root |-> settings'.root, rag |-> settings'.rag]
        /\ sched' = sched \/ (sched' = [cur |-> sched.new, new |-> "none"] /\ work[w].op.kind # "rag")
        /\ work[w].pc = "saved" /\ Step(w, "assigned")
    BY <1>18 DEF AssignServices, AssignStack, AssignVault
  <2>2. WorkOK'
    BY <1>4, <2>1 DEF Swapping
  <2>3. Updated(w) \in Config /\ Known(Updated(w).ai)
    BY <2>1, UpdatedIs DEF Swapping
  <2>4. SettingsOK' /\ RestOK' /\ VaultOK'
    <3>1. settings' \in Config /\ Known(settings'.ai)
      BY <2>1, <2>3
    <3>2. settings'.ai.flat \in Nat /\ settings'.root \in Roots /\ settings'.rag \in Rag
      BY <3>1 DEF Config, AI
    <3> QED
      BY <1>1, <2>1, <3>1, <3>2
  <2>5. SchedOK'
    <3>1. work[w].op.kind # "rag" => sched.new = "paused"
      BY <2>1 DEF LockInv, Swapping
    <3> QED
      BY <1>1, <2>1, <3>1
  <2> HIDE DEF WorkOK, SettingsOK, FileOK, SchedOK, VaultOK, RestOK
  <2> QED
    BY <1>8, <2>1, <2>2, <2>4, <2>5
<1>19. ASSUME NEW w \in Workers, Exit(w)
       PROVE  WorkOK' /\ SettingsOK' /\ FileOK' /\ SchedOK' /\ VaultOK' /\ RestOK'
  <2>1. /\ UNCHANGED <<file, vault, revision, session, inflight, edits, agent>> /\ changing' = FALSE
        /\ sched' = [sched EXCEPT !.cur = "running"] /\ work' = [work EXCEPT ![w] = Idle]
        /\ settings' = [settings EXCEPT !.ai = Project(settings.ai)]
    BY <1>1, <1>19 DEF Exit, Config
  <2>2. SettingsOK'
    <3>1. settings' = Loaded(settings)
      BY <1>1, <2>1, LoadedIs
    <3> QED
      BY <1>1, <3>1, LoadedIs
  <2>3. RestOK'
    BY <1>1, <2>1
  <2> HIDE DEF WorkOK, SettingsOK, FileOK, SchedOK, VaultOK, RestOK
  <2> QED
    BY <1>5, <1>8, <1>9, <1>10, <2>1, <2>2, <2>3
<1>20. CASE Restart
  <2>1. /\ settings' = Load(file) /\ revision' = file.revision /\ session' = session + 1 /\ changing' = FALSE
        /\ inflight' = [q \in DOMAIN inflight |-> 0] /\ sched' = [cur |-> "running", new |-> "none"]
        /\ vault' = [root |-> file.settings.root, rag |-> file.settings.rag]
        /\ agent' = settings'.ai.flat /\ work' = [w \in Workers |-> Idle] /\ UNCHANGED <<file, edits>>
    BY <1>20 DEF Restart
  <2>2. file.settings \in Config /\ Known(file.settings.ai) /\ file.revision \in Nat
    BY <1>1
  <2>3. settings' \in Config /\ Known(settings'.ai)
    BY <2>1, <2>2, LoadFile, LoadedIs
  <2>4. RestOK' /\ VaultOK'
    <3>1. settings'.ai \in AI /\ file.settings.root \in Roots /\ file.settings.rag \in Rag
      BY <2>2, <2>3 DEF Config
    <3>2. VaultOK'
      BY <2>1, <3>1
    <3>3. inflight' \in [Requests \cup {Task} -> Nat]
      <4>1. DOMAIN inflight = Requests \cup {Task}
        BY <1>1
      <4> QED
        BY <2>1, <4>1
    <3>4. session' \in Nat /\ revision' \in Nat /\ changing' \in BOOLEAN /\ agent' \in Nat /\ edits' \in Nat
      <4>1. session \in Nat /\ edits \in Nat
        BY <1>1
      <4>2. session' \in Nat /\ edits' \in Nat
        BY <2>1, <4>1
      <4>3. settings'.ai.flat \in Nat
        BY <3>1 DEF AI
      <4> QED
        BY <2>1, <2>2, <4>2, <4>3
    <3>5. RestOK'
      BY <3>3, <3>4
    <3> QED
      BY <3>2, <3>5
  <2>5. WorkOK'
    BY <1>3, <2>1 DEF Swapping
  <2>6. SchedOK' /\ SettingsOK'
    BY <2>1, <2>3
  <2> HIDE DEF WorkOK, SettingsOK, FileOK, SchedOK, VaultOK, RestOK
  <2> QED
    BY <1>8, <2>1, <2>4, <2>5, <2>6
<1> HIDE DEF WorkOK, SettingsOK, FileOK, SchedOK, VaultOK, RestOK
<1> QED
  BY <1>11, <1>12, <1>13, <1>14, <1>15, <1>16, <1>17, <1>18, <1>19, <1>20 DEF Next

\* One request at a time swaps services: the door lets nobody in meanwhile.
LEMMA LockStep ==
  ASSUME TypeInv, LockInv, Next
  PROVE  LockInv'
<1>1. /\ work \in [Workers -> {Idle} \cup Sent \cup Work] /\ inflight \in [Requests \cup {Task} -> Nat]
      /\ changing \in BOOLEAN /\ sched \in [cur : {"running", "paused"}, new : {"none", "paused"}]
  BY DEF TypeInv
<1>2. Idle.pc = "idle" /\ "idle" \notin Swapping
  BY DEF Idle, Swapping
<1>3. ASSUME UNCHANGED <<changing, sched, inflight, session>>, NEW w \in Workers, work'[w].pc \notin Swapping,
             \A v \in Workers \ {w} : work'[v] = work[v]
      PROVE  LockInv'
  BY <1>3 DEF LockInv, RequestSeesOneVault
<1>4. ASSUME NEW w \in Workers, NEW pc \in Swapping, work[w].pc \in Swapping, Step(w, pc),
             UNCHANGED <<changing, inflight>>, sched'.cur = sched.cur,
             sched'.new = "paused" <=> pc \in {"built", "saved"} /\ work[w].op.kind # "rag"
      PROVE  LockInv'
  <2>1. /\ work'[w].pc = pc /\ work'[w].op = work[w].op
        /\ \A v \in Workers \ {w} : work'[v] = work[v]
    BY <1>4, StepIs
  <2>2. changing /\ \A v \in Workers \ {w} : work[v].pc \notin Swapping
    BY <1>4 DEF LockInv
  <2> QED
    BY <1>4, <2>1, <2>2 DEF LockInv, RequestSeesOneVault
<1>5. CASE FinishIndex
  BY <1>5 DEF FinishIndex, LockInv, RequestSeesOneVault
<1>6. CASE StartTask \/ \E q \in Requests : EnterRequest(q)
  <2>1. ~changing
    BY <1>1, <1>6 DEF StartTask, EnterRequest, LockInv
  <2>2. /\ UNCHANGED <<changing, sched, work, session>>
        /\ \E q \in Requests \cup {Task} : inflight' = [inflight EXCEPT ![q] = session]
    BY <1>6 DEF StartTask, EnterRequest
  <2>3. \A q \in DOMAIN inflight' : inflight'[q] \in {inflight[q], session} /\ q \in DOMAIN inflight
    BY <1>1, <2>2
  <2> QED
    BY <2>1, <2>2, <2>3 DEF LockInv, RequestSeesOneVault
<1>7. ASSUME NEW q \in DOMAIN inflight, Leave(q)
      PROVE  LockInv'
  <2>1. UNCHANGED <<changing, sched, work, session>> /\ inflight' = [inflight EXCEPT ![q] = 0]
    BY <1>7 DEF Leave
  <2>2. \A r \in DOMAIN inflight' : inflight'[r] \in {inflight[r], 0} /\ r \in DOMAIN inflight
    BY <1>1, <2>1
  <2> QED
    BY <2>1, <2>2 DEF LockInv, RequestSeesOneVault
<1>8. ASSUME NEW w \in Workers, Submit(w) \/ Draft(w)
      PROVE  LockInv'
  <2>1. /\ UNCHANGED <<changing, sched, inflight, session>>
        /\ \E c : work' = [work EXCEPT ![w] = c] /\ c.pc \in {"idle", "sent", "drafted"}
    BY <1>2, <1>8 DEF Submit, Draft
  <2> QED
    BY <1>1, <1>3, <2>1 DEF Swapping
<1>9. ASSUME NEW w \in Workers, Enter(w)
      PROVE  LockInv'
  <2>1. CASE MayEnter(w)
    <3>1. /\ ~changing /\ changing' = TRUE /\ sched' = [sched EXCEPT !.cur = "paused"] /\ work[w].pc = "drafted"
          /\ UNCHANGED <<inflight, session>> /\ \E pc \in {"leaving", "entered"} : Step(w, pc)
      BY <1>9, <2>1 DEF Enter, MayEnter
    <3>2. /\ work'[w].pc \in {"leaving", "entered"} /\ \A v \in Workers \ {w} : work'[v] = work[v]
      BY <3>1, StepIs DEF Swapping
    <3>3. \A q \in DOMAIN inflight : inflight[q] = 0
      BY <1>1, <2>1 DEF MayEnter
    <3>4. sched'.cur = "paused" /\ sched'.new = "none"
      BY <1>1, <3>1 DEF LockInv
    <3>5. \A v \in Workers \ {w} : work'[v].pc \notin Swapping
      BY <3>1, <3>2 DEF LockInv
    <3> QED
      BY <3>1, <3>2, <3>3, <3>4, <3>5 DEF LockInv, RequestSeesOneVault
  <2>2. CASE ~MayEnter(w)
    <3>1. UNCHANGED <<changing, sched, inflight, session>> /\ work' = [work EXCEPT ![w] = Idle]
      BY <1>9, <2>2 DEF Enter
    <3> QED
      BY <1>1, <1>2, <1>3, <3>1
  <2> QED
    BY <2>1, <2>2
<1>10. ASSUME NEW w \in Workers, SwitchStays(w) \/ SwapStack(w) \/ FailSwap(w) \/ Publish(w)
       PROVE  LockInv'
  <2>1. /\ UNCHANGED <<changing, inflight, sched>> /\ work[w].pc \in Swapping
        /\ \/ work[w].pc = "entered" /\ Step(w, "leaving")
           \/ work[w].pc = "entered" /\ Step(w, "built") /\ work[w].op.kind = "rag"
           \/ work[w].pc = "built" /\ Step(w, "leaving") /\ work[w].op.kind = "rag"
           \/ work[w].pc = "assigned" /\ Step(w, "leaving")
    BY <1>10 DEF SwitchStays, SwapStack, FailSwap, Publish, Swapping
  <2>2. sched.new = "paused" <=> work[w].pc \in {"built", "saved"} /\ work[w].op.kind # "rag"
    BY <2>1 DEF LockInv
  <2> QED
    BY <1>4, <2>1, <2>2 DEF Swapping
<1>11. ASSUME NEW w \in Workers, BuildServices(w) \/ PrepareVault(w)
       PROVE  LockInv'
  <2>1. /\ UNCHANGED <<changing, inflight>> /\ work[w].pc = "entered" /\ Step(w, "built") /\ work[w].op.kind # "rag"
        /\ sched' = [sched EXCEPT !.new = "paused"]
    BY <1>11 DEF BuildServices, PrepareVault
  <2>2. sched'.cur = sched.cur /\ sched'.new = "paused"
    BY <1>1, <2>1
  <2> QED
    BY <1>4, <2>1, <2>2 DEF Swapping
<1>12. ASSUME NEW w \in Workers, FailServices(w) \/ FailVault(w)
       PROVE  LockInv'
  <2>1. /\ UNCHANGED <<changing, inflight>> /\ work[w].pc \in {"entered", "built"} /\ Step(w, "leaving")
        /\ sched' = [sched EXCEPT !.new = "none"]
    BY <1>12 DEF FailServices, FailVault
  <2>2. sched'.cur = sched.cur /\ sched'.new = "none"
    BY <1>1, <2>1
  <2> QED
    BY <1>4, <2>1, <2>2 DEF Swapping
<1>13. ASSUME NEW w \in Workers, Save(w)
       PROVE  LockInv'
  <2>1. UNCHANGED <<changing, inflight, sched>> /\ work[w].pc = "built" /\ Step(w, "saved")
    BY <1>13 DEF Save
  <2>2. sched.new = "paused" <=> work[w].op.kind # "rag"
    BY <2>1 DEF LockInv, Swapping
  <2> QED
    BY <1>4, <2>1, <2>2 DEF Swapping
<1>14. ASSUME NEW w \in Workers, AssignServices(w) \/ AssignStack(w) \/ AssignVault(w)
       PROVE  LockInv'
  <2>1. /\ UNCHANGED <<changing, inflight>> /\ work[w].pc = "saved" /\ Step(w, "assigned")
        /\ \/ sched' = sched /\ work[w].op.kind = "rag"
           \/ sched' = [cur |-> sched.new, new |-> "none"] /\ work[w].op.kind # "rag"
    BY <1>14 DEF AssignServices, AssignStack, AssignVault
  <2>2. changing /\ sched.cur = "paused" /\ (sched.new = "paused" <=> work[w].op.kind # "rag")
    BY <2>1 DEF LockInv, Swapping
  <2>3. sched'.cur = sched.cur /\ sched'.new # "paused"
    BY <2>1, <2>2
  <2> QED
    BY <1>4, <2>1, <2>3 DEF Swapping
<1>15. ASSUME NEW w \in Workers, Exit(w)
       PROVE  LockInv'
  <2>1. /\ work[w].pc = "leaving" /\ changing' = FALSE /\ sched' = [sched EXCEPT !.cur = "running"]
        /\ work' = [work EXCEPT ![w] = Idle] /\ UNCHANGED <<inflight, session>>
    BY <1>15 DEF Exit
  <2>2. \A v \in Workers : work'[v].pc \notin Swapping
    <3>1. \A v \in Workers \ {w} : work'[v] = work[v] /\ work[v].pc \notin Swapping
      BY <1>1, <2>1 DEF LockInv, Swapping
    <3> QED
      BY <1>1, <1>2, <2>1, <3>1
  <2>3. sched' = [cur |-> "running", new |-> "none"] /\ \A q \in DOMAIN inflight : inflight[q] = 0
    <3>1. sched.new # "paused" /\ changing
      BY <2>1 DEF LockInv, Swapping
    <3>2. sched.new = "none"
      BY <1>1, <3>1
    <3> QED
      BY <1>1, <2>1, <3>1, <3>2 DEF LockInv
  <2> QED
    BY <2>1, <2>2, <2>3 DEF LockInv, RequestSeesOneVault
<1>16. CASE Restart
  <2>1. /\ changing' = FALSE /\ sched' = [cur |-> "running", new |-> "none"]
        /\ inflight' = [q \in DOMAIN inflight |-> 0] /\ work' = [w \in Workers |-> Idle]
    BY <1>16 DEF Restart
  <2>2. \A v \in Workers : work'[v].pc \notin Swapping
    BY <1>2, <2>1
  <2> QED
    BY <2>1, <2>2 DEF LockInv, RequestSeesOneVault
<1> QED
  BY <1>5, <1>6, <1>7, <1>8, <1>9, <1>10, <1>11, <1>12, <1>13, <1>14, <1>15, <1>16 DEF Next

\* Memory, file, vault and agent keep step with each other.
LEMMA LiveStep ==
  ASSUME TypeInv, LockInv, LiveInv, Next
  PROVE  LiveInv'
<1> DEFINE Mid == {"saved", "assigned"}
<1>1. /\ work \in [Workers -> {Idle} \cup Sent \cup Work] /\ settings \in Config /\ Known(settings.ai)
      /\ vault \in [root : Roots, rag : Rag] /\ agent \in Nat
      /\ file \in [settings : Config, revision : Nat] /\ Known(file.settings.ai)
  BY DEF TypeInv
<1>2. Idle.pc = "idle"
  BY DEF Idle
<1>3. ASSUME UNCHANGED <<settings, file, revision, agent>>, vault'.root = vault.root,
             NEW w \in Workers, work[w].pc \notin Mid, work'[w].pc \notin Mid, \A v \in Workers \ {w} : work'[v] = work[v]
      PROVE  LiveInv'
  BY <1>3 DEF LiveInv, Serves, Updated, Loaded
<1>4. ASSUME NEW w \in Workers, work[w].pc \in Swapping
      PROVE  \A v \in Workers \ {w} : work[v].pc \notin Mid
  BY <1>4 DEF LockInv, Swapping
<1>5. CASE FinishIndex \/ StartTask \/ (\E q \in Requests : EnterRequest(q)) \/ (\E q \in DOMAIN inflight : Leave(q))
  <2>1. UNCHANGED <<settings, file, revision, agent, vault, work>>
    BY <1>5 DEF FinishIndex, StartTask, EnterRequest, Leave
  <2> QED
    BY <2>1 DEF LiveInv, Serves, Updated, Loaded
<1>6. ASSUME NEW w \in Workers, Submit(w) \/ Draft(w)
      PROVE  LiveInv'
  <2>1. /\ UNCHANGED <<settings, file, revision, agent, vault>> /\ work[w].pc \in {"idle", "sent"}
        /\ \E c : work' = [work EXCEPT ![w] = c] /\ c.pc \in {"idle", "sent", "drafted"}
    BY <1>2, <1>6 DEF Submit, Draft
  <2>2. work'[w].pc \notin Mid /\ \A v \in Workers \ {w} : work'[v] = work[v]
    BY <1>1, <2>1
  <2> QED
    BY <1>3, <2>1, <2>2
<1>7. ASSUME NEW w \in Workers, Enter(w) \/ SwitchStays(w) \/ BuildServices(w) \/ PrepareVault(w) \/ FailServices(w)
                                 \/ FailVault(w)
      PROVE  LiveInv'
  <2>1. /\ UNCHANGED <<settings, file, revision, agent, vault>> /\ work[w].pc \in {"drafted", "entered", "built"}
        /\ work' = [work EXCEPT ![w] = Idle] \/ \E pc \in {"entered", "built", "leaving"} : Step(w, pc)
    BY <1>7 DEF Enter, SwitchStays, BuildServices, PrepareVault, FailServices, FailVault
  <2>2. work'[w].pc \notin Mid /\ \A v \in Workers \ {w} : work'[v] = work[v]
    BY <2>1, EndIs, StepIs DEF Swapping
  <2> QED
    BY <1>3, <2>1, <2>2
<1>8. ASSUME NEW w \in Workers, SwapStack(w) \/ FailSwap(w)
      PROVE  LiveInv'
  <2>1. /\ UNCHANGED <<settings, file, revision, agent>> /\ work[w].pc \in {"entered", "built"}
        /\ Step(w, "built") \/ Step(w, "leaving")
        /\ vault' = [vault EXCEPT !.rag = work[w].draft.rag]
    BY <1>8 DEF SwapStack, FailSwap
  <2>2. work'[w].pc \notin Mid /\ \A v \in Workers \ {w} : work'[v] = work[v]
    BY <2>1, StepIs DEF Swapping
  <2>3. vault'.root = vault.root
    BY <1>1, <2>1
  <2> QED
    BY <1>3, <2>1, <2>2, <2>3
<1>9. ASSUME NEW w \in Workers, Save(w)
      PROVE  LiveInv'
  <2>1. /\ UNCHANGED <<settings, revision, agent, vault>> /\ work[w].pc = "built" /\ Step(w, "saved")
        /\ file' = [settings |-> Updated(w), revision |-> revision + 1]
    BY <1>9 DEF Save
  <2>2. /\ work'[w].pc = "saved" /\ work'[w].op = work[w].op /\ work'[w].draft = work[w].draft
        /\ \A v \in Workers \ {w} : work'[v] = work[v] /\ work[v].pc \notin Mid
    BY <1>4, <2>1, StepIs DEF Swapping
  <2>3. Updated(w)' = Updated(w)
    BY <2>1, <2>2 DEF Updated
  <2> QED
    BY <2>1, <2>2, <2>3 DEF LiveInv, Serves
<1>10. ASSUME NEW w \in Workers, AssignServices(w) \/ AssignStack(w) \/ AssignVault(w)
       PROVE  LiveInv'
  <2>1. /\ UNCHANGED <<file, revision>> /\ work[w].pc = "saved" /\ Step(w, "assigned") /\ settings' = Updated(w)
        /\ \/ work[w].op.kind \notin {"rag", "switch"} /\ agent' = settings'.ai.flat /\ vault' = vault
           \/ work[w].op.kind = "rag" /\ agent' = agent /\ vault' = vault
           \/ work[w].op.kind = "switch" /\ agent' = settings'.ai.flat /\ vault'.root = settings'.root
    BY <1>10 DEF AssignServices, AssignStack, AssignVault
  <2>2. /\ work'[w].pc = "assigned"
        /\ \A v \in Workers \ {w} : work'[v] = work[v] /\ work[v].pc \notin Mid
    BY <1>4, <2>1, StepIs DEF Swapping
  <2>3. file.settings = settings' /\ file.revision = revision + 1 /\ Serves(settings)
    BY <2>1 DEF LiveInv
  <2>4. Serves(settings)'
    BY <2>1, <2>3, UpdatedIs DEF Serves, Swapping
  <2> QED
    BY <2>1, <2>2, <2>3, <2>4 DEF LiveInv
<1>11. ASSUME NEW w \in Workers, Publish(w)
       PROVE  LiveInv'
  <2>1. /\ UNCHANGED <<file, settings, agent, vault>> /\ work[w].pc = "assigned" /\ Step(w, "leaving")
        /\ revision' = revision + 1
    BY <1>11 DEF Publish
  <2>2. /\ work'[w].pc = "leaving"
        /\ \A v \in Workers \ {w} : work'[v] = work[v] /\ work[v].pc \notin Mid
    BY <1>4, <2>1, StepIs DEF Swapping
  <2>3. file.settings = settings /\ file.revision = revision + 1 /\ Serves(settings)
    BY <2>1 DEF LiveInv
  <2> QED
    BY <2>1, <2>2, <2>3 DEF LiveInv, Serves, Loaded
<1>12. ASSUME NEW w \in Workers, Exit(w)
       PROVE  LiveInv'
  <2>1. /\ UNCHANGED <<file, revision, agent, vault>> /\ work[w].pc = "leaving" /\ work' = [work EXCEPT ![w] = Idle]
        /\ settings' = [settings EXCEPT !.ai = Project(settings.ai)]
    BY <1>1, <1>12 DEF Exit, Config
  <2>2. \A v \in Workers : work[v].pc \notin Mid /\ work'[v].pc \notin Mid
    <3>1. \A v \in Workers \ {w} : work'[v] = work[v] /\ work[v].pc \notin Mid
      BY <1>1, <1>4, <2>1 DEF Swapping
    <3>2. work'[w].pc = "idle"
      BY <2>1, EndIs
    <3> QED
      BY <2>1, <3>1, <3>2
  <2>3. settings' = Loaded(settings)
    BY <1>1, <2>1, LoadedIs
  <2>4. Loaded(settings') = Loaded(settings) /\ settings'.root = settings.root
    BY <1>1, <2>3, LoadedIs
  <2>5. settings'.ai.active = settings.ai.active /\ settings'.ai.profiles = settings.ai.profiles
    <3>1. settings'.ai = Project(settings.ai) /\ settings.ai \in AI
      BY <1>1, <2>3, LoadedIs DEF Config
    <3> QED
      BY <1>1, <3>1, ProjectIs
  <2>6. Serves(settings)' /\ file'.revision = revision'
    BY <2>1, <2>2, <2>4, <2>5 DEF Serves, LiveInv
  <2>7. Loaded(file.settings)' = Loaded(settings)'
    BY <2>1, <2>2, <2>4 DEF LiveInv, Loaded
  <2> QED
    BY <2>2, <2>6, <2>7 DEF LiveInv
<1>13. CASE Restart
  <2>1. /\ settings' = Load(file) /\ revision' = file.revision /\ file' = file
        /\ vault' = [root |-> file.settings.root, rag |-> file.settings.rag]
        /\ agent' = settings'.ai.flat /\ work' = [w \in Workers |-> Idle]
    BY <1>13 DEF Restart
  <2>2. settings' = Loaded(file.settings) /\ file.settings \in Config
    BY <1>1, <2>1, LoadFile
  <2>3. Loaded(settings') = Loaded(file.settings) /\ settings'.root = file.settings.root
    BY <1>1, <2>2, LoadedIs
  <2>4. \A v \in Workers : work'[v].pc \notin Mid
    BY <1>2, <2>1
  <2>5. Serves(settings)'
    BY <2>1, <2>3 DEF Serves
  <2>6. Loaded(file.settings)' = Loaded(settings)'
    BY <2>1, <2>3 DEF Loaded
  <2> QED
    BY <2>1, <2>4, <2>5, <2>6 DEF LiveInv
<1> QED
  BY <1>5, <1>6, <1>7, <1>8, <1>9, <1>10, <1>11, <1>12, <1>13 DEF Next

\* A draft stays what its edit makes of the settings when a transition ends.
LEMMA FreshKept ==
  ASSUME NEW c, c.op \in Operation, NEW s \in Config, Known(s.ai), Fresh(c, s)
  PROVE  Fresh(c, Loaded(s))
<1> DEFINE u == Loaded(s)
           op == c.op
<1>1. /\ u \in Config /\ Known(u.ai) /\ u.ai = Project(s.ai) /\ u.rag = s.rag /\ s.ai \in AI
  BY LoadedIs DEF Config
<1> HIDE DEF u, op
<1>2. op \in Operation /\ ~Refused(op, s.ai)
  BY DEF Fresh, op
<1>3. ~Refused(op, u.ai)
  BY <1>1, <1>2, EditIgnoresFlat
<1>4. op.kind \notin {"rag", "switch"} => Project(Applied(op, u).ai) = Project(Applied(op, s).ai)
  <2>1. /\ op.kind = "flat" => Applied(op, u).ai = WithFlatOverrides(u.ai, op.route)
        /\ op.kind = "upsert" => Applied(op, u).ai = WithProfile(u.ai, op.id, op.route, op.activate)
        /\ op.kind = "activate" => Applied(op, u).ai = WithProfile(u.ai, op.id, Synthesized(u.ai)[op.id], TRUE)
        /\ op.kind = "delete" => Applied(op, u).ai = WithoutProfile(u.ai, op.id)
    BY <1>1, <1>2, <1>3, AppliedIs
  <2>2. /\ op.kind = "flat" => Applied(op, s).ai = WithFlatOverrides(s.ai, op.route)
        /\ op.kind = "upsert" => Applied(op, s).ai = WithProfile(s.ai, op.id, op.route, op.activate)
        /\ op.kind = "activate" => Applied(op, s).ai = WithProfile(s.ai, op.id, Synthesized(s.ai)[op.id], TRUE)
        /\ op.kind = "delete" => Applied(op, s).ai = WithoutProfile(s.ai, op.id)
    BY <1>2, AppliedIs
  <2> DEFINE a == s.ai
             b == u.ai
             x == Applied(op, s).ai
             y == Applied(op, u).ai
  <2>3. a \in AI /\ Known(a) /\ ~Refused(op, a) /\ b = Project(a)
    BY <1>1, <1>2
  <2> HIDE DEF a, b, x, y
  <2>4. CASE op.kind = "flat"
    <3>1. y = WithFlatOverrides(Project(a), op.route) /\ x = WithFlatOverrides(a, op.route)
      BY <2>1, <2>2, <2>3, <2>4 DEF a, b, x, y
    <3> QED
      BY <1>2, <2>3, <2>4, <3>1, EditIgnoresFlat DEF x, y
  <2>5. CASE op.kind = "upsert"
    <3>1. /\ y = WithProfile(Project(a), op.id, op.route, op.activate)
          /\ x = WithProfile(a, op.id, op.route, op.activate)
      BY <2>1, <2>2, <2>3, <2>5 DEF a, b, x, y
    <3> QED
      BY <1>2, <2>3, <2>5, <3>1, EditIgnoresFlat DEF x, y
  <2>6. CASE op.kind = "activate"
    <3>1. /\ y = WithProfile(Project(a), op.id, Synthesized(Project(a))[op.id], TRUE)
          /\ x = WithProfile(a, op.id, Synthesized(a)[op.id], TRUE)
      BY <2>1, <2>2, <2>3, <2>6 DEF a, b, x, y
    <3> QED
      BY <1>2, <2>3, <2>6, <3>1, EditIgnoresFlat DEF x, y
  <2>7. CASE op.kind = "delete"
    <3>1. y = WithoutProfile(Project(a), op.id) /\ x = WithoutProfile(a, op.id)
      BY <2>1, <2>2, <2>3, <2>7 DEF a, b, x, y
    <3> QED
      BY <1>2, <2>3, <2>7, <3>1, EditIgnoresFlat DEF x, y
  <2> QED
    BY <1>2, <2>4, <2>5, <2>6, <2>7, OperationIs DEF x, y
<1> QED
  BY <1>1, <1>3, <1>4 DEF Fresh, op, u

\* A draft that may still be committed is fresh: whoever changed the settings since
\* has raised the revision, or is about to and holds the door.
LEMMA FreshStep ==
  ASSUME TypeInv, LockInv, FreshInv, Next
  PROVE  FreshInv'
<1> DEFINE Ready == {"drafted", "entered", "built", "saved"}
           Inside == {"entered", "built", "saved"}
<1>1. /\ work \in [Workers -> {Idle} \cup Sent \cup Work] /\ settings \in Config /\ Known(settings.ai)
      /\ revision \in Nat
  BY DEF TypeInv
<1>2. Idle.pc = "idle"
  BY DEF Idle
<1>3. ASSUME UNCHANGED <<settings, revision>>, NEW w \in Workers, work[w].pc # "assigned",
             \A v \in Workers \ {w} : work'[v] = work[v],
             work'[w].pc # "idle" => work'[w].rev <= revision,
             work'[w].pc \in Inside => work'[w].rev = revision,
             work'[w].pc \in Ready /\ work'[w].rev = revision /\ (\A v \in Workers : work[v].pc # "assigned") =>
               Fresh(work'[w], settings)
      PROVE  FreshInv'
  <2>1. ASSUME NEW x \in Workers, work'[x].pc \in Ready, work'[x].rev = revision', \A v \in Workers : work'[v].pc # "assigned"
        PROVE  Fresh(work'[x], settings')
    <3>1. \A v \in Workers : work[v].pc # "assigned"
      BY <1>3, <2>1
    <3>2. CASE x = w
      BY <1>3, <2>1, <3>1, <3>2
    <3>3. CASE x # w
      BY <1>3, <2>1, <3>1, <3>3 DEF FreshInv
    <3> QED
      BY <3>2, <3>3
  <2>2. \A x \in Workers : work'[x].pc # "idle" => work'[x].rev <= revision
    BY <1>3 DEF FreshInv
  <2>3. \A x \in Workers : work'[x].pc \in Inside => work'[x].rev = revision
    BY <1>3 DEF FreshInv
  <2> QED
    BY <1>3, <2>1, <2>2, <2>3 DEF FreshInv, Fresh
<1>4. ASSUME NEW w \in Workers, work[w].pc \in Swapping
      PROVE  \A v \in Workers \ {w} : work[v].pc \notin Swapping
  BY <1>4 DEF LockInv
<1>5. CASE FinishIndex \/ StartTask \/ (\E q \in Requests : EnterRequest(q)) \/ (\E q \in DOMAIN inflight : Leave(q))
  <2>1. UNCHANGED <<settings, revision, work>>
    BY <1>5 DEF FinishIndex, StartTask, EnterRequest, Leave
  <2> QED
    BY <2>1 DEF FreshInv, Fresh
<1>6. ASSUME NEW w \in Workers, Submit(w)
      PROVE  FreshInv'
  <2>1. UNCHANGED <<settings, revision>> /\ work[w].pc = "idle"
    BY <1>6 DEF Submit
  <2>2. PICK op \in Ops(edits'), rev \in 1 .. revision, ses \in 1 .. session :
          work' = [work EXCEPT ![w] = [pc |-> "sent", op |-> op, rev |-> rev, ses |-> ses]]
    BY <1>6 DEF Submit
  <2>3. work'[w].pc = "sent" /\ work'[w].rev <= revision /\ \A v \in Workers \ {w} : work'[v] = work[v]
    BY <1>1, <2>2
  <2> QED
    BY <1>3, <2>1, <2>3
<1>7. ASSUME NEW w \in Workers, work' = [work EXCEPT ![w] = Idle], UNCHANGED <<settings, revision>>, work[w].pc # "assigned"
      PROVE  FreshInv'
  BY <1>3, <1>7, EndIs
<1>8. ASSUME NEW w \in Workers, Draft(w)
      PROVE  FreshInv'
  <2>1. UNCHANGED <<settings, revision>> /\ work[w].pc = "sent"
    BY <1>8 DEF Draft
  <2>2. CASE Refused(work[w].op, settings.ai)
    BY <1>7, <1>8, <2>1, <2>2 DEF Draft
  <2>3. CASE ~Refused(work[w].op, settings.ai)
    <3> DEFINE d == Applied(work[w].op, settings)
               n == NoOp(work[w].op, settings.ai)
               c == [pc |-> "drafted", op |-> work[w].op, rev |-> work[w].rev, ses |-> work[w].ses, draft |-> d, noop |-> n]
    <3>1. work' = [work EXCEPT ![w] = c]
      BY <1>1, <1>8, <2>3 DEF Draft
    <3>2. work[w].op \in Operation
      BY <2>1, WorkIs DEF Sent
    <3>3. work[w].op.kind = "rag" => d.rag = WithRag(settings.rag, work[w].op.field, work[w].op.route)
      BY <1>1, <2>3, <3>2, AppliedIs
    <3>4. c.pc = "drafted" /\ c.op = work[w].op /\ c.rev = work[w].rev /\ c.draft = d
      OBVIOUS
    <3> HIDE DEF c
    <3>5. Fresh(c, settings)
      BY <2>3, <3>3, <3>4 DEF Fresh
    <3>6. work[w].rev <= revision
      BY <2>1 DEF FreshInv
    <3>7. work'[w] = c /\ \A v \in Workers \ {w} : work'[v] = work[v]
      BY <1>1, <3>1
    <3> QED
      BY <1>3, <2>1, <3>4, <3>5, <3>6, <3>7
  <2> QED
    BY <2>2, <2>3
<1>9. ASSUME NEW w \in Workers, NEW pc \in Swapping, Step(w, pc), UNCHANGED <<settings, revision>>,
             work[w].pc \in Ready, work[w].rev = revision \/ pc = "leaving", pc # "assigned"
      PROVE  FreshInv'
  <2>1. /\ work'[w].pc = pc /\ work'[w].op = work[w].op /\ work'[w].rev = work[w].rev
        /\ work'[w].draft = work[w].draft
        /\ \A v \in Workers \ {w} : work'[v] = work[v]
    BY <1>9, StepIs DEF Swapping
  <2>2. work[w].rev <= revision
    BY <1>9 DEF FreshInv
  <2>3. work[w].rev = revision /\ (\A v \in Workers : work[v].pc # "assigned") => Fresh(work'[w], settings)
    BY <1>9, <2>1 DEF FreshInv, Fresh
  <2> QED
    BY <1>3, <1>9, <2>1, <2>2, <2>3
<1>10. ASSUME NEW w \in Workers, Enter(w)
       PROVE  FreshInv'
  <2>1. UNCHANGED <<settings, revision>> /\ work[w].pc = "drafted"
    BY <1>10 DEF Enter
  <2>2. CASE MayEnter(w)
    <3>1. work[w].rev = revision /\ \E pc \in {"leaving", "entered"} : Step(w, pc)
      BY <1>10, <2>2 DEF Enter, MayEnter
    <3> QED
      BY <1>9, <2>1, <3>1 DEF Swapping
  <2>3. CASE ~MayEnter(w)
    BY <1>7, <1>10, <2>1, <2>3 DEF Enter
  <2> QED
    BY <2>2, <2>3
<1>11. ASSUME NEW w \in Workers, SwitchStays(w) \/ BuildServices(w) \/ SwapStack(w) \/ PrepareVault(w) \/ Save(w)
                                  \/ FailServices(w) \/ FailSwap(w) \/ FailVault(w)
       PROVE  FreshInv'
  <2>1. /\ UNCHANGED <<settings, revision>> /\ work[w].pc \in Inside
        /\ \E pc \in {"built", "saved", "leaving"} : Step(w, pc)
    BY <1>11 DEF SwitchStays, BuildServices, SwapStack, PrepareVault, Save, FailServices, FailSwap, FailVault
  <2>2. work[w].rev = revision
    BY <2>1 DEF FreshInv
  <2> QED
    BY <1>9, <2>1, <2>2 DEF Swapping
<1>12. ASSUME NEW w \in Workers, AssignServices(w) \/ AssignStack(w) \/ AssignVault(w)
       PROVE  FreshInv'
  <2>1. revision' = revision /\ work[w].pc = "saved" /\ Step(w, "assigned")
    BY <1>12 DEF AssignServices, AssignStack, AssignVault
  <2>2. /\ work'[w].pc = "assigned" /\ work'[w].rev = work[w].rev
        /\ \A v \in Workers \ {w} : work'[v] = work[v]
    BY <2>1, StepIs DEF Swapping
  <2> QED
    BY <2>1, <2>2 DEF FreshInv
<1>13. ASSUME NEW w \in Workers, Publish(w)
       PROVE  FreshInv'
  <2>1. revision' = revision + 1 /\ work[w].pc = "assigned" /\ Step(w, "leaving")
    BY <1>13 DEF Publish
  <2>2. /\ work'[w].pc = "leaving" /\ work'[w].rev = work[w].rev
        /\ \A v \in Workers \ {w} : work'[v] = work[v] /\ work[v].pc \notin Swapping
    BY <1>4, <2>1, StepIs DEF Swapping
  <2>3. \A v \in Workers : work'[v].pc # "idle" => work[v].rev \in Nat /\ work'[v].rev = work[v].rev /\ work[v].rev <= revision
    <3>1. \A v \in Workers : work[v].pc # "idle" => work[v].rev \in Nat
      BY WorkIs DEF Sent, Work
    <3> QED
      BY <2>1, <2>2, <3>1 DEF FreshInv
  <2>4. \A v \in Workers : work'[v].pc \notin Inside
    BY <2>2 DEF Swapping
  <2> QED
    BY <1>1, <2>1, <2>3, <2>4 DEF FreshInv
<1>14. ASSUME NEW w \in Workers, Exit(w)
       PROVE  FreshInv'
  <2>1. /\ revision' = revision /\ work[w].pc = "leaving" /\ work' = [work EXCEPT ![w] = Idle]
        /\ settings' = [settings EXCEPT !.ai = Project(settings.ai)]
    BY <1>1, <1>14 DEF Exit, Config
  <2>2. settings' = Loaded(settings)
    BY <1>1, <2>1, LoadedIs
  <2>3. work'[w].pc = "idle" /\ \A v \in Workers \ {w} : work'[v] = work[v]
    BY <2>1, EndIs
  <2>4. ASSUME NEW x \in Workers, work'[x].pc \in Ready, work'[x].rev = revision', \A v \in Workers : work'[v].pc # "assigned"
        PROVE  Fresh(work'[x], settings')
    <3>1. x # w /\ work'[x] = work[x] /\ \A v \in Workers : work[v].pc # "assigned"
      BY <2>1, <2>3, <2>4
    <3>2. Fresh(work[x], settings)
      BY <2>1, <2>4, <3>1 DEF FreshInv
    <3>3. work[x].op \in Operation
      BY <2>4, <3>1, WorkIs DEF Work, Swapping
    <3> QED
      BY <1>1, <2>2, <3>1, <3>2, <3>3, FreshKept
  <2>5. \A x \in Workers : work'[x].pc # "idle" => work'[x].rev <= revision
    BY <2>3 DEF FreshInv
  <2>6. \A x \in Workers : work'[x].pc \in Inside => work'[x].rev = revision
    BY <2>3 DEF FreshInv
  <2> QED
    BY <2>1, <2>4, <2>5, <2>6 DEF FreshInv, Fresh
<1>15. CASE Restart
  <2>1. \A v \in Workers : work'[v].pc = "idle"
    BY <1>2, <1>15 DEF Restart
  <2> QED
    BY <2>1 DEF FreshInv
<1> QED
  BY <1>5, <1>6, <1>8, <1>10, <1>11, <1>12, <1>13, <1>14, <1>15 DEF Next

\* When the flat fields are those of the entry in use.
LEMMA ProjectedIs ==
  ASSUME NEW ai \in AI, Known(ai)
  PROVE  /\ Projected(ai) <=> (DOMAIN ai.profiles # {} => ai.flat = ai.profiles[ai.active])
         /\ Projected(ai) => Synthesized(ai)[ai.active] = ai.flat
<1> DEFINE p == Project(ai)
<1>1. /\ p \in AI /\ p.profiles = ai.profiles /\ p.active = ai.active
      /\ p.flat = IF DOMAIN ai.profiles = {} THEN ai.flat ELSE ai.profiles[ai.active]
  BY ProjectIs
<1>2. p = ai <=> p.flat = ai.flat
  BY <1>1, SameAI
<1>3. Projected(ai) <=> (DOMAIN ai.profiles # {} => ai.flat = ai.profiles[ai.active])
  BY <1>1, <1>2 DEF Projected
<1>4. ASSUME Projected(ai)
      PROVE  Synthesized(ai)[ai.active] = ai.flat
  <2>1. CASE DOMAIN ai.profiles = {}
    <3>1. Synthesized(ai) = [i \in {Default} |-> ai.flat] /\ ai.active = Default
      BY <2>1, SynthesizedIs DEF Synthesized, Known
    <3> QED
      BY <3>1
  <2>2. CASE DOMAIN ai.profiles # {}
    BY <1>3, <1>4, <2>2, SynthesizedIs
  <2> QED
    BY <2>1, <2>2
<1> QED
  BY <1>3, <1>4

\* An edit of settings that are projected leaves them projected, but an edit of
\* the entry in use that does not activate it.
LEMMA EditsProject ==
  ASSUME NEW op \in Operation, NEW s \in Config, Known(s.ai), ~Refused(op, s.ai), Projected(s.ai),
         op.kind \notin {"rag", "switch"}, ~EditsInUse(op, s.ai)
  PROVE  Projected(Applied(op, s).ai)
<1> DEFINE a == s.ai
           n == Applied(op, s).ai
<1>1. a \in AI /\ Known(a) /\ Synthesized(a)[a.active] = a.flat /\ Synthesized(a) \in Library
  BY ProjectedIs, SynthesizedIs DEF Config
<1>2. n \in AI /\ Known(n)
  BY AppliedIs DEF Config
<1>3. a.active \in DOMAIN Synthesized(a) /\ a.active \in Ids
  BY <1>1 DEF Known, AI
<1>4. /\ op.kind = "flat" => n = WithFlatOverrides(a, op.route)
      /\ op.kind = "upsert" => n = WithProfile(a, op.id, op.route, op.activate)
      /\ op.kind = "activate" => n = WithProfile(a, op.id, Synthesized(a)[op.id], TRUE)
      /\ op.kind = "delete" => n = WithoutProfile(a, op.id)
  BY AppliedIs
<1>5. ~Refused(op, a) /\ Projected(a) /\ ~EditsInUse(op, a)
  OBVIOUS
<1> HIDE DEF a, n
<1>6. ASSUME NEW id \in Ids, NEW route \in Nat, NEW activate \in BOOLEAN, activate \/ id # a.active,
             n = WithProfile(a, id, route, activate)
      PROVE  Projected(n)
  <2>1. /\ n.profiles = Stored(Synthesized(a), id, route)
        /\ n.active = IF activate THEN id ELSE a.active
        /\ n.flat = IF activate THEN route ELSE a.flat
    BY <1>1, <1>6, WithProfileIs
  <2>2. Stored(Synthesized(a), id, route)[n.active] = n.flat
    BY <1>1, <1>3, <1>6, <2>1 DEF Stored
  <2> QED
    BY <1>2, <2>1, <2>2, ProjectedIs
<1>7. CASE op.kind = "flat"
  <2>1. op.route \in Nat
    BY <1>7, OperationIs
  <2>2. CASE DOMAIN a.profiles = {}
    <3> DEFINE r == op.route
    <3>1. n = [a EXCEPT !.flat = r]
      BY <1>4, <1>7, <2>2 DEF WithFlatOverrides
    <3> HIDE DEF r
    <3>2. n.profiles = a.profiles
      BY <1>1, <3>1 DEF AI
    <3> QED
      BY <1>2, <2>2, <3>2, ProjectedIs DEF n
  <2>3. CASE DOMAIN a.profiles # {}
    <3>1. n = WithProfile(a, a.active, op.route, TRUE)
      BY <1>4, <1>5, <1>7, <2>3 DEF WithFlatOverrides, Projected
    <3> QED
      BY <1>3, <1>6, <2>1, <3>1 DEF n
  <2> QED
    BY <2>2, <2>3
<1>8. CASE op.kind = "upsert"
  <2>1. op.id \in Ids /\ op.route \in Nat /\ op.activate \in BOOLEAN /\ (op.activate \/ op.id # a.active)
    BY <1>5, <1>8, OperationIs DEF EditsInUse
  <2> QED
    BY <1>4, <1>6, <1>8, <2>1 DEF n
<1>9. CASE op.kind = "activate"
  <2>1. op.id \in Ids /\ Synthesized(a)[op.id] \in Nat
    BY <1>1, <1>5, <1>9, OperationIs, EditedAI
  <2> QED
    BY <1>4, <1>6, <1>9, <2>1 DEF n
<1>10. CASE op.kind = "delete"
  <2> DEFINE S == DOMAIN Synthesized(a) \ {op.id}
             base == EnsureActive(a)
  <2>1. op.id \in Ids /\ op.id # a.active
    BY <1>1, <1>5, <1>10, OperationIs, EditedAI
  <2>2. n.profiles = Restrict(Synthesized(a), S) /\ n.active = a.active
    BY <1>1, <1>4, <1>10, <2>1, WithoutProfileIs
  <2>3. n.flat = a.flat
    <3>1. base \in AI /\ base.flat = a.flat
      BY <1>1, EnsureActiveIs
    <3>2. n = [base EXCEPT !.profiles = Restrict(@, DOMAIN @ \ {op.id})]
      BY <1>4, <1>10 DEF WithoutProfile
    <3> HIDE DEF base
    <3> QED
      BY <3>1, <3>2 DEF AI
  <2>4. Restrict(Synthesized(a), S)[a.active] = a.flat
    BY <1>1, <1>3, <2>1 DEF Restrict
  <2> QED
    BY <1>2, <2>2, <2>3, <2>4, ProjectedIs DEF n
<1> QED
  BY <1>7, <1>8, <1>9, <1>10, OperationIs DEF n

\* The agent keeps the route in use.
LEMMA AgentStep ==
  ASSUME TypeInv, LockInv, FreshInv, AgentInv, Next
  PROVE  AgentInv'
<1> DEFINE Phases == {"sent", "drafted", "entered", "built", "saved"}
           AgentOK == "agent" \notin apart => agent = Project(settings.ai).flat
           Draw(c) == c.pc # "sent" /\ c.op.kind \notin {"rag", "switch"} =>
                        EditsInUse(c.op, settings.ai) \/ Projected(c.draft.ai)
<1>1. /\ work \in [Workers -> {Idle} \cup Sent \cup Work] /\ settings \in Config /\ Known(settings.ai)
      /\ revision \in Nat /\ settings.ai \in AI
  BY DEF TypeInv, Config
<1>2. Idle.pc = "idle"
  BY DEF Idle
<1>3. ASSUME UNCHANGED <<settings, revision, agent>>, ("agent" \in apart') <=> ("agent" \in apart),
             NEW w \in Workers, work[w].pc \notin {"assigned", "leaving"}, work'[w].pc # "assigned",
             \A v \in Workers \ {w} : work'[v] = work[v],
             work'[w].pc \in Phases /\ work'[w].rev = revision /\ (\A v \in Workers : work[v].pc # "assigned") =>
               Projected(settings.ai) /\ Draw(work'[w])
      PROVE  AgentInv'
  <2>1. (\A v \in Workers : work'[v].pc \notin {"assigned", "leaving"}) => Projected(settings'.ai)
    BY <1>3 DEF AgentInv
  <2>2. AgentOK'
    BY <1>3 DEF AgentInv
  <2>3. ASSUME NEW x \in Workers, Current(x)'
        PROVE  Projected(settings'.ai) /\ Draw(work[x])'
    <3>1. /\ work'[x].pc \in Phases /\ work'[x].rev = revision
          /\ \A v \in Workers : work[v].pc # "assigned"
      BY <1>3, <2>3 DEF Current
    <3>2. CASE x = w
      BY <1>3, <3>1, <3>2
    <3>3. CASE x # w
      <4>1. work'[x] = work[x] /\ Current(x)
        BY <1>3, <3>1, <3>3 DEF Current
      <4> QED
        BY <1>3, <4>1 DEF AgentInv
    <3> QED
      BY <3>2, <3>3
  <2> QED
    BY <2>1, <2>2, <2>3 DEF AgentInv
<1>4. ASSUME NEW w \in Workers, work[w].pc \in Swapping
      PROVE  \A v \in Workers \ {w} : work[v].pc \notin Swapping
  BY <1>4 DEF LockInv
<1>5. CASE FinishIndex \/ StartTask \/ (\E q \in Requests : EnterRequest(q)) \/ (\E q \in DOMAIN inflight : Leave(q))
  <2>1. UNCHANGED <<settings, revision, work, agent, apart>>
    BY <1>5 DEF FinishIndex, StartTask, EnterRequest, Leave
  <2> QED
    BY <2>1 DEF AgentInv, Current
<1>6. ASSUME NEW w \in Workers, Submit(w)
      PROVE  AgentInv'
  <2>1. UNCHANGED <<settings, revision, agent, apart>> /\ work[w].pc = "idle"
    BY <1>6 DEF Submit
  <2>2. PICK op \in Ops(edits'), rev \in 1 .. revision, ses \in 1 .. session :
          /\ rev = revision => Projected(settings.ai)
          /\ work' = [work EXCEPT ![w] = [pc |-> "sent", op |-> op, rev |-> rev, ses |-> ses]]
    BY <1>6 DEF Submit
  <2>3. work'[w].pc = "sent" /\ work'[w].rev = rev /\ \A v \in Workers \ {w} : work'[v] = work[v]
    BY <1>1, <2>2
  <2> QED
    BY <1>3, <2>1, <2>2, <2>3
<1>7. ASSUME NEW w \in Workers, work' = [work EXCEPT ![w] = Idle], UNCHANGED <<settings, revision, agent, apart>>,
             work[w].pc \notin {"assigned", "leaving"}
      PROVE  AgentInv'
  BY <1>3, <1>7, EndIs
<1>8. ASSUME NEW w \in Workers, Draft(w)
      PROVE  AgentInv'
  <2>1. UNCHANGED <<settings, revision, agent, apart>> /\ work[w].pc = "sent"
    BY <1>8 DEF Draft
  <2>2. CASE Refused(work[w].op, settings.ai)
    BY <1>7, <1>8, <2>1, <2>2 DEF Draft
  <2>3. CASE ~Refused(work[w].op, settings.ai)
    <3> DEFINE d == Applied(work[w].op, settings)
               n == NoOp(work[w].op, settings.ai)
               c == [pc |-> "drafted", op |-> work[w].op, rev |-> work[w].rev, ses |-> work[w].ses, draft |-> d, noop |-> n]
    <3>1. work' = [work EXCEPT ![w] = c]
      BY <1>1, <1>8, <2>3 DEF Draft
    <3>2. work[w].op \in Operation
      BY <2>1, WorkIs DEF Sent
    <3>3. c.pc = "drafted" /\ c.op = work[w].op /\ c.rev = work[w].rev /\ c.draft = d
      OBVIOUS
    <3>4. Projected(settings.ai) => (work[w].op.kind \notin {"rag", "switch"} =>
                                       EditsInUse(work[w].op, settings.ai) \/ Projected(d.ai))
      BY <1>1, <2>3, <3>2, EditsProject
    <3> HIDE DEF c, d
    <3>5. work'[w] = c /\ \A v \in Workers \ {w} : work'[v] = work[v]
      BY <1>1, <3>1
    <3>6. work[w].rev = revision /\ (\A v \in Workers : work[v].pc # "assigned") => Projected(settings.ai)
      BY <2>1 DEF AgentInv, Current
    <3> QED
      BY <1>3, <2>1, <3>3, <3>4, <3>5, <3>6
  <2> QED
    BY <2>2, <2>3
<1>9. ASSUME NEW w \in Workers, NEW pc \in Swapping, Step(w, pc), UNCHANGED <<settings, revision, agent>>,
             ("agent" \in apart') <=> ("agent" \in apart),
             work[w].pc \in Phases \ {"sent"}, pc # "assigned"
      PROVE  AgentInv'
  <2>1. /\ work'[w].pc = pc /\ work'[w].op = work[w].op /\ work'[w].rev = work[w].rev
        /\ work'[w].draft = work[w].draft
        /\ \A v \in Workers \ {w} : work'[v] = work[v]
    BY <1>9, StepIs DEF Swapping
  <2>2. work[w].rev = revision /\ (\A v \in Workers : work[v].pc # "assigned") => Projected(settings.ai) /\ Draw(work[w])
    BY <1>9 DEF AgentInv, Current
  <2>3. Draw(work[w]) => Draw(work'[w])
    BY <1>9, <2>1
  <2> QED
    BY <1>3, <1>9, <2>1, <2>2, <2>3
<1>10. ASSUME NEW w \in Workers, Enter(w)
       PROVE  AgentInv'
  <2>1. UNCHANGED <<settings, revision, agent, apart>> /\ work[w].pc = "drafted"
    BY <1>10 DEF Enter
  <2>2. CASE MayEnter(w)
    <3>1. \E pc \in {"leaving", "entered"} : Step(w, pc)
      BY <1>10, <2>2 DEF Enter
    <3> QED
      BY <1>9, <2>1, <3>1 DEF Swapping
  <2>3. CASE ~MayEnter(w)
    BY <1>7, <1>10, <2>1, <2>3 DEF Enter
  <2> QED
    BY <2>2, <2>3
<1>11. ASSUME NEW w \in Workers, SwitchStays(w) \/ BuildServices(w) \/ SwapStack(w) \/ PrepareVault(w) \/ Save(w)
                                  \/ FailServices(w) \/ FailSwap(w) \/ FailVault(w)
       PROVE  AgentInv'
  <2>1. /\ UNCHANGED <<settings, revision, agent>> /\ work[w].pc \in {"entered", "built"}
        /\ apart' = apart \/ apart' = apart \cup {"stack"}
        /\ \E pc \in {"built", "saved", "leaving"} : Step(w, pc)
    BY <1>11 DEF SwitchStays, BuildServices, SwapStack, PrepareVault, Save, FailServices, FailSwap, FailVault
  <2> QED
    BY <1>9, <2>1 DEF Swapping
<1>12. ASSUME NEW w \in Workers, AssignServices(w) \/ AssignStack(w) \/ AssignVault(w)
       PROVE  AgentInv'
  <2>1. /\ revision' = revision /\ work[w].pc = "saved" /\ Step(w, "assigned") /\ settings' = Updated(w)
    BY <1>12 DEF AssignServices, AssignStack, AssignVault
  <2>2. work'[w].pc = "assigned" /\ \A v \in Workers \ {w} : work[v].pc \notin Swapping
    BY <1>4, <2>1, StepIs DEF Swapping
  <2>3. AgentOK'
    <3>1. Current(w)
      BY <2>1, <2>2 DEF Current, FreshInv, Swapping
    <3>2. Projected(settings.ai) /\ Draw(work[w])
      BY <2>1, <3>1 DEF AgentInv
    <3>3. settings'.ai = IF work[w].op.kind \in {"rag", "switch"} THEN settings.ai ELSE work[w].draft.ai
      BY <2>1, UpdatedIs DEF Swapping
    <3>4. CASE work[w].op.kind = "rag"
      <4>1. agent' = agent /\ apart' = apart \ {"stack"}
        BY <1>12, <3>4 DEF AssignServices, AssignStack, AssignVault
      <4> QED
        BY <3>3, <3>4, <4>1 DEF AgentInv
    <3>5. CASE work[w].op.kind = "switch"
      <4>1. agent' = settings'.ai.flat
        BY <1>12, <3>5 DEF AssignServices, AssignStack, AssignVault
      <4> QED
        BY <3>2, <3>3, <3>5, <4>1 DEF Projected
    <3>6. CASE work[w].op.kind \notin {"rag", "switch"}
      <4>1. /\ agent' = settings'.ai.flat
            /\ EditsInUse(work[w].op, settings.ai) => "agent" \in apart'
        BY <1>12, <3>6 DEF AssignServices, AssignStack, AssignVault
      <4>2. EditsInUse(work[w].op, settings.ai) \/ Projected(settings'.ai)
        BY <2>1, <3>2, <3>3, <3>6
      <4> QED
        BY <4>1, <4>2 DEF Projected
    <3> QED
      BY <3>4, <3>5, <3>6
  <2> QED
    BY <2>2, <2>3 DEF AgentInv, Current
<1>13. ASSUME NEW w \in Workers, Publish(w)
       PROVE  AgentInv'
  <2>1. /\ revision' = revision + 1 /\ work[w].pc = "assigned" /\ Step(w, "leaving")
        /\ UNCHANGED <<settings, agent, apart>>
    BY <1>13 DEF Publish
  <2>2. work'[w].pc = "leaving" /\ \A v \in Workers \ {w} : work'[v] = work[v]
    BY <2>1, StepIs DEF Swapping
  <2>3. \A x \in Workers : ~Current(x)'
    <3>1. \A x \in Workers : work[x].pc # "idle" => work[x].rev \in Nat /\ work[x].rev <= revision
      BY WorkIs DEF Sent, Work, FreshInv
    <3>2. \A x \in Workers \ {w} : work[x].pc # "idle" => work[x].rev # revision + 1
      BY <1>1, <3>1
    <3> QED
      BY <2>1, <2>2, <3>2 DEF Current
  <2> QED
    BY <2>1, <2>2, <2>3 DEF AgentInv
<1>14. ASSUME NEW w \in Workers, Exit(w)
       PROVE  AgentInv'
  <2>1. /\ UNCHANGED <<revision, agent, apart>> /\ work[w].pc = "leaving" /\ work' = [work EXCEPT ![w] = Idle]
        /\ settings' = [settings EXCEPT !.ai = Project(settings.ai)]
    BY <1>1, <1>14 DEF Exit, Config
  <2>2. settings'.ai = Project(settings.ai)
    BY <1>1, <2>1 DEF Config
  <2>3. /\ Projected(settings'.ai) /\ Project(settings'.ai) = Project(settings.ai)
        /\ settings'.ai.active = settings.ai.active
    BY <1>1, <2>2, ProjectIs DEF Projected
  <2>4. work'[w].pc = "idle" /\ \A v \in Workers \ {w} : work'[v] = work[v]
    BY <2>1, EndIs
  <2>5. ASSUME NEW x \in Workers, Current(x)'
        PROVE  Projected(settings'.ai) /\ Draw(work[x])'
    <3>1. work'[x] = work[x] /\ Current(x)
      BY <2>1, <2>4, <2>5 DEF Current
    <3> QED
      BY <2>3, <3>1 DEF AgentInv, EditsInUse
  <2> QED
    BY <2>1, <2>3, <2>5 DEF AgentInv
<1>15. CASE Restart
  <2>1. /\ settings' = Load(file) /\ agent' = settings'.ai.flat /\ work' = [w \in Workers |-> Idle]
    BY <1>15 DEF Restart
  <2>2. file.settings \in Config /\ Known(file.settings.ai) /\ file.settings.ai \in AI
    BY DEF TypeInv, Config
  <2>3. settings'.ai = Project(file.settings.ai)
    BY <2>1, <2>2, LoadFile, LoadedIs
  <2>4. Projected(settings'.ai)
    BY <2>2, <2>3, ProjectIs DEF Projected
  <2>5. \A v \in Workers : work'[v].pc = "idle"
    BY <1>2, <2>1
  <2> QED
    BY <2>1, <2>4, <2>5 DEF AgentInv, Current, Projected
<1> QED
  BY <1>5, <1>6, <1>8, <1>10, <1>11, <1>12, <1>13, <1>14, <1>15 DEF Next

\* The retrieval stack keeps step with the search settings.
LEMMA StackStep ==
  ASSUME TypeInv, LockInv, StackInv, Next
  PROVE  StackInv'
<1>1. /\ work \in [Workers -> {Idle} \cup Sent \cup Work] /\ settings \in Config
      /\ vault \in [root : Roots, rag : Rag]
  BY DEF TypeInv
<1>2. Idle.pc = "idle"
  BY DEF Idle
<1>3. ASSUME UNCHANGED vault, settings'.rag = settings.rag, ("stack" \in apart') <=> ("stack" \in apart),
             NEW w \in Workers, \A v \in Workers \ {w} : work'[v] = work[v],
             Retuning(w)' <=> Retuning(w), Retuning(w) => work'[w].draft = work[w].draft
      PROVE  StackInv'
  BY <1>3 DEF StackInv, Retuning
<1>4. ASSUME NEW w \in Workers, work[w].pc \in Swapping
      PROVE  \A v \in Workers \ {w} : ~Retuning(v)
  BY <1>4 DEF LockInv, Swapping, Retuning
<1>5. CASE FinishIndex \/ StartTask \/ (\E q \in Requests : EnterRequest(q)) \/ (\E q \in DOMAIN inflight : Leave(q))
  <2>1. UNCHANGED <<settings, work, vault, apart>>
    BY <1>5 DEF FinishIndex, StartTask, EnterRequest, Leave
  <2> QED
    BY <2>1 DEF StackInv, Retuning
<1>6. ASSUME NEW w \in Workers, Submit(w) \/ Draft(w) \/ Enter(w)
      PROVE  StackInv'
  <2>1. UNCHANGED <<settings, vault, apart>> /\ work[w].pc \in {"idle", "sent", "drafted"}
    BY <1>6 DEF Submit, Draft, Enter
  <2>2. /\ work'[w].pc \in {"idle", "sent", "drafted", "entered", "leaving"}
        /\ \A v \in Workers \ {w} : work'[v] = work[v]
    <3>1. CASE Submit(w) \/ Draft(w)
      BY <1>1, <1>2, <3>1 DEF Submit, Draft
    <3>2. CASE Enter(w)
      <4>1. work[w].pc = "drafted" /\ (work' = [work EXCEPT ![w] = Idle] \/ \E pc \in {"entered", "leaving"} : Step(w, pc))
        BY <3>2 DEF Enter
      <4> QED
        BY <4>1, EndIs, StepIs DEF Swapping
    <3> QED
      BY <1>6, <3>1, <3>2
  <2>3. ~Retuning(w) /\ ~Retuning(w)'
    BY <2>1, <2>2 DEF Retuning
  <2> QED
    BY <1>3, <2>1, <2>2, <2>3
<1>7. ASSUME NEW w \in Workers, SwitchStays(w) \/ BuildServices(w) \/ PrepareVault(w) \/ Save(w)
                                 \/ FailServices(w) \/ FailVault(w) \/ AssignServices(w) \/ Publish(w)
      PROVE  StackInv'
  <2>1. /\ UNCHANGED vault /\ work[w].pc \in Swapping /\ \E pc \in Swapping : Step(w, pc)
        /\ ("stack" \in apart') <=> ("stack" \in apart)
    BY <1>7 DEF SwitchStays, BuildServices, PrepareVault, Save, FailServices, FailVault, AssignServices, Publish, Swapping
  <2>2. settings'.rag = settings.rag
    BY <1>7, <2>1, UpdatedIs DEF SwitchStays, BuildServices, PrepareVault, Save, FailServices, FailVault, AssignServices,
                                  Publish
  <2>3. /\ work'[w].op = work[w].op /\ work'[w].draft = work[w].draft
        /\ \A v \in Workers \ {w} : work'[v] = work[v]
    BY <2>1, StepIs
  <2>4. Retuning(w)' <=> Retuning(w)
    <3>1. CASE Save(w)
      <4>1. work[w].pc = "built" /\ Step(w, "saved")
        BY <3>1 DEF Save
      <4>2. work'[w].pc = "saved"
        BY <2>1, <4>1, StepIs DEF Swapping
      <4> QED
        BY <2>3, <4>1, <4>2 DEF Retuning
    <3>2. CASE SwitchStays(w) \/ BuildServices(w) \/ PrepareVault(w) \/ FailServices(w) \/ FailVault(w) \/ AssignServices(w)
      <4>1. work[w].op.kind # "rag"
        BY <3>2 DEF SwitchStays, BuildServices, PrepareVault, FailServices, FailVault, AssignServices
      <4> QED
        BY <2>3, <4>1 DEF Retuning
    <3>3. CASE Publish(w)
      <4>1. work[w].pc = "assigned" /\ Step(w, "leaving")
        BY <3>3 DEF Publish
      <4>2. work'[w].pc = "leaving"
        BY <2>1, <4>1, StepIs DEF Swapping
      <4> QED
        BY <4>1, <4>2 DEF Retuning
    <3> QED
      BY <1>7, <3>1, <3>2, <3>3
  <2> QED
    BY <1>3, <2>1, <2>2, <2>3, <2>4
<1>8. ASSUME NEW w \in Workers, SwapStack(w)
      PROVE  StackInv'
  <2> DEFINE r == work[w].draft.rag
  <2>1. work[w].pc = "entered" /\ Step(w, "built") /\ vault' = [vault EXCEPT !.rag = r] /\ work[w].op.kind = "rag"
    BY <1>8 DEF SwapStack
  <2>2. /\ work'[w].pc = "built" /\ work'[w].op = work[w].op /\ work'[w].draft = work[w].draft
        /\ \A v \in Workers \ {w} : work'[v] = work[v] /\ ~Retuning(v)
    BY <1>4, <2>1, StepIs DEF Swapping
  <2>3. vault'.rag = r
    BY <1>1, <2>1
  <2> QED
    BY <2>1, <2>2, <2>3 DEF StackInv, Retuning
<1>9. ASSUME NEW w \in Workers, FailSwap(w)
      PROVE  StackInv'
  <2>1. work[w].pc \in {"entered", "built"} /\ Step(w, "leaving") /\ "stack" \in apart'
    BY <1>9 DEF FailSwap
  <2>2. work'[w].pc = "leaving" /\ \A v \in Workers \ {w} : work'[v] = work[v] /\ ~Retuning(v)
    BY <1>4, <2>1, StepIs DEF Swapping
  <2> QED
    BY <2>1, <2>2 DEF StackInv, Retuning
<1>10. ASSUME NEW w \in Workers, AssignStack(w) \/ AssignVault(w)
       PROVE  StackInv'
  <2>1. work[w].pc = "saved" /\ Step(w, "assigned") /\ settings' = Updated(w)
    BY <1>10 DEF AssignStack, AssignVault
  <2>2. work'[w].pc = "assigned" /\ \A v \in Workers \ {w} : work'[v] = work[v] /\ ~Retuning(v)
    BY <1>4, <2>1, StepIs DEF Swapping
  <2>3. vault'.rag = settings'.rag
    <3>1. CASE AssignStack(w)
      <4>1. Retuning(w) /\ vault' = vault
        BY <3>1 DEF AssignStack, Retuning
      <4>2. settings'.rag = work[w].draft.rag
        BY <2>1, <4>1, UpdatedIs DEF Retuning, Swapping
      <4> QED
        BY <4>1, <4>2 DEF StackInv
    <3>2. CASE AssignVault(w)
      BY <3>2 DEF AssignVault
    <3> QED
      BY <1>10, <3>1, <3>2
  <2> QED
    BY <2>2, <2>3 DEF StackInv, Retuning
<1>11. ASSUME NEW w \in Workers, Exit(w)
       PROVE  StackInv'
  <2>1. /\ UNCHANGED <<vault, apart>> /\ work[w].pc = "leaving" /\ work' = [work EXCEPT ![w] = Idle]
        /\ settings'.rag = settings.rag
    BY <1>1, <1>11 DEF Exit, Config
  <2>2. work'[w].pc = "idle" /\ \A v \in Workers \ {w} : work'[v] = work[v]
    BY <2>1, EndIs
  <2>3. ~Retuning(w) /\ ~Retuning(w)'
    BY <2>1, <2>2 DEF Retuning
  <2> QED
    BY <1>3, <2>1, <2>2, <2>3
<1>12. CASE Restart
  <2>1. /\ settings' = Load(file) /\ vault' = [root |-> file.settings.root, rag |-> file.settings.rag]
        /\ work' = [w \in Workers |-> Idle]
    BY <1>12 DEF Restart
  <2>2. settings'.rag = file.settings.rag
    BY <2>1, LoadFile, LoadedIs DEF TypeInv
  <2>3. \A v \in Workers : work'[v].pc = "idle"
    BY <1>2, <2>1
  <2> QED
    BY <2>1, <2>2, <2>3 DEF StackInv, Retuning
<1> QED
  BY <1>5, <1>6, <1>7, <1>8, <1>9, <1>10, <1>11, <1>12 DEF Next

\* The first state has it.
LEMMA RuntimeStart ==
  ASSUME RuntimeAssumption, Init
  PROVE  RuntimeInv
<1> DEFINE ai == [profiles |-> <<>>, active |-> Default, flat |-> 0]
           rag == [f \in Fields |-> 0]
<1>1. PICK root \in Roots : settings = [ai |-> ai, rag |-> rag, root |-> root]
  BY DEF Init
<1>2. ai \in AI /\ DOMAIN ai.profiles = {} /\ ai.active = Default /\ rag \in Rag
  <2>1. <<>> \in [{} -> Nat] /\ DOMAIN <<>> = {}
    OBVIOUS
  <2>2. <<>> \in Library
    BY <2>1, LibraryIs
  <2> QED
    BY <2>1, <2>2 DEF AI, Rag, Ids
<1>3. Known(ai)
  BY <1>2, SynthesizedIs DEF Known
<1> HIDE DEF ai, rag
<1>4. settings \in Config /\ settings.ai = ai /\ settings.rag = rag /\ settings.root = root /\ root \in Roots
  BY <1>1, <1>2 DEF Config
<1>5. /\ revision = 1 /\ session = 1 /\ changing = FALSE /\ file = [settings |-> settings, revision |-> 1]
      /\ vault = [root |-> settings.root, rag |-> settings.rag] /\ agent = settings.ai.flat /\ edits = 0
      /\ sched = [cur |-> "running", new |-> "none"]
      /\ inflight = [q \in Requests \cup {Task} |-> 0] /\ work = [w \in Workers |-> Idle]
  BY DEF Init
<1>6. \A w \in Workers : work[w] = Idle /\ work[w].pc = "idle"
  BY <1>5 DEF Idle
<1>7. TypeInv
  <2>1. work \in [Workers -> {Idle} \cup Sent \cup Work] /\ inflight \in [Requests \cup {Task} -> Nat]
    BY <1>5
  <2>2. file \in [settings : Config, revision : Nat] /\ file.settings = settings
    BY <1>4, <1>5
  <2>3. vault \in [root : Roots, rag : Rag] /\ agent \in Nat
    BY <1>2, <1>4, <1>5 DEF AI
  <2>4. sched \in [cur : {"running", "paused"}, new : {"none", "paused"}]
    BY <1>5
  <2>5. \A w \in Workers : work[w].pc \notin Swapping \cup {"drafted"}
    BY <1>6 DEF Swapping
  <2> QED
    BY <1>3, <1>4, <1>5, <2>1, <2>2, <2>3, <2>4, <2>5 DEF TypeInv
<1>8. LockInv
  BY <1>5, <1>6 DEF LockInv, RequestSeesOneVault, Swapping
<1>9. LiveInv
  <2>1. Serves(settings)
    BY <1>5 DEF Serves
  <2>2. file.settings = settings /\ file.revision = revision
    BY <1>5
  <2> QED
    BY <1>6, <2>1, <2>2 DEF LiveInv
<1>10. FreshInv
  BY <1>6 DEF FreshInv
<1>11. AgentInv
  <2>1. Project(settings.ai) = settings.ai
    BY <1>2, <1>4 DEF Project
  <2> QED
    BY <1>5, <1>6, <2>1 DEF AgentInv, Current, Projected
<1>12. StackInv
  BY <1>5, <1>6 DEF StackInv, Retuning
<1> QED
  BY <1>7, <1>8, <1>9, <1>10, <1>11, <1>12 DEF RuntimeInv

\* A step that changes nothing keeps it.
LEMMA RuntimeStutter ==
  ASSUME RuntimeInv, UNCHANGED vars
  PROVE  RuntimeInv'
<1>1. TypeInv'
  BY DEF RuntimeInv, TypeInv, vars
<1>2. LockInv'
  BY DEF RuntimeInv, LockInv, RequestSeesOneVault, vars
<1>3. LiveInv'
  BY DEF RuntimeInv, LiveInv, Serves, Loaded, Load, Updated, vars
<1>4. FreshInv'
  BY DEF RuntimeInv, FreshInv, Fresh, vars
<1>5. AgentInv' /\ StackInv'
  BY DEF RuntimeInv, AgentInv, Current, StackInv, Retuning, vars
<1> QED
  BY <1>1, <1>2, <1>3, <1>4, <1>5 DEF RuntimeInv

(***************************************************************************)
(* The invariant of the runtime: types, one transition at a time, what     *)
(* memory, file and services owe each other in every phase of a commit,    *)
(* and that a draft which may still be committed is the edit applied to    *)
(* the settings it will replace (runtime.py transition and its users).     *)
(***************************************************************************)
THEOREM RuntimeInvariance == Spec => []RuntimeInv
<1>1. Init => RuntimeInv
  BY RuntimeStart, RuntimeAssumption
<1>2. RuntimeInv /\ [Next]_vars => RuntimeInv'
  BY TypeStep, LockStep, LiveStep, FreshStep, AgentStep, StackStep, RuntimeStutter DEF RuntimeInv
<1> QED
  BY <1>1, <1>2, PTL DEF Spec

(***************************************************************************)
(* A request or a task that is under way sees one session and meets no     *)
(* swap, whatever the settings requests do (runtime.py request).           *)
(***************************************************************************)
THEOREM RequestsSeeOneVault == Spec => []RequestSeesOneVault
<1>1. RuntimeInv => RequestSeesOneVault
  BY DEF RuntimeInv, LockInv
<1> QED
  BY <1>1, RuntimeInvariance, PTL

(***************************************************************************)
(* Outside a transition memory, file and services agree after every        *)
(* commit, failure and restart, but for the two services a request may     *)
(* leave apart: the retrieval stack of a failed change of the search       *)
(* settings, and the agent after an edit of the entry in use that does not *)
(* activate it (runtime.py _commit_ai, apply_rag, switch_vault).           *)
(***************************************************************************)
THEOREM SavedSettingsAreLive == Spec => []SavedIsLive
<1>1. ASSUME RuntimeInv, ~changing
      PROVE  SavedIsLive
  <2>1. \A w \in Workers : work[w].pc \notin Swapping
    BY <1>1 DEF RuntimeInv, LockInv
  <2>2. Loaded(file.settings) = Loaded(settings) /\ file.revision = revision /\ vault.root = settings.root
    BY <1>1, <2>1 DEF RuntimeInv, LiveInv, Serves, Swapping
  <2>3. Load(file) = Load([settings |-> settings])
    BY <2>2, LoadFile DEF Loaded
  <2>4. "agent" \notin apart => agent = settings.ai.flat
    <3>1. Projected(settings.ai)
      BY <1>1, <2>1 DEF RuntimeInv, AgentInv, Swapping
    <3> QED
      BY <1>1, <3>1 DEF RuntimeInv, AgentInv, Projected
  <2>5. "stack" \notin apart => vault.rag = settings.rag
    BY <1>1, <2>1 DEF RuntimeInv, StackInv, Retuning, Swapping
  <2>6. sched = [cur |-> "running", new |-> "none"]
    BY <1>1 DEF RuntimeInv, LockInv
  <2> QED
    BY <2>2, <2>3, <2>4, <2>5, <2>6 DEF SavedIsLive
<1>2. RuntimeInv => SavedIsLive
  BY <1>1 DEF SavedIsLive
<1> QED
  BY <1>2, RuntimeInvariance, PTL

\* Only an assignment commits, and what it commits is the edit of the request
\* applied to the settings of now.
LEMMA CommitKeepsEdits ==
  ASSUME RuntimeInv, [Next]_vars, NEW w \in Workers, work[w].pc = "saved", work'[w].pc = "assigned"
  PROVE  Load([settings |-> settings']) = Load([settings |-> Applied(work[w].op, settings)])
<1>1. TypeInv /\ LockInv /\ FreshInv
  BY DEF RuntimeInv
<1>2. work[w] \in Work /\ settings \in Config /\ Known(settings.ai)
  BY <1>1, WorkIs DEF TypeInv, Swapping
<1>3. settings' = Updated(w)
  <2>1. ASSUME NEW v \in Workers, NEW pc \in Swapping, pc # "assigned", work[v].pc \in Swapping \cup {"drafted"}, Step(v, pc)
        PROVE  FALSE
    BY <1>1, <2>1, StepIs
  <2>2. ASSUME NEW v \in Workers, work' = [work EXCEPT ![v] = Idle]
        PROVE  FALSE
    BY <1>1, <2>2, EndIs
  <2>3. ASSUME NEW v \in Workers, NEW c, c.pc # "assigned", work' = [work EXCEPT ![v] = c]
        PROVE  FALSE
    BY <1>1, <2>3 DEF TypeInv
  <2>4. CASE UNCHANGED vars
    BY <2>4 DEF vars
  <2>5. CASE FinishIndex \/ StartTask \/ (\E q \in Requests : EnterRequest(q)) \/ (\E q \in DOMAIN inflight : Leave(q))
    BY <2>5 DEF FinishIndex, StartTask, EnterRequest, Leave
  <2>6. CASE Restart
    BY <2>6 DEF Restart, Idle
  <2>7. ASSUME NEW v \in Workers, Submit(v)
        PROVE  FALSE
    <3>1. PICK op \in Ops(edits'), rev \in 1 .. revision, ses \in 1 .. session :
            work' = [work EXCEPT ![v] = [pc |-> "sent", op |-> op, rev |-> rev, ses |-> ses]]
      BY <2>7 DEF Submit
    <3> QED
      BY <2>3, <3>1
  <2>8. ASSUME NEW v \in Workers, Draft(v)
        PROVE  FALSE
    <3>1. CASE Refused(work[v].op, settings.ai)
      BY <2>2, <2>8, <3>1 DEF Draft
    <3>2. CASE ~Refused(work[v].op, settings.ai)
      <4> DEFINE c == [pc |-> "drafted", op |-> work[v].op, rev |-> work[v].rev, ses |-> work[v].ses,
                       draft |-> Applied(work[v].op, settings), noop |-> NoOp(work[v].op, settings.ai)]
      <4>1. work' = [work EXCEPT ![v] = c] /\ c.pc # "assigned"
        BY <1>1, <2>8, <3>2 DEF Draft, TypeInv
      <4> HIDE DEF c
      <4> QED
        BY <2>3, <4>1
    <3> QED
      BY <3>1, <3>2
  <2>9. ASSUME NEW v \in Workers, Enter(v) \/ SwitchStays(v) \/ BuildServices(v) \/ SwapStack(v) \/ PrepareVault(v)
                                   \/ Save(v) \/ FailServices(v) \/ FailSwap(v) \/ FailVault(v) \/ Publish(v)
        PROVE  FALSE
    <3>1. \/ work' = [work EXCEPT ![v] = Idle]
          \/ /\ work[v].pc \in {"drafted", "entered", "built", "saved", "assigned"}
             /\ \E pc \in {"entered", "built", "saved", "leaving"} : Step(v, pc)
      BY <2>9 DEF Enter, SwitchStays, BuildServices, SwapStack, PrepareVault, Save, FailServices, FailSwap, FailVault, Publish
    <3> QED
      BY <2>1, <2>2, <3>1 DEF Swapping
  <2>10. ASSUME NEW v \in Workers, Exit(v)
         PROVE  FALSE
    BY <2>2, <2>10 DEF Exit
  <2>11. ASSUME NEW v \in Workers, AssignServices(v) \/ AssignStack(v) \/ AssignVault(v)
         PROVE  v = w
    <3>1. work[v].pc = "saved"
      BY <2>11 DEF AssignServices, AssignStack, AssignVault
    <3> QED
      BY <1>1, <3>1 DEF LockInv, Swapping
  <2>12. CASE \E v \in Workers : AssignServices(v) \/ AssignStack(v) \/ AssignVault(v)
    BY <2>11, <2>12 DEF AssignServices, AssignStack, AssignVault
  <2> QED
    BY <2>4, <2>5, <2>6, <2>7, <2>8, <2>9, <2>10, <2>12 DEF Next
<1> DEFINE op == work[w].op
           a == Applied(op, settings)
           b == Updated(w)
<1>4. Fresh(work[w], settings)
  <2>1. \A v \in Workers : work[v].pc # "assigned"
    BY <1>1 DEF LockInv, Swapping
  <2> QED
    BY <1>1, <2>1 DEF FreshInv
<1>5. op \in Operation /\ ~Refused(op, settings.ai)
  BY <1>2, <1>4 DEF Work, Fresh
<1>6. /\ b \in Config /\ Known(b.ai)
      /\ b.ai = IF op.kind \in {"rag", "switch"} THEN settings.ai ELSE work[w].draft.ai
      /\ b.rag = IF op.kind = "rag" THEN work[w].draft.rag ELSE settings.rag
      /\ b.root = IF op.kind = "switch" THEN op.root ELSE settings.root
  BY <1>1, UpdatedIs DEF Swapping
<1>7. /\ a \in Config /\ Known(a.ai)
      /\ op.kind = "rag" => a.ai = settings.ai /\ a.root = settings.root /\ a.rag = WithRag(settings.rag, op.field, op.route)
      /\ op.kind = "switch" => a.ai = settings.ai /\ a.rag = settings.rag /\ a.root = op.root
      /\ op.kind \notin {"rag", "switch"} => a.rag = settings.rag /\ a.root = settings.root
  BY <1>2, <1>5, AppliedIs
<1>8. /\ op.kind = "rag" => work[w].draft.rag = WithRag(settings.rag, op.field, op.route)
      /\ op.kind \notin {"rag", "switch"} => Project(work[w].draft.ai) = Project(a.ai)
  BY <1>4 DEF Fresh
<1> HIDE DEF op, a, b
<1>9. Project(a.ai) = Project(b.ai) /\ a.rag = b.rag /\ a.root = b.root
  <2>1. CASE op.kind = "rag"
    BY <1>6, <1>7, <1>8, <2>1
  <2>2. CASE op.kind = "switch"
    BY <1>6, <1>7, <1>8, <2>2
  <2>3. CASE op.kind \notin {"rag", "switch"}
    BY <1>6, <1>7, <1>8, <2>3
  <2> QED
    BY <2>1, <2>2, <2>3
<1>10. Loaded(a) = Loaded(b)
  BY <1>6, <1>7, <1>9, SameLoaded
<1> QED
  BY <1>3, <1>10 DEF Loaded, a, b, op

(***************************************************************************)
(* No settings request loses the effect of another: every commit is its    *)
(* own edit applied to the settings it replaces, although the edit was     *)
(* computed before the transition took any lock (runtime.py apply_ai,      *)
(* apply_rag and the profile methods).                                     *)
(***************************************************************************)
THEOREM EditsAreKept == Spec => NoLostEdit
<1>1. RuntimeInv /\ [Next]_vars =>
        \A w \in Workers :
          work[w].pc = "saved" /\ work'[w].pc = "assigned" =>
            Load([settings |-> settings']) = Load([settings |-> Applied(work[w].op, settings)])
  BY CommitKeepsEdits
<1> QED
  BY <1>1, RuntimeInvariance, PTL DEF Spec, NoLostEdit
=============================================================================
