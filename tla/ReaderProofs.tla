---------------------------- MODULE ReaderProofs ----------------------------
(***************************************************************************)
(* Proofs about the reader: an opened database is converged, a             *)
(* conversation's questions are followed by their answers, no cursor       *)
(* passes a row its device has not applied, no operation leaves an outbox  *)
(* unless the server committed it, and devices that have nothing left to   *)
(* send or to pull agree.                                                  *)
(***************************************************************************)
EXTENDS Reader, Integers, WellFoundedInduction, FiniteSetTheorems, SequenceTheorems, TLAPS

(***************************************************************************)
(* Opening the database                                                    *)
(***************************************************************************)

\* What a recorded migration means.  That 002 is recorded means nothing: a build
\* recorded it and skipped its body.
Recorded ==
  /\ versioned \/ 1 \in ledger => base = "whole"
  /\ 3 \in ledger => nullable
  /\ 6 \in ledger => approval
  /\ 7 \in ledger => owned
  /\ spare => queue = "old"

\* What the migration at hand has done so far.
Underway ==
  LET m == opening[2] IN
  /\ opening[1] \in {"at", "done", "script", "queue", "copy", "fill"} =>
       m \in 1..Health /\ \A k \in 1..(m - 1) : k \in ledger
  /\ opening[1] = "done" =>
       /\ m \in Migrations
       /\ m = 1 => base = "whole"
       /\ m = 3 => nullable
       /\ m = 6 => approval
       /\ m = 7 => owned
  /\ opening[1] = "script" => m = 1 /\ base = "part"
  /\ opening[1] \in {"queue", "copy"} => pairing = "full" /\ m \in {2, Health}
  /\ opening[1] = "copy" => queue = "old"
  /\ opening[1] = "fill" => m = 7 /\ owned

SchemaInv == SchemaTypeOK /\ Recorded /\ Underway /\ OpenedIsConverged

\* Every step of an opening keeps what the ledger and the stage promise.
LEMMA SchemaStep ==
  ASSUME SchemaInv, SchemaNext \/ UNCHANGED schemaVars
  PROVE  SchemaInv'
<1> USE DEF SchemaInv, SchemaTypeOK, Recorded, Underway, OpenedIsConverged, Health, Migrations
<1>1. CASE UNCHANGED schemaVars
  BY <1>1 DEF schemaVars
<1>2. CASE EnsureLedger
  BY <1>2 DEF EnsureLedger
<1>3. CASE RunBaseScript
  BY <1>3 DEF RunBaseScript, At, Fail
<1>4. CASE FinishBaseScript
  BY <1>4 DEF FinishBaseScript, Done
<1>5. CASE RebuildConversations
  BY <1>5 DEF RebuildConversations, At, Done
<1>6. CASE AddOwner
  BY <1>6 DEF AddOwner, At
<1>7. CASE FillOwner
  BY <1>7 DEF FillOwner, Done
<1>8. CASE Reopen
  BY <1>8 DEF Reopen
<1>9. ASSUME NEW m \in Migrations, Skip(m)
      PROVE  SchemaInv'
  BY <1>9 DEF Skip
<1>10. ASSUME NEW m \in Migrations, Record(m)
       PROVE  SchemaInv'
  BY <1>10 DEF Record
<1>11. ASSUME NEW m \in Migrations, RunScript(m)
       PROVE  SchemaInv'
  BY <1>11 DEF RunScript, At, Done, Fail
<1>12. ASSUME NEW m \in {2, Health}, CompletePairing(m)
       PROVE  SchemaInv'
  BY <1>12 DEF CompletePairing, At
<1>13. ASSUME NEW m \in {2, Health}, PrepareQueue(m)
       PROVE  SchemaInv'
  <2>1. m = Health => {1, 3, 6, 7} \subseteq ledger
    BY <1>13 DEF PrepareQueue
  <2>2. opening' \in {<<"done", 2>>, <<"open", 0>>, <<"copy", 2>>, <<"copy", Health>>}
    BY <1>13 DEF PrepareQueue, Done
  <2>3. SchemaTypeOK' /\ Recorded'
    <3>1. opening' \in {"closed", "at", "done", "script", "queue", "copy", "fill", "open", "failed"}
                        \X (0..Health)
      BY <2>2
    <3>2. /\ queue' \in {"none", "old", "new"} /\ spare' \in BOOLEAN /\ (spare' => queue' = "old")
          /\ UNCHANGED <<ledger, base, versioned, pairing, approval, nullable, owned>>
      <4>1. CASE queue \in {"none", "new"}
        BY <1>13, <4>1 DEF PrepareQueue
      <4>2. CASE queue = "old"
        BY <1>13, <4>2 DEF PrepareQueue
      <4> QED
        BY <4>1, <4>2
    <3> QED
      BY <3>1, <3>2
  <2>4. OpenedIsConverged'
    BY <1>13, <2>1 DEF PrepareQueue, Done
  <2>5. Underway'
    BY <1>13, <2>2 DEF PrepareQueue, Done
  <2> QED
    BY <2>3, <2>4, <2>5
<1>14. ASSUME NEW m \in {2, Health}, ConvertQueue(m)
       PROVE  SchemaInv'
  <2>1. m = Health => {1, 3, 6, 7} \subseteq ledger
    BY <1>14 DEF ConvertQueue
  <2>2. opening' \in {<<"done", 2>>, <<"open", 0>>, <<"copy", 2>>, <<"copy", Health>>}
    BY <1>14 DEF ConvertQueue, Done
  <2>3. SchemaTypeOK' /\ Recorded'
    <3>1. opening' \in {"closed", "at", "done", "script", "queue", "copy", "fill", "open", "failed"}
                        \X (0..Health)
      BY <2>2
    <3>2. /\ queue' \in {"none", "old", "new"} /\ spare' \in BOOLEAN /\ (spare' => queue' = "old")
          /\ UNCHANGED <<ledger, base, versioned, pairing, approval, nullable, owned>>
      BY <1>14 DEF ConvertQueue
    <3> QED
      BY <3>1, <3>2
  <2>4. OpenedIsConverged'
    BY <1>14, <2>1 DEF ConvertQueue, Done
  <2>5. Underway'
    BY <1>14, <2>2 DEF ConvertQueue, Done
  <2> QED
    BY <2>3, <2>4, <2>5
<1> QED
  BY <1>1, <1>2, <1>3, <1>4, <1>5, <1>6, <1>7, <1>8, <1>9, <1>10, <1>11, <1>12, <1>13, <1>14
     DEF SchemaNext

\* Every database the server may find is one the invariant describes.
LEMMA SchemaStart ==
  ASSUME SchemaInit
  PROVE  SchemaInv
<1>1. /\ spare = FALSE /\ approval = FALSE /\ owned = FALSE /\ opening = <<"closed", 0>>
      /\ ledger \in {{}, {1, 2}} /\ base \in {"none", "whole"} /\ versioned \in BOOLEAN
      /\ queue \in {"none", "old"} /\ nullable \in BOOLEAN /\ pairing \in {"none", "bare", "full"}
      /\ versioned \/ ledger # {} => base = "whole"
  BY DEF SchemaInit
<1>2. opening \in {"closed", "at", "done", "script", "queue", "copy", "fill", "open", "failed"} \X (0..Health)
  BY <1>1 DEF Health
<1>3. SchemaTypeOK
  <2>1. ledger \subseteq Migrations
    BY <1>1 DEF Migrations
  <2> QED
    BY <1>1, <1>2, <2>1 DEF SchemaTypeOK
<1>4. Recorded /\ Underway /\ OpenedIsConverged
  BY <1>1 DEF Recorded, Underway, OpenedIsConverged
<1> QED
  BY <1>3, <1>4 DEF SchemaInv

-----------------------------------------------------------------------------
(* Questions *)

Followed(messages, lost) ==
  \A i \in DOMAIN messages :
    messages[i][1] = "user" /\ messages[i][2] \notin lost =>
      i < Len(messages) /\ messages[i + 1] = <<"assistant", messages[i][2]>>

Messages == Seq({"user", "assistant"} \X Asks)

\* Each conversation is a sequence of messages, and a question under way knows which
\* conversation it continues.
ThreadInv ==
  /\ thread \in [Threads \union Asks -> [owner : Devices \union {None}, linked : BOOLEAN, messages : Messages]]
  /\ ask \in [Asks -> [pc : {"idle", "gather", "chat", "store", "answered"}, dev : Devices \union {None},
                      scope : {"current_content", "my_knowledge", "web", None},
                      id : Threads \union Asks \union {None}, new : BOOLEAN, hits : SUBSET (Entities \union {"page"})]]
  /\ \A a \in Asks : ask[a].pc \in {"gather", "chat", "store"} =>
        ask[a].id \in Threads \union Asks /\ ask[a].dev \in Devices /\ ask[a].scope # None
  /\ AnswersFollow

\* A whole exchange, and one that a crash cut after its first n - 1 messages.
LEMMA ExchangeFollows ==
  ASSUME NEW ms \in Messages, NEW lost, NEW more, NEW a \in Asks, NEW n \in {1, 2, 3},
         Followed(ms, lost), lost \subseteq more, n < 3 => a \in more
  PROVE  LET said == SubSeq(<<<<"user", a>>, <<"assistant", a>>>>, 1, n - 1)
         IN  ms \o said \in Messages /\ Followed(ms \o said, more)
<1> DEFINE said == SubSeq(<<<<"user", a>>, <<"assistant", a>>>>, 1, n - 1)
           M == {"user", "assistant"} \X Asks
<1>1. <<"user", a>> \in M /\ <<"assistant", a>> \in M
  OBVIOUS
<1>2. /\ said \in Seq(M) /\ Len(said) = n - 1
      /\ n > 1 => said[1] = <<"user", a>>
      /\ n > 2 => said[2] = <<"assistant", a>>
  <2>1. CASE n = 1
    BY <2>1
  <2>2. CASE n = 2
    BY <1>1, <2>2
  <2>3. CASE n = 3
    BY <1>1, <2>3
  <2> QED
    BY <2>1, <2>2, <2>3
<1>3. ms \in Seq(M)
  BY DEF Messages
<1> HIDE DEF said, M
<1>4. /\ ms \o said \in Seq(M) /\ Len(ms \o said) = Len(ms) + n - 1
      /\ \A i \in 1..Len(ms) : (ms \o said)[i] = ms[i]
      /\ \A i \in 1..(n - 1) : (ms \o said)[Len(ms) + i] = said[i]
  BY <1>2, <1>3
<1>5. ASSUME NEW i \in DOMAIN (ms \o said), (ms \o said)[i][1] = "user", (ms \o said)[i][2] \notin more
      PROVE  /\ i < Len(ms \o said)
             /\ (ms \o said)[i + 1] = <<"assistant", (ms \o said)[i][2]>>
  <2>1. CASE i \in 1..Len(ms)
    <3>1. i < Len(ms) /\ ms[i + 1] = <<"assistant", ms[i][2]>>
      BY <1>3, <1>4, <1>5, <2>1 DEF Followed
    <3> QED
      BY <1>3, <1>4, <2>1, <3>1
  <2>2. CASE i = Len(ms) + 1 /\ n > 1
    <3>1. (ms \o said)[i] = <<"user", a>>
      BY <1>2, <1>4, <2>2
    <3>2. n = 3
      BY <1>5, <3>1
    <3>3. (ms \o said)[i + 1] = <<"assistant", a>>
      BY <1>2, <1>3, <1>4, <2>2, <3>2
    <3> QED
      BY <1>3, <1>4, <2>2, <3>1, <3>2, <3>3
  <2>3. CASE i = Len(ms) + 2 /\ n > 2
    BY <1>2, <1>4, <1>5, <2>3
  <2> QED
    BY SMTT(20), <1>3, <1>4, <2>1, <2>2, <2>3
<1>6. Followed(ms \o said, more)
  BY <1>5 DEF Followed
<1> QED
  BY <1>4, <1>6 DEF Messages, M, said

\* The service keeps its conversations: only an answer that is stored, whole or cut
\* short, adds to one, and it adds a question that its answer follows.
LEMMA ThreadStored ==
  ASSUME ThreadInv, NEW a \in Asks, NEW n \in {1, 2, 3}, Stores(a), thread' = Committed(a, n),
         torn \subseteq torn', n < 3 => a \in torn'
  PROVE  /\ thread' \in [Threads \union Asks -> [owner : Devices \union {None}, linked : BOOLEAN, messages : Messages]]
         /\ AnswersFollow'
<1> DEFINE q == ask[a]
           said == SubSeq(<<<<"user", a>>, <<"assistant", a>>>>, 1, n - 1)
           t == IF q.new THEN [owner |-> q.dev, linked |-> row[Source] # Absent, messages |-> <<>>] ELSE thread[q.id]
           Thread == [owner : Devices \union {None}, linked : BOOLEAN, messages : Messages]
<1>1. q.id \in Threads \union Asks /\ q.dev \in Devices /\ thread[q.id] \in Thread
  BY DEF ThreadInv, Stores
<1>2. t \in Thread /\ Followed(t.messages, torn)
  <2>1. <<>> \in Messages /\ Followed(<<>>, torn)
    BY DEF Messages, Followed
  <2>2. CASE q.new
    BY <1>1, <2>1, <2>2
  <2>3. CASE ~q.new
    BY <1>1, <2>3 DEF ThreadInv, AnswersFollow, Followed
  <2> QED
    BY <2>2, <2>3
<1>3. t.messages \o said \in Messages /\ Followed(t.messages \o said, torn')
  <2>1. t.messages \in Messages
    BY <1>2
  <2> HIDE DEF t
  <2> QED
    BY <1>2, <2>1, ExchangeFollows
<1>4. thread' = [thread EXCEPT ![q.id] = [t EXCEPT !.messages = @ \o said]]
  BY DEF Committed
<1> HIDE DEF t, said, q
<1>5. [t EXCEPT !.messages = @ \o said] \in Thread /\ [t EXCEPT !.messages = @ \o said].messages = t.messages \o said
  BY <1>2, <1>3
<1>6. thread' \in [Threads \union Asks -> Thread]
  BY <1>1, <1>4, <1>5 DEF ThreadInv
<1>7. \A u \in Threads \union Asks : Followed(thread'[u].messages, torn')
  <2> TAKE u \in Threads \union Asks
  <2>1. CASE u = q.id
    BY <1>1, <1>3, <1>4, <1>5, <2>1 DEF ThreadInv
  <2>2. CASE u # q.id
    <3>1. thread'[u] = thread[u]
      BY <1>4, <2>2 DEF ThreadInv
    <3> QED
      BY <3>1 DEF ThreadInv, AnswersFollow, Followed
  <2> QED
    BY <2>1, <2>2
<1> QED
  BY <1>6, <1>7 DEF AnswersFollow, Followed

\* No step of a question, of a pairing or of an import breaks an exchange.
LEMMA ThreadStep ==
  ASSUME ThreadInv, ReaderNext \/ UNCHANGED readerVars
  PROVE  ThreadInv'
<1> DEFINE Thread == [owner : Devices \union {None}, linked : BOOLEAN, messages : Messages]
           Ask == [pc : {"idle", "gather", "chat", "store", "answered"}, dev : Devices \union {None},
                   scope : {"current_content", "my_knowledge", "web", None},
                   id : Threads \union Asks \union {None}, new : BOOLEAN, hits : SUBSET (Entities \union {"page"})]
           AskOK == /\ ask \in [Asks -> Ask]
                    /\ \A a \in Asks : ask[a].pc \in {"gather", "chat", "store"} =>
                         ask[a].id \in Threads \union Asks /\ ask[a].dev \in Devices /\ ask[a].scope # None
           ThreadOK == thread \in [Threads \union Asks -> Thread] /\ AnswersFollow
<1>1. AskOK /\ ThreadOK
  BY DEF ThreadInv
<1>2. AskOK' /\ ThreadOK' => ThreadInv'
  BY DEF ThreadInv
<1>3. IdleAsk \in Ask /\ [IdleAsk EXCEPT !.pc = "answered"] \in Ask
  BY DEF IdleAsk
<1> HIDE DEF Ask
<1>4. ASSUME UNCHANGED thread, torn \subseteq torn'
      PROVE  ThreadOK'
  BY <1>1, <1>4 DEF AnswersFollow
<1>5. ASSUME NEW a \in Asks, NEW v \in Ask, ask' = [ask EXCEPT ![a] = v],
             v.pc \in {"gather", "chat", "store"} => v.id \in Threads \union Asks /\ v.dev \in Devices /\ v.scope # None
      PROVE  AskOK'
  BY <1>1, <1>5
<1>6. CASE UNCHANGED <<thread, ask>> /\ torn \subseteq torn'
  BY <1>1, <1>2, <1>4, <1>6
<1>7. CASE UNCHANGED readerVars \/ (UNCHANGED serviceVars)
  BY <1>6, <1>7 DEF readerVars, serviceVars
<1>8. ASSUME NEW c \in Codes, NEW d \in Devices, CreateCode(c, d) \/ RegisterDevice(d, c) \/ FailRegister(d, c)
      PROVE  ThreadInv'
  BY <1>6, <1>8 DEF CreateCode, RegisterDevice, FailRegister
<1>9. ASSUME NEW c \in Codes, Expire(c) \/ CheckCode(c)
      PROVE  ThreadInv'
  BY <1>6, <1>9 DEF Expire, CheckCode
<1>10. CASE MarkApproved
  BY <1>6, <1>10 DEF MarkApproved
<1>11. ASSUME NEW e \in Entities, ImportSession(e)
       PROVE  ThreadInv'
  BY <1>6, <1>11 DEF ImportSession
<1>12. ASSUME NEW a \in Asks, NEW d \in Devices, NEW id \in Threads \union Asks,
              NEW scope \in {"current_content", "my_knowledge", "web"}, StartAsk(a, d, id, scope)
       PROVE  ThreadInv'
  <2> DEFINE v == [pc |-> "gather", dev |-> d, scope |-> scope, id |-> id, new |-> thread[id].owner = None, hits |-> {}]
  <2>1. v \in Ask /\ v.id \in Threads \union Asks /\ v.dev \in Devices /\ v.scope # None
    BY DEF Ask, None
  <2>2. ask' = [ask EXCEPT ![a] = v] /\ UNCHANGED <<thread, torn>>
    BY <1>12 DEF StartAsk
  <2> HIDE DEF v
  <2> QED
    BY <1>2, <1>4, <1>5, <2>1, <2>2
<1>13. ASSUME NEW a \in Asks, GatherEvidence(a)
       PROVE  ThreadInv'
  <2>1. ask[a] \in Ask /\ ask[a].pc = "gather"
    BY <1>1, <1>13 DEF GatherEvidence
  <2>2. ask[a].scope \in {"current_content", "my_knowledge", "web"} /\ ask[a].id \in Threads \union Asks
        /\ ask[a].dev \in Devices
    BY <1>1, <2>1 DEF Ask
  <2>3. PICK hits \in Matches(ask[a].scope) :
          ask' = [ask EXCEPT ![a].hits = hits,
                  ![a].pc = IF ask[a].scope # "current_content" /\ hits = {} THEN "store" ELSE "chat"]
    BY <1>13, Zenon DEF GatherEvidence
  <2>4. hits \subseteq Entities \union {"page"}
    BY <2>2, <2>3 DEF Matches, Searchable
  <2> DEFINE pc == IF ask[a].scope # "current_content" /\ hits = {} THEN "store" ELSE "chat"
             v == [ask[a] EXCEPT !.hits = hits, !.pc = pc]
  <2>5. pc \in {"store", "chat"} /\ ask' = [ask EXCEPT ![a] = v]
    BY <1>1, <2>3
  <2> HIDE DEF pc
  <2>6. v \in Ask /\ v.id = ask[a].id /\ v.dev = ask[a].dev /\ v.scope = ask[a].scope
    BY <2>1, <2>4, <2>5 DEF Ask
  <2> HIDE DEF v
  <2>7. v.id \in Threads \union Asks /\ v.dev \in Devices /\ v.scope # None
    BY <2>2, <2>6 DEF None
  <2>8. UNCHANGED thread /\ torn \subseteq torn'
    BY <1>13 DEF GatherEvidence
  <2> QED
    BY <1>2, <1>4, <1>5, <2>5, <2>6, <2>7, <2>8
<1>14. ASSUME NEW a \in Asks, Chat(a)
       PROVE  ThreadInv'
  <2> DEFINE v == [ask[a] EXCEPT !.pc = "store"]
  <2>1. ask[a] \in Ask /\ ask[a].pc = "chat"
    BY <1>1, <1>14 DEF Chat
  <2>2. v \in Ask /\ v.id = ask[a].id /\ v.dev = ask[a].dev /\ v.scope = ask[a].scope
    BY <2>1 DEF Ask
  <2>3. ask' = [ask EXCEPT ![a] = v] /\ UNCHANGED <<thread, torn>>
    BY <1>1, <1>14 DEF Chat
  <2> HIDE DEF v
  <2> QED
    BY <1>1, <1>2, <1>4, <1>5, <2>1, <2>2, <2>3
<1>15. ASSUME NEW a \in Asks, FailAsk(a) \/ StoreRefused(a)
       PROVE  ThreadInv'
  <2>1. ask' = [ask EXCEPT ![a] = IdleAsk] /\ UNCHANGED <<thread, torn>> /\ IdleAsk.pc = "idle"
    BY <1>15 DEF FailAsk, StoreRefused, IdleAsk
  <2> QED
    BY <1>2, <1>3, <1>4, <1>5, <2>1
<1>16. ASSUME NEW a \in Asks, StoreAnswer(a)
       PROVE  ThreadInv'
  <2>1. Stores(a) /\ thread' = Committed(a, 3) /\ UNCHANGED torn
        /\ ask' = [ask EXCEPT ![a] = [IdleAsk EXCEPT !.pc = "answered"]]
    BY <1>16 DEF StoreAnswer
  <2>2. [IdleAsk EXCEPT !.pc = "answered"].pc = "answered"
    BY DEF IdleAsk
  <2>3. \E n \in {1, 2, 3} : n = 3 /\ Stores(a) /\ thread' = Committed(a, n) /\ torn \subseteq torn'
    BY <2>1
  <2>4. PICK n \in {1, 2, 3} : n = 3 /\ Stores(a) /\ thread' = Committed(a, n) /\ torn \subseteq torn'
    BY <2>3
  <2>5. n < 3 => a \in torn'
    BY <2>4
  <2>6. thread' = Committed(a, n) /\ Stores(a) /\ torn \subseteq torn'
    BY <2>4
  <2>7. ThreadOK'
    BY <2>5, <2>6, ThreadStored
  <2> QED
    BY <1>2, <1>3, <1>5, <2>1, <2>2, <2>7
<1>17. ASSUME Crash
       PROVE  AskOK'
  BY <1>1, <1>3, <1>17 DEF Crash, IdleAsk
<1>18. ASSUME NEW d \in Devices, NEW c \in Codes, CrashInRegister(d, c)
       PROVE  ThreadInv'
  BY <1>2, <1>4, <1>17, <1>18 DEF CrashInRegister
<1>19. ASSUME NEW a \in Asks, NEW n \in {1, 2}, CrashInStore(a, n)
       PROVE  ThreadInv'
  <2>1. Stores(a) /\ thread' = Committed(a, n) /\ torn' = torn \union {a} /\ Crash
    BY <1>19 DEF CrashInStore
  <2>2. ThreadOK'
    BY <2>1, ThreadStored
  <2> QED
    BY <1>2, <1>17, <2>1, <2>2
<1>20. ASSUME NEW a \in Asks, NEW n \in {1, 2}, FailStore(a, n)
       PROVE  ThreadInv'
  <2>1. /\ Stores(a) /\ thread' = Committed(a, n) /\ torn' = torn \union {a}
        /\ ask' = [ask EXCEPT ![a] = IdleAsk] /\ IdleAsk.pc = "idle"
    BY <1>20 DEF FailStore, IdleAsk
  <2>2. ThreadOK'
    BY <2>1, ThreadStored
  <2> QED
    BY <1>2, <1>3, <1>5, <2>1, <2>2
<1> QED
  BY <1>7, <1>8, <1>9, <1>10, <1>11, <1>12, <1>13, <1>14, <1>15, <1>16, <1>18, <1>19, <1>20 DEF ReaderNext, Serve

\* No request is under way when the server starts.
LEMMA ThreadStart ==
  ASSUME ReaderInit
  PROVE  ThreadInv
<1>1. <<>> \in Messages /\ NoThread \in [owner : Devices \union {None}, linked : BOOLEAN, messages : Messages]
      /\ NoThread.messages = <<>>
  BY DEF Messages, NoThread
<1> QED
  BY <1>1 DEF ReaderInit, ThreadInv, AnswersFollow, IdleAsk

-----------------------------------------------------------------------------

\* Once the opening of the database succeeds, the schema is the converged one,
\* whatever the database file was and wherever earlier openings failed or crashed
\* (reader/db.py).
THEOREM OpenedConverges == ReaderSpec => []OpenedIsConverged
<1>1. ReaderInit => SchemaInv
  BY SchemaStart DEF ReaderInit
<1>2. SchemaInv /\ [ReaderNext]_readerVars => SchemaInv'
  <2> SUFFICES ASSUME SchemaInv, [ReaderNext]_readerVars
               PROVE  SchemaInv'
    OBVIOUS
  <2>1. CASE SchemaNext
    BY <2>1, SchemaStep
  <2>2. CASE UNCHANGED schemaVars
    BY <2>2, SchemaStep
  <2>3. ASSUME Crash
        PROVE  UNCHANGED schemaVars
    BY <2>3 DEF Crash
  <2> QED
    BY <2>1, <2>2, <2>3 DEF ReaderNext, readerVars, CrashInRegister, CrashInStore
<1> QED
  BY <1>1, <1>2, PTL DEF ReaderSpec, SchemaInv

\* A question in a stored conversation is followed by its own answer, unless a crash
\* or a failure fell between their commits (reader/service.py, ask).
THEOREM AnswersAlwaysFollow == ReaderSpec => []AnswersFollow
<1>1. ReaderInit => ThreadInv
  BY ThreadStart
<1>2. ThreadInv /\ [ReaderNext]_readerVars => ThreadInv'
  BY ThreadStep
<1> QED
  BY <1>1, <1>2, PTL DEF ReaderSpec, ThreadInv

(***************************************************************************)
(* Synchronisation                                                         *)
(***************************************************************************)

LogRow == [dev : Devices, key : Nat, ent : Entities, op : {"create", "update", "delete"}, at : Nat]
Transaction ==
  [from : Syncs \union {"gone"}, dev : Devices, todo : Seq(Operation), row : [Entities -> Nat],
   log : Seq(LogRow), ok : Seq(Entities), keys : SUBSET Nat]
Call ==
  [pc : {"idle", "push", "ack", "pull", "apply"}, items : Seq(Operation), ok : Seq(Entities),
   at : Nat \X Nat, page : SUBSET Nat, next : Nat \X Nat, more : BOOLEAN]

SyncTypes ==
  /\ row \in [Entities -> Nat] /\ log \in Seq(LogRow) /\ clock \in Nat
  /\ push \in Transaction \union {NoOne}
  /\ local \in [Devices -> [Entities -> Nat]]
  /\ outbox \in [Devices -> Seq(Operation)] /\ cursor \in [Devices -> Nat \X Nat]
  /\ sync \in [Syncs -> Call] /\ \A s \in Syncs : sync[s].page \subseteq DOMAIN log
  /\ late \subseteq [dev : Devices, items : Seq(Operation)]
  /\ keys \in Nat /\ written \subseteq Nat
  /\ seen \in [Devices -> SUBSET Nat] /\ editors \in [Entities -> SUBSET Devices]

\* What the transaction under way has so far, or what is committed.
Rows == IF push = NoOne THEN row ELSE push.row
Log == IF push = NoOne THEN log ELSE push.log
Todo == IF push = NoOne THEN <<>> ELSE push.todo
Keys == IF push = NoOne THEN written ELSE written \union push.keys

\* A log is stamped in its order.
Ordered(l) ==
  /\ \A i \in DOMAIN l : l[i].at <= clock
  /\ \A i, j \in DOMAIN l : i <= j => l[i].at <= l[j].at

\* A position is the start, or names a row of the log and its second.
Marks(p) == p = <<0, 0>> \/ (p[2] \in DOMAIN log /\ p[1] = log[p[2]].at)
Covers(d, p, S) == \A i \in DOMAIN log : i <= p[2] /\ log[i].dev # d => i \in S

CursorInv ==
  /\ Ordered(Log)
  /\ Len(log) <= Len(Log) /\ \A i \in DOMAIN log : log[i] = Log[i]
  /\ \A d \in Devices : Marks(cursor[d]) /\ Covers(d, cursor[d], seen[d])
  /\ \A s \in Syncs :
       /\ Marks(sync[s].at) /\ Covers(DeviceOf[s], sync[s].at, seen[DeviceOf[s]])
       /\ Marks(sync[s].next)
       /\ sync[s].pc = "apply" => Covers(DeviceOf[s], sync[s].next, seen[DeviceOf[s]] \union sync[s].page)

\* Every sequence of operations there is, and the operations in them.
Sent == {outbox[d] : d \in Devices} \union {sync[s].items : s \in Syncs} \union {m.items : m \in late}
Batches == Sent \union {Todo}
Ops == UNION {{b[i] : i \in DOMAIN b} : b \in Batches}

\* A key names one operation, an entity is created once, and Source only created.
KeysInv ==
  /\ \A o \in Ops : o.key <= keys
  /\ \A k \in Keys : k <= keys
  /\ \A o, p \in Ops : o.key = p.key => o = p
  /\ \A o, p \in Ops : o.op = "create" /\ p.op = "create" /\ o.ent = p.ent => o = p
  /\ \A o \in Ops : o.op = "create" => editors[o.ent] # {}
  /\ \A o \in Ops : o.ent = Source => o.op = "create"

\* Rows there are were created by an accepted operation, and the source's row stays.
RowsAre(rows, accepted) ==
  /\ \A e \in Entities : rows[e] # Absent => editors[e] # {}
  /\ \A o \in Ops : o.op = "create" /\ rows[o.ent] # Absent => o.key \in accepted
  /\ \A o \in Ops : o.ent = Source /\ o.key \in accepted => rows[Source] # Absent
RowsInv ==
  /\ RowsAre(row, written) /\ RowsAre(Rows, Keys)
  /\ row[Source] # Absent => Rows[Source] # Absent
  /\ \A i \in DOMAIN log : log[i].ent = Source => log[i].op = "create" /\ row[Source] # Absent
  /\ \A i \in DOMAIN Log : Log[i].ent = Source => Log[i].op = "create" /\ Rows[Source] # Absent

\* A child's create comes after its source's, in any batch, or the source is there.
Led(b, rows) ==
  \A i \in DOMAIN b : b[i].op = "create" /\ b[i].ent # Source =>
    rows[Source] # Absent \/ \E j \in 1..(i - 1) : b[j].ent = Source
LedInv == Source \notin Unfit =>
  /\ \A b \in Sent : Led(b, row)
  /\ Led(Todo, Rows)
  /\ \A d \in Devices : local[d][Source] # Absent =>
       row[Source] # Absent \/ \E j \in DOMAIN outbox[d] : outbox[d][j].ent = Source

\* The answer names entities of the batch.  A sync waits for the transaction of its
\* batch, whose rows are accepted, refused for good or still to do.
Names(items, ok) == \A k \in DOMAIN ok : \E i \in DOMAIN items : items[i].ent = ok[k]
Awaits(c, accepted, todo, ok) ==
  /\ c.pc = "push"
  /\ \A i \in DOMAIN c.items : c.items[i].key \in accepted \/ Refused(c.items[i]) \/ \E j \in DOMAIN todo : todo[j] = c.items[i]
  /\ \A j \in DOMAIN todo : \E i \in DOMAIN c.items : c.items[i] = todo[j]
  /\ Names(c.items, ok)
Answered(c, accepted) ==
  c.pc = "ack" => Names(c.items, c.ok) /\ \A i \in DOMAIN c.items : c.items[i].key \in accepted \/ Refused(c.items[i])
AckInv ==
  /\ \A s \in Syncs : push # NoOne /\ push.from = s => Awaits(sync[s], Keys, Todo, push.ok)
  /\ \A s \in Syncs : Answered(sync[s], written)
  /\ AckedIsWritten

SyncInv == SyncTypes /\ CursorInv /\ KeysInv /\ RowsInv /\ LedInv /\ AckInv

-----------------------------------------------------------------------------
(* Operators *)

\* A nonempty set of naturals has a least element.
LEMMA Least ==
  ASSUME NEW S, S \subseteq Nat, S # {}
  PROVE  \E m \in S : \A k \in S : m <= k
<1>1. IsWellFoundedOn(OpToRel(<,Nat), Nat)
  BY NatLessThanWellFounded
<1>2. PICK m \in S : \A k \in S : <<k, m>> \notin OpToRel(<, Nat)
  BY <1>1, WFMin
<1>3. \A k \in S : ~(k < m)
  BY <1>2 DEF OpToRel
<1> QED
  BY <1>3

\* A nonempty set of naturals with an upper bound has a greatest element.
LEMMA Greatest ==
  ASSUME NEW n \in Nat, NEW S, S \subseteq 0..n, S # {}
  PROVE  \E m \in S : \A k \in S : k <= m
<1> DEFINE T == {t \in 0..n : n - t \in S}
<1>1. T \subseteq Nat
  OBVIOUS
<1>2. T # {}
  <2>1. PICK k \in S : TRUE
    OBVIOUS
  <2>2. n - k \in T
    BY <2>1
  <2> QED
    BY <2>2
<1>3. PICK t \in T : \A u \in T : t <= u
  <2> HIDE DEF T
  <2> QED
    BY <1>1, <1>2, Least
<1>4. ASSUME NEW k \in S
      PROVE  k <= n - t
  <2>1. n - k \in T
    OBVIOUS
  <2>2. t <= n - k
    BY <2>1, <1>3
  <2>3. k \in Int /\ t \in Int
    OBVIOUS
  <2> QED
    BY <2>2, <2>3
<1> QED
  BY <1>4

\* The committed log and that of the transaction under way are logs.
LEMMA LogType == SyncTypes => Log \in Seq(LogRow) /\ log \in Seq(LogRow)
<1> SUFFICES ASSUME SyncTypes
             PROVE  Log \in Seq(LogRow) /\ log \in Seq(LogRow)
  OBVIOUS
<1>1. CASE push = NoOne
  BY <1>1 DEF Log, SyncTypes
<1>2. CASE push # NoOne
  <2>1. push \in Transaction
    BY <1>2 DEF SyncTypes
  <2> QED
    BY <1>2, <2>1 DEF Log, SyncTypes, Transaction
<1> QED
  BY <1>1, <1>2

\* The committed log is the beginning of one stamped in its order, and so stamped
\* in its order.
LEMMA LogOrdered ==
  ASSUME SyncTypes, CursorInv, NEW i \in DOMAIN log, NEW j \in DOMAIN log, i <= j
  PROVE  log[i].at <= log[j].at
<1>1. Len(log) <= Len(Log) /\ \A k \in DOMAIN log : log[k] = Log[k]
  BY DEF CursorInv
<1>2. \A k \in DOMAIN log : k \in DOMAIN Log /\ log[k] = Log[k]
  BY <1>1, LogType
<1> QED
  BY <1>2 DEF CursorInv, Ordered

\* The rows of the log are stamped in their order, so that Before is the order of
\* their ids.
LEMMA BeforeIsLess ==
  ASSUME SyncTypes, CursorInv, NEW i \in DOMAIN log, NEW j \in DOMAIN log
  PROVE  Before(i, j) <=> i < j
<1>1. i \in Nat /\ j \in Nat /\ log[i].at \in Nat /\ log[j].at \in Nat
  <2>1. log[i] \in LogRow /\ log[j] \in LogRow /\ i \in Nat /\ j \in Nat
    BY LogType
  <2> QED
    BY <2>1 DEF LogRow
<1>2. /\ i <= j => log[i].at <= log[j].at
      /\ j <= i => log[j].at <= log[i].at
  BY LogOrdered
<1> QED
  BY <1>1, <1>2 DEF Before

\* The row the client takes first out of a page is one of the page.
LEMMA FirstInIsFirst ==
  ASSUME SyncTypes, CursorInv, NEW S \in SUBSET DOMAIN log, S # {}
  PROVE  FirstIn(S) \in S
<1>1. S \subseteq Nat
  BY DEF SyncTypes
<1>2. PICK m \in S : \A k \in S : m <= k
  BY <1>1, Least
<1>3. \A j \in S \ {m} : Before(m, j)
  BY <1>1, <1>2, BeforeIsLess
<1> QED
  BY <1>2, <1>3 DEF FirstIn

\* The row a page's cursor names is the last of the page.
LEMMA LastInIsLast ==
  ASSUME SyncTypes, CursorInv, NEW S \in SUBSET DOMAIN log, S # {}
  PROVE  LastIn(S) \in S /\ \A j \in S : j <= LastIn(S)
<1>1. S \subseteq 0..Len(log) /\ Len(log) \in Nat
  BY DEF SyncTypes
<1>2. PICK m \in S : \A k \in S : k <= m
  BY <1>1, Greatest
<1>3. \A j \in S \ {m} : Before(j, m)
  BY <1>1, <1>2, BeforeIsLess
<1>4. LastIn(S) \in S /\ \A j \in S \ {LastIn(S)} : Before(j, LastIn(S))
  BY <1>2, <1>3 DEF LastIn
<1> QED
  BY <1>1, <1>4, BeforeIsLess

\* Past a good position every row comes later than its second.
LEMMA PastMark ==
  ASSUME SyncTypes, CursorInv, NEW s \in Syncs
  PROVE  Changes(DeviceOf[s], sync[s].at) =
           {i \in DOMAIN log : log[i].dev # DeviceOf[s] /\ i > sync[s].at[2]}
<1> DEFINE p == sync[s].at
<1>1. p \in Nat \X Nat /\ Marks(p)
  BY DEF SyncTypes, Call, CursorInv
<1>2. ASSUME NEW i \in DOMAIN log, i > p[2]
      PROVE  log[i].at >= p[1]
  <2>1. log[i] \in LogRow
    BY LogType
  <2>2. CASE p = <<0, 0>>
    BY <2>1, <2>2 DEF LogRow
  <2>3. CASE p[2] \in DOMAIN log /\ p[1] = log[p[2]].at
    <3>1. log[p[2]] \in LogRow /\ i \in Nat /\ p[2] \in Nat
      BY <2>3, LogType
    <3>2. log[p[2]].at <= log[i].at
      BY <1>2, <2>3, <3>1, LogOrdered
    <3> QED
      BY <2>1, <2>3, <3>1, <3>2 DEF LogRow
  <2> QED
    BY <1>1, <2>2, <2>3 DEF Marks
<1> QED
  BY <1>2 DEF Changes

\* A page is not empty unless nothing is left, and leaves nothing out before its last.
LEMMA PageHolds ==
  ASSUME SyncTypes, CursorInv, NEW S \in SUBSET DOMAIN log, S # {}
  PROVE  /\ FirstPage(S) # {}
         /\ \A i \in S, j \in FirstPage(S) : i <= j => i \in FirstPage(S)
<1>1. IsFiniteSet(S) /\ S \subseteq Nat
  BY LogType, FS_Interval, FS_Subset
<1>2. \E i \in S : i \in FirstPage(S)
  <2>1. PICK m \in S : \A k \in S : m <= k
    BY <1>1, Least
  <2> DEFINE M == {j \in S : Before(j, m)}
  <2>2. M = {}
    BY <1>1, <2>1, BeforeIsLess
  <2> HIDE DEF M
  <2>3. Cardinality(M) < Page
    BY <2>2, FS_EmptySet, SyncAssumption
  <2> QED
    BY <2>1, <2>3 DEF FirstPage, M
<1>3. ASSUME NEW i \in S, NEW j \in FirstPage(S), i <= j
      PROVE  i \in FirstPage(S)
  <2> DEFINE I == {k \in S : Before(k, i)}
             J == {k \in S : Before(k, j)}
  <2>1. j \in S /\ Cardinality(J) < Page
    BY DEF FirstPage
  <2>2. I \subseteq J
    BY <1>1, <1>3, <2>1, BeforeIsLess
  <2>3. IsFiniteSet(J) /\ IsFiniteSet(I)
    BY <1>1, FS_Subset
  <2> HIDE DEF I, J
  <2>4. Cardinality(I) <= Cardinality(J) /\ Cardinality(I) \in Nat /\ Cardinality(J) \in Nat
    BY <2>2, <2>3, FS_Subset, FS_CardinalityType
  <2>5. Cardinality(I) < Page
    BY <2>1, <2>4, SyncAssumption
  <2> QED
    BY <2>5 DEF FirstPage, I
<1> QED
  BY <1>2, <1>3

\* What is taken out of an outbox, and what it leaves.
LEMMA WithoutLeaves ==
  ASSUME NEW box \in Seq(Operation), NEW o \in Operation
  PROVE  /\ Without(box, o) \in Seq(Operation)
         /\ \/ Without(box, o) = box /\ \A i \in DOMAIN box : box[i].key # o.key
            \/ \E i \in 1..Len(box) :
                 /\ box[i].key = o.key
                 /\ Len(Without(box, o)) = Len(box) - 1
                 /\ \A k \in 1..(i - 1) : Without(box, o)[k] = box[k]
                 /\ \A k \in i..(Len(box) - 1) : Without(box, o)[k] = box[k + 1]
<1>1. CASE ~\E i \in DOMAIN box : box[i].key = o.key
  BY <1>1 DEF Without
<1>2. CASE \E i \in DOMAIN box : box[i].key = o.key
  <2> DEFINE i == CHOOSE i \in DOMAIN box : box[i].key = o.key
             w == SubSeq(box, 1, i - 1) \o SubSeq(box, i + 1, Len(box))
  <2>1. i \in 1..Len(box) /\ box[i].key = o.key
    BY <1>2
  <2>2. Without(box, o) = w
    BY <1>2 DEF Without
  <2> HIDE DEF i
  <2>3. /\ SubSeq(box, 1, i - 1) \in Seq(Operation) /\ Len(SubSeq(box, 1, i - 1)) = i - 1
        /\ \A k \in 1..(i - 1) : SubSeq(box, 1, i - 1)[k] = box[k]
    BY <2>1
  <2>4. /\ SubSeq(box, i + 1, Len(box)) \in Seq(Operation) /\ Len(SubSeq(box, i + 1, Len(box))) = Len(box) - i
        /\ \A k \in 1..(Len(box) - i) : SubSeq(box, i + 1, Len(box))[k] = box[i + k]
    <3>1. \A k \in (i + 1)..Len(box) : box[k] \in Operation
      BY <2>1
    <3> HIDE DEF w
    <3> QED
      BY <2>1, <3>1, SubSeqProperties
  <2>5. /\ w \in Seq(Operation) /\ Len(w) = Len(box) - 1
        /\ \A k \in 1..(i - 1) : w[k] = box[k]
        /\ \A k \in i..(Len(box) - 1) : w[k] = box[k + 1]
    <3> DEFINE u == SubSeq(box, 1, i - 1)
               v == SubSeq(box, i + 1, Len(box))
    <3>1. u \in Seq(Operation) /\ v \in Seq(Operation) /\ w = u \o v
          /\ Len(u) = i - 1 /\ Len(v) = Len(box) - i /\ Len(box) \in Nat /\ i \in Nat
      BY <2>1, <2>3, <2>4
    <3>2. /\ \A k \in 1..(i - 1) : u[k] = box[k]
          /\ \A k \in 1..(Len(box) - i) : v[k] = box[i + k]
      BY <2>3, <2>4
    <3> HIDE DEF u, v, w
    <3>3. /\ Len(w) = Len(box) - 1 /\ w \in Seq(Operation)
          /\ \A k \in 1..(Len(box) - 1) : w[k] = IF k <= i - 1 THEN u[k] ELSE v[k - (i - 1)]
      <4>1. /\ w \in Seq(Operation) /\ Len(w) = Len(u) + Len(v)
            /\ \A k \in 1..(Len(u) + Len(v)) : w[k] = IF k <= Len(u) THEN u[k] ELSE v[k - Len(u)]
        BY <3>1, ConcatProperties
      <4> QED
        BY <3>1, <4>1
    <3>4. ASSUME NEW k \in 1..(i - 1)
          PROVE  w[k] = box[k]
      BY <2>1, <3>1, <3>2, <3>3
    <3>5. ASSUME NEW k \in i..(Len(box) - 1)
          PROVE  w[k] = box[k + 1]
      <4>1. w[k] = v[k - (i - 1)] /\ k - (i - 1) \in 1..(Len(box) - i)
        BY <2>1, <3>1, <3>3
      <4>2. box[i + (k - (i - 1))] = box[k + 1]
        BY <2>1, <3>1
      <4> QED
        BY <3>1, <3>2, <4>1, <4>2
    <3> QED
      BY <3>3, <3>4, <3>5
  <2> HIDE DEF w
  <2> QED
    BY <2>1, <2>2, <2>5
<1> QED
  BY <1>1, <1>2

\* A batch is the beginning of its outbox.
LEMMA PendingIsPrefix ==
  ASSUME NEW d \in Devices, outbox[d] \in Seq(Operation)
  PROVE  /\ Pending(d) \in Seq(Operation) /\ Len(Pending(d)) <= Len(outbox[d])
         /\ \A i \in DOMAIN Pending(d) : i \in DOMAIN outbox[d] /\ Pending(d)[i] = outbox[d][i]
<1> DEFINE k == IF Len(outbox[d]) < Batch THEN Len(outbox[d]) ELSE Batch
<1>1. k \in 0..Len(outbox[d])
  BY SyncAssumption
<1>2. Pending(d) = SubSeq(outbox[d], 1, k)
  BY DEF Pending
<1> HIDE DEF k
<1> QED
  BY <1>1, <1>2

\* The answer names an entity of the batch: the row taken for it is one of the batch.
LEMMA FirstOfIsOne ==
  ASSUME NEW items \in Seq(Operation), NEW e, \E i \in DOMAIN items : items[i].ent = e
  PROVE  \E i \in DOMAIN items : FirstOf(items, e) = items[i] /\ items[i].ent = e
<1> DEFINE S == {i \in DOMAIN items : items[i].ent = e}
<1>1. S \subseteq Nat /\ S # {}
  OBVIOUS
<1>2. PICK m \in S : \A k \in S : m <= k
  <2> HIDE DEF S
  <2> QED
    BY <1>1, Least
<1>3. Min(S) \in S
  BY <1>2 DEF Min
<1> QED
  BY <1>3 DEF FirstOf

\* An acknowledgement takes an operation of the batch, one that is written or is
\* refused for good.
LEMMA AcknowledgedItem ==
  ASSUME SyncTypes, AckInv, NEW s \in Syncs, Acknowledge(s)
  PROVE  \E i \in DOMAIN sync[s].items :
           /\ FirstOf(sync[s].items, Head(sync[s].ok)) = sync[s].items[i]
           /\ sync[s].items[i] \in Operation
           /\ sync[s].items[i].key \in written \/ Refused(sync[s].items[i])
<1>1. sync[s] \in Call /\ sync[s].ok # <<>> /\ sync[s].pc = "ack"
  BY DEF Acknowledge, SyncTypes
<1>2. sync[s].ok \in Seq(Entities) /\ sync[s].items \in Seq(Operation)
  BY <1>1 DEF Call
<1>3. Head(sync[s].ok) = sync[s].ok[1] /\ 1 \in DOMAIN sync[s].ok
  BY <1>1, <1>2
<1>4. \E i \in DOMAIN sync[s].items : sync[s].items[i].ent = Head(sync[s].ok)
  BY <1>1, <1>3 DEF AckInv, Answered, Names
<1>5. PICK i \in DOMAIN sync[s].items : FirstOf(sync[s].items, Head(sync[s].ok)) = sync[s].items[i]
  BY <1>2, <1>4, FirstOfIsOne
<1>6. sync[s].items[i].key \in written \/ Refused(sync[s].items[i])
  BY <1>1 DEF AckInv, Answered
<1> QED
  BY <1>2, <1>5, <1>6

\* The row a device applies is one of the log.
LEMMA AppliedRow ==
  ASSUME SyncTypes, CursorInv, NEW s \in Syncs, ApplyOne(s)
  PROVE  /\ FirstIn(sync[s].page) \in DOMAIN log
         /\ log[FirstIn(sync[s].page)].ent \in Entities
<1>1. sync[s].page # {} /\ sync[s].page \in SUBSET DOMAIN log
  BY DEF ApplyOne, SyncTypes
<1>2. FirstIn(sync[s].page) \in sync[s].page
  BY <1>1, FirstInIsFirst
<1>3. log[FirstIn(sync[s].page)] \in LogRow
  BY <1>1, <1>2, LogType
<1> QED
  BY <1>1, <1>2, <1>3 DEF LogRow

\* A change of a source aside of the outbox touches the records of one device only,
\* and those of entities that are then aside.
LEMMA AsideIs ==
  ASSUME SyncTypes, NEW d \in Devices, EditSource(d)
  PROVE  /\ UNCHANGED <<row, log, clock, push, outbox, cursor, sync, late, editors, written, acked, seen, overlap>>
         /\ keys' = keys + 1 /\ aside \cap Entities \subseteq aside'
         /\ local' \in [Devices -> [Entities -> Nat]]
         /\ \A c \in Devices, e \in Entities :
              local'[c][e] = local[c][e] \/ (e \in aside' /\ (local'[c][e] # Absent => local[c][e] # Absent))
<1>1. UNCHANGED <<row, log, clock, push, outbox, cursor, sync, late, editors, written, acked, seen, overlap>>
      /\ keys' = keys + 1 /\ local[d][Source] # Absent
  BY DEF EditSource, serverVars
<1>2. local \in [Devices -> [Entities -> Nat]] /\ keys \in Nat /\ Source \in Entities
  BY SyncAssumption DEF SyncTypes
<1>3. CASE local' = [local EXCEPT ![d][Source] = keys + 1] /\ aside' = aside \union {Source}
  <2> DEFINE k == keys + 1
             f == [local[d] EXCEPT ![Source] = k]
  <2>1. f \in [Entities -> Nat] /\ \A e \in Entities : f[e] = IF e = Source THEN k ELSE local[d][e]
    BY <1>2
  <2>2. local' = [local EXCEPT ![d] = f]
    BY <1>2, <1>3
  <2> HIDE DEF k, f
  <2>3. local' \in [Devices -> [Entities -> Nat]] /\ \A c \in Devices : local'[c] = IF c = d THEN f ELSE local[c]
    BY <1>2, <2>1, <2>2
  <2>4. ASSUME NEW c \in Devices, NEW e \in Entities
        PROVE  local'[c][e] = local[c][e] \/ (e \in aside' /\ (local'[c][e] # Absent => local[c][e] # Absent))
    BY <1>1, <1>3, <2>1, <2>3
  <2> QED
    BY <1>1, <1>3, <2>3, <2>4
<1>4. CASE local' = [local EXCEPT ![d] = [e \in Entities |-> Absent]] /\ aside' = Entities
  BY <1>1, <1>2, <1>4 DEF Absent
<1> QED
  BY <1>1, <1>3, <1>4 DEF EditSource

\* A row tells the last edit that wrote it, whole or in part.
LEMMA LastEditIs ==
  /\ MaxKeys \in Nat /\ LastEdit(Absent) = Absent
  /\ \A k \in 1..MaxKeys : /\ Mixed(k) \in Nat /\ Mixed(k) # Absent /\ k # Absent
                          /\ LastEdit(Mixed(k)) = k /\ LastEdit(k) = k
BY SyncAssumption DEF LastEdit, Mixed, Absent


\* Every step of a client or of the server keeps the types.
LEMMA SyncTypesStep ==
  ASSUME SyncTypes, CursorInv, AckInv, SyncNext
  PROVE  SyncTypes'
<1> DEFINE ServerOK == row \in [Entities -> Nat] /\ log \in Seq(LogRow) /\ clock \in Nat
           PushOK == push \in Transaction \union {NoOne}
           DeviceOK == local \in [Devices -> [Entities -> Nat]] /\ outbox \in [Devices -> Seq(Operation)]
                       /\ cursor \in [Devices -> Nat \X Nat] /\ keys \in Nat
           SyncOK == sync \in [Syncs -> Call]
           PagesOK == \A s \in Syncs : sync[s].page \subseteq DOMAIN log
           LateOK == late \subseteq [dev : Devices, items : Seq(Operation)]
           HistoryOK == written \subseteq Nat /\ seen \in [Devices -> SUBSET Nat]
                        /\ editors \in [Entities -> SUBSET Devices]
<1>1. ServerOK /\ PushOK /\ DeviceOK /\ SyncOK /\ PagesOK /\ LateOK /\ HistoryOK
  BY DEF SyncTypes
<1>2. SUFFICES ServerOK' /\ PushOK' /\ DeviceOK' /\ SyncOK' /\ PagesOK' /\ LateOK' /\ HistoryOK'
  BY DEF SyncTypes
<1>3. IdleSync \in Call /\ IdleSync.page = {}
  BY DEF IdleSync, Call
<1>4. /\ UNCHANGED <<row, log, clock>> => ServerOK'
      /\ UNCHANGED push => PushOK'
      /\ UNCHANGED <<local, outbox, cursor, keys>> => DeviceOK'
      /\ UNCHANGED sync => SyncOK'
      /\ UNCHANGED <<sync, log>> => PagesOK'
      /\ UNCHANGED late => LateOK'
      /\ UNCHANGED <<written, seen, editors>> => HistoryOK'
  BY <1>1
<1>5. ASSUME NEW s \in Syncs, NEW v \in Call, sync' = [sync EXCEPT ![s] = v], UNCHANGED log,
             v.page \subseteq DOMAIN log
      PROVE  SyncOK' /\ PagesOK'
  <2>1. SyncOK'
    BY <1>1, <1>5
  <2>2. ASSUME NEW t \in Syncs
        PROVE  sync'[t].page \subseteq DOMAIN log
    BY <1>1, <1>5
  <2> QED
    BY <1>5, <2>1, <2>2
<1>6. ASSUME NEW d \in Devices, NEW e \in Entities, NEW op \in {"create", "update", "delete"}, Enqueue(d, e, op)
      PROVE  keys' \in Nat /\ outbox' \in [Devices -> Seq(Operation)]
  <2>1. [key |-> keys + 1, ent |-> e, op |-> op] \in Operation /\ keys' \in Nat
    BY <1>1, <1>6, SyncAssumption DEF Enqueue, Operation
  <2> HIDE DEF SyncOK, PagesOK
  <2> DEFINE o == [key |-> keys + 1, ent |-> e, op |-> op]
  <2>2. Append(outbox[d], o) \in Seq(Operation)
    BY <1>1, <2>1
  <2>3. outbox' = [outbox EXCEPT ![d] = Append(outbox[d], o)]
    BY <1>1, <1>6 DEF Enqueue
  <2> HIDE DEF o
  <2> QED
    BY <1>1, <2>1, <2>2, <2>3
<1>7. ASSUME NEW d \in Devices, NEW e \in Entities, NEW op \in {"create", "update", "delete"}, Edit(d, e, op)
      PROVE  ServerOK' /\ PushOK' /\ DeviceOK' /\ SyncOK' /\ PagesOK' /\ LateOK' /\ HistoryOK'
  <2>1. Enqueue(d, e, op) /\ UNCHANGED <<row, log, clock, push, cursor, sync, late, written, seen>>
    BY <1>7 DEF Edit, serverVars
  <2>2. local' \in [Devices -> [Entities -> Nat]]
    <3> DEFINE v == IF op = "delete" THEN Absent ELSE keys + 1
    <3>1. v \in Nat
      BY <1>1 DEF Absent
    <3>2. local' = [local EXCEPT ![d] = [local[d] EXCEPT ![e] = v]]
      BY <1>1, <1>7 DEF Edit
    <3> HIDE DEF v
    <3> QED
      BY <1>1, <3>1, <3>2
  <2>3. editors' \in [Entities -> SUBSET Devices]
    BY <1>1, <1>7 DEF Edit
  <2>4. keys' \in Nat /\ outbox' \in [Devices -> Seq(Operation)]
    BY <1>6, <2>1
  <2>5. DeviceOK'
    BY <1>1, <2>1, <2>2, <2>4
  <2>6. HistoryOK'
    BY <1>1, <2>1, <2>3
  <2> QED
    BY <1>4, <2>1, <2>5, <2>6
<1>8. ASSUME NEW s \in Syncs, StartSync(s)
      PROVE  ServerOK' /\ PushOK' /\ DeviceOK' /\ SyncOK' /\ PagesOK' /\ LateOK' /\ HistoryOK'
  <2> DEFINE d == DeviceOf[s]
             pc == IF outbox[d] = <<>> THEN "pull" ELSE "push"
             v == [pc |-> pc, items |-> Pending(d), ok |-> <<>>, at |-> cursor[d], page |-> {}, next |-> <<0, 0>>,
                   more |-> FALSE]
  <2>1. d \in Devices /\ pc \in {"pull", "push"}
    BY SyncAssumption
  <2>2. Pending(d) \in Seq(Operation)
    <3> DEFINE k == IF Len(outbox[d]) < Batch THEN Len(outbox[d]) ELSE Batch
    <3>1. outbox[d] \in Seq(Operation)
      BY <1>1, <2>1
    <3> HIDE DEF d, pc, v
    <3>2. k \in 0..Len(outbox[d])
      BY <3>1, SyncAssumption
    <3> HIDE DEF k
    <3>3. SubSeq(outbox[d], 1, k) \in Seq(Operation)
      BY <3>1, <3>2
    <3> QED
      BY <3>3 DEF Pending, k
  <2>3. sync' = [sync EXCEPT ![s] = v]
    BY <1>8 DEF StartSync
  <2>4. cursor[d] \in Nat \X Nat
    BY <1>1, <2>1
  <2> HIDE DEF pc, d
  <2>5. v \in Call /\ v.page = {}
    BY <2>1, <2>2, <2>4 DEF Call
  <2> HIDE DEF v
  <2>6. UNCHANGED <<row, log, clock, push, local, outbox, cursor, late, keys, written, seen, editors>>
    BY <1>8 DEF StartSync, serverVars, deviceVars
  <2> QED
    BY <1>4, <1>5, <2>3, <2>5, <2>6
<1>9. ASSUME NEW s \in Syncs, Acknowledge(s)
      PROVE  ServerOK' /\ PushOK' /\ DeviceOK' /\ SyncOK' /\ PagesOK' /\ LateOK' /\ HistoryOK'
  <2> DEFINE d == DeviceOf[s]
             item == FirstOf(sync[s].items, Head(sync[s].ok))
             v == [sync[s] EXCEPT !.ok = Tail(sync[s].ok)]
  <2>1. UNCHANGED <<row, log, clock, push, local, cursor, keys, late, written, seen, editors>>
    BY <1>9 DEF Acknowledge, serverVars
  <2>2. sync[s] \in Call /\ sync[s].ok # <<>> /\ d \in Devices
    BY <1>1, <1>9, SyncAssumption DEF Acknowledge
  <2>3. sync[s].ok \in Seq(Entities) /\ sync[s].items \in Seq(Operation)
    BY <2>2 DEF Call
  <2>4. Tail(sync[s].ok) \in Seq(Entities)
    BY <2>2, <2>3
  <2>5. v \in Call /\ v.page = sync[s].page
    BY <2>2, <2>4 DEF Call
  <2>6. sync' = [sync EXCEPT ![s] = v]
    BY <1>1, <1>9 DEF Acknowledge
  <2> HIDE DEF v
  <2>7. SyncOK' /\ PagesOK'
    BY <1>1, <1>5, <2>1, <2>5, <2>6
  <2>8. outbox' \in [Devices -> Seq(Operation)]
    <3>1. item \in Operation
      BY <1>9, AcknowledgedItem
    <3>2. outbox' = [outbox EXCEPT ![d] = Without(outbox[d], item)]
      BY <1>1, <1>9, <2>2 DEF Acknowledge
    <3> HIDE DEF item, d
    <3>3. Without(outbox[d], item) \in Seq(Operation)
      BY <1>1, <2>2, <3>1, WithoutLeaves
    <3> QED
      BY <1>1, <3>2, <3>3
  <2> QED
    BY <1>1, <1>4, <2>1, <2>7, <2>8
<1>10. ASSUME NEW s \in Syncs, EndPush(s)
       PROVE  ServerOK' /\ PushOK' /\ DeviceOK' /\ SyncOK' /\ PagesOK' /\ LateOK' /\ HistoryOK'
  <2> DEFINE v == [sync[s] EXCEPT !.pc = "pull", !.at = cursor[DeviceOf[s]]]
  <2>1. UNCHANGED <<row, log, clock, push, local, outbox, cursor, keys, late, written, seen, editors>>
    BY <1>10 DEF EndPush, serverVars, deviceVars, syncHistory
  <2>2. sync[s] \in Call /\ cursor[DeviceOf[s]] \in Nat \X Nat
    BY <1>1, SyncAssumption
  <2>3. v \in Call /\ v.page = sync[s].page
    BY <2>2 DEF Call
  <2>4. sync' = [sync EXCEPT ![s] = v]
    BY <1>1, <1>10 DEF EndPush
  <2> HIDE DEF v
  <2>5. SyncOK' /\ PagesOK'
    BY <1>1, <1>5, <2>1, <2>3, <2>4
  <2> QED
    BY <1>4, <2>1, <2>5
<1>11. ASSUME NEW s \in Syncs, ApplyOne(s)
       PROVE  ServerOK' /\ PushOK' /\ DeviceOK' /\ SyncOK' /\ PagesOK' /\ LateOK' /\ HistoryOK'
  <2> DEFINE d == DeviceOf[s]
             i == FirstIn(sync[s].page)
             v == [sync[s] EXCEPT !.page = sync[s].page \ {i}]
  <2>1. UNCHANGED <<row, log, clock, push, cursor, late, written, editors>>
    BY <1>11 DEF ApplyOne, serverVars
  <2>2. sync[s] \in Call /\ d \in Devices /\ sync[s].page # {} /\ sync[s].page \subseteq DOMAIN log
    BY <1>1, <1>11, SyncAssumption DEF ApplyOne
  <2>3. i \in sync[s].page
    BY <2>2, FirstInIsFirst
  <2>4. log[i] \in LogRow /\ i \in Nat
    BY <1>1, <2>2, <2>3
  <2>5. log[i].ent \in Entities /\ log[i].key \in Nat
    BY <2>4 DEF LogRow
  <2> HIDE DEF i, d
  <2>6. v \in Call /\ v.page \subseteq sync[s].page
    <3>1. sync[s].page \ {i} \in SUBSET Nat
      BY <2>2 DEF Call
    <3> QED
      BY <2>2, <3>1 DEF Call
  <2>7. sync' = [sync EXCEPT ![s] = v]
    BY <1>1, <1>11 DEF ApplyOne, i
  <2> HIDE DEF v
  <2>8. SyncOK' /\ PagesOK'
    BY <1>1, <1>5, <2>1, <2>2, <2>6, <2>7
  <2>9. seen' \in [Devices -> SUBSET Nat]
    <3>1. seen' = [seen EXCEPT ![d] = seen[d] \union {i}]
      BY <1>1, <1>11, <2>2 DEF ApplyOne, i, d
    <3> QED
      BY <1>1, <2>2, <2>4, <3>1
  <2>10. local' \in [Devices -> [Entities -> Nat]] /\ outbox' \in [Devices -> Seq(Operation)] /\ keys' \in Nat
    <3>1. CASE log[i].op # "delete"
      <4>1. local' = [local EXCEPT ![d][log[i].ent] = log[i].key] /\ UNCHANGED <<outbox, keys>>
        BY <1>11, <3>1 DEF ApplyOne, i, d
      <4> QED
        BY <1>1, <2>2, <2>5, <4>1
    <3>2. CASE log[i].op = "delete"
      <4>1. local' = [local EXCEPT ![d][log[i].ent] = Absent] /\ Enqueue(d, log[i].ent, "delete")
        BY <1>11, <3>2 DEF ApplyOne, i, d
      <4>2. local' \in [Devices -> [Entities -> Nat]]
        BY <1>1, <2>2, <2>5, <4>1 DEF Absent
      <4> QED
        BY <1>6, <2>2, <2>5, <4>1, <4>2
    <3> QED
      BY <3>1, <3>2
  <2> QED
    BY <1>1, <1>4, <2>1, <2>8, <2>9, <2>10
<1>12. ASSUME NEW s \in Syncs, AdvanceCursor(s)
       PROVE  ServerOK' /\ PushOK' /\ DeviceOK' /\ SyncOK' /\ PagesOK' /\ LateOK' /\ HistoryOK'
  <2> DEFINE v == IF sync[s].more THEN [sync[s] EXCEPT !.pc = "pull", !.at = sync[s].next] ELSE IdleSync
  <2>1. UNCHANGED <<row, log, clock, push, local, outbox, keys, late, written, seen, editors>>
    BY <1>12 DEF AdvanceCursor, serverVars, syncHistory
  <2>2. sync[s] \in Call /\ sync[s].next \in Nat \X Nat
    BY <1>1 DEF Call
  <2>3. v \in Call /\ (v.page = {} \/ v.page = sync[s].page)
    BY <1>3, <2>2 DEF Call
  <2>4. sync' = [sync EXCEPT ![s] = v]
    BY <1>1, <1>12 DEF AdvanceCursor
  <2> HIDE DEF v
  <2>5. SyncOK' /\ PagesOK'
    BY <1>1, <1>5, <2>1, <2>3, <2>4
  <2>6. cursor' \in [Devices -> Nat \X Nat]
    BY <1>1, <1>12, <2>2 DEF AdvanceCursor
  <2> QED
    BY <1>1, <1>4, <2>1, <2>5, <2>6
<1>13. ASSUME NEW s \in Syncs, Abandon(s)
       PROVE  ServerOK' /\ PushOK' /\ DeviceOK' /\ SyncOK' /\ PagesOK' /\ LateOK' /\ HistoryOK'
  <2>1. UNCHANGED <<row, log, clock, local, outbox, cursor, keys, written, seen, editors>>
    BY <1>13 DEF Abandon, deviceVars, syncHistory
  <2>2. sync' = [sync EXCEPT ![s] = IdleSync]
    BY <1>13 DEF Abandon
  <2>3. SyncOK' /\ PagesOK'
    BY <1>1, <1>3, <1>5, <2>1, <2>2
  <2>4. LateOK'
    <3>1. [dev |-> DeviceOf[s], items |-> sync[s].items] \in [dev : Devices, items : Seq(Operation)]
      BY <1>1, SyncAssumption DEF Call
    <3> QED
      BY <1>1, <1>13, <3>1 DEF Abandon
  <2>5. PushOK'
    <3>1. CASE push.from = s
      <4>1. push \in Transaction
        BY <1>1, <3>1, SyncAssumption DEF NoOne
      <4>2. push' = [push EXCEPT !.from = "gone"]
        BY <1>13, <3>1 DEF Abandon
      <4> QED
        BY <4>1, <4>2 DEF Transaction
    <3>2. CASE push.from # s
      BY <1>1, <1>13, <3>2 DEF Abandon
    <3> QED
      BY <3>1, <3>2
  <2> QED
    BY <1>4, <2>1, <2>3, <2>4, <2>5
<1>14. ASSUME NEW from \in Syncs \union {"gone"}, NEW d \in Devices, NEW items \in Seq(Operation),
              BeginPush(from, d, items)
       PROVE  PushOK'
  BY <1>1, <1>14 DEF BeginPush, Transaction
<1>15. ASSUME NEW s \in Syncs, ReceivePush(s)
       PROVE  ServerOK' /\ PushOK' /\ DeviceOK' /\ SyncOK' /\ PagesOK' /\ LateOK' /\ HistoryOK'
  <2>1. DeviceOf[s] \in Devices /\ sync[s].items \in Seq(Operation) /\ s \in Syncs \union {"gone"}
    BY <1>1, SyncAssumption DEF Call
  <2>2. PushOK'
    BY <1>14, <1>15, <2>1 DEF ReceivePush
  <2> QED
    BY <1>4, <1>15, <2>2 DEF ReceivePush, deviceVars, syncHistory
<1>16. ASSUME NEW m \in late, ReceiveLate(m)
       PROVE  ServerOK' /\ PushOK' /\ DeviceOK' /\ SyncOK' /\ PagesOK' /\ LateOK' /\ HistoryOK'
  <2>1. m.dev \in Devices /\ m.items \in Seq(Operation)
    BY <1>1
  <2>2. PushOK'
    BY <1>14, <1>16, <2>1 DEF ReceiveLate
  <2>3. LateOK'
    BY <1>1, <1>16 DEF ReceiveLate
  <2> QED
    BY <1>4, <1>16, <2>2, <2>3 DEF ReceiveLate, deviceVars, syncHistory
<1>17. CASE ApplyOperation
  <2>1. UNCHANGED <<row, log, local, outbox, cursor, sync, late, keys, written, seen, editors>>
    BY <1>17 DEF ApplyOperation, deviceVars, syncHistory
  <2>2. push \in Transaction /\ Head(push.todo) \in Operation /\ Tail(push.todo) \in Seq(Operation)
    BY <1>1, <1>17 DEF ApplyOperation, Transaction
  <2> DEFINE o == Head(push.todo)
  <2>3. o.key \in Nat /\ o.ent \in Entities /\ o.op \in {"create", "update", "delete"}
    BY <2>2, SyncAssumption DEF Operation
  <2> HIDE DEF o
  <2>4. CASE ~Accepts(push.row, o)
    <3>1. push' = [push EXCEPT !.todo = Tail(push.todo)] /\ clock' = clock
      BY <1>17, <2>4 DEF ApplyOperation, o
    <3>2. PushOK'
      BY <2>2, <3>1 DEF Transaction
    <3> QED
      BY <1>4, <2>1, <3>1, <3>2
  <2>5. CASE Accepts(push.row, o)
    <3>1. clock' \in Nat
      BY <1>1, <1>17, <2>5 DEF ApplyOperation, o
    <3> DEFINE todo == Tail(push.todo)
               rows == Wrote(push.row, o)
               ok == Append(push.ok, o.ent)
               entries == Append(push.log, Entry(push.dev, o, clock'))
               ks == push.keys \union {o.key}
    <3>2. push' = [push EXCEPT !.todo = todo, !.row = rows, !.ok = ok, !.log = entries, !.keys = ks]
      BY <1>17, <2>5 DEF ApplyOperation, o
    <3>3. rows \in [Entities -> Nat]
      <4>1. o.key \in 1..MaxKeys
        BY <2>2, SyncAssumption DEF Operation, o
      <4> QED
        BY <2>2, <2>3, <4>1, LastEditIs DEF Wrote, Transaction, Absent
    <3>4. ok \in Seq(Entities) /\ ks \in SUBSET Nat /\ todo \in Seq(Operation)
      BY <2>2, <2>3 DEF Transaction
    <3>5. entries \in Seq(LogRow)
      <4>1. Entry(push.dev, o, clock') \in LogRow
        BY <2>2, <2>3, <3>1 DEF Transaction, Entry, LogRow
      <4> QED
        BY <2>2, <4>1 DEF Transaction
    <3> HIDE DEF todo, rows, ok, entries, ks
    <3>6. PushOK'
      BY <2>2, <3>2, <3>3, <3>4, <3>5 DEF Transaction
    <3> QED
      BY <1>1, <1>4, <2>1, <3>1, <3>6
  <2> QED
    BY <2>4, <2>5
<1>18. CASE CommitPush
  <2>1. UNCHANGED <<clock, local, outbox, cursor, late, keys, seen, editors>> /\ push' = NoOne
    BY <1>18 DEF CommitPush, deviceVars
  <2>2. push \in Transaction /\ row' = push.row /\ log' = push.log /\ written' = written \union push.keys
    BY <1>1, <1>18 DEF CommitPush
  <2>3. ServerOK' /\ HistoryOK'
    BY <1>1, <2>1, <2>2 DEF Transaction
  <2>4. DOMAIN log \subseteq DOMAIN log'
    <3>1. Log = push.log
      BY <1>18 DEF CommitPush, Log
    <3> QED
      BY <2>2, <3>1, LogType DEF CursorInv
  <2>5. SyncOK' /\ PagesOK'
    <3>1. CASE push.from \in Syncs
      <4> DEFINE s == push.from
                 v == [sync[s] EXCEPT !.pc = "ack", !.ok = push.ok]
      <4>1. sync[s] \in Call /\ push.ok \in Seq(Entities)
        BY <1>1, <2>2, <3>1 DEF Transaction
      <4>2. v \in Call /\ v.page = sync[s].page
        BY <4>1 DEF Call
      <4>3. sync' = [sync EXCEPT ![s] = v]
        BY <1>1, <1>18, <3>1 DEF CommitPush
      <4> HIDE DEF v
      <4> QED
        BY <1>1, <2>4, <3>1, <4>2, <4>3
    <3>2. CASE push.from \notin Syncs
      <4>1. sync' = sync
        BY <1>18, <3>2 DEF CommitPush
      <4> QED
        BY <1>1, <2>4, <4>1
    <3> QED
      BY <3>1, <3>2
  <2> QED
    BY <1>1, <1>4, <2>1, <2>3, <2>5
<1>19. CASE RollbackPush
  <2>1. UNCHANGED <<row, log, clock, local, outbox, cursor, late, keys, seen, written, editors>> /\ push' = NoOne
    BY <1>19 DEF RollbackPush, deviceVars, syncHistory
  <2>2. SyncOK' /\ PagesOK'
    <3>1. CASE push.from \in Syncs
      BY <1>3, <1>5, <1>19, <2>1, <3>1 DEF RollbackPush
    <3>2. CASE push.from \notin Syncs
      BY <1>1, <1>19, <2>1, <3>2 DEF RollbackPush
    <3> QED
      BY <3>1, <3>2
  <2> QED
    BY <1>4, <2>1, <2>2
<1>20. ASSUME NEW s \in Syncs, PullPage(s)
       PROVE  ServerOK' /\ PushOK' /\ DeviceOK' /\ SyncOK' /\ PagesOK' /\ LateOK' /\ HistoryOK'
  <2>1. UNCHANGED <<row, log, clock, push, local, outbox, cursor, late, keys, seen, written, editors>>
    BY <1>20 DEF PullPage, serverVars, deviceVars, syncHistory
  <2> DEFINE all == Changes(DeviceOf[s], sync[s].at)
             page == FirstPage(all)
             last == LastIn(page)
  <2>2. page \subseteq DOMAIN log /\ page \subseteq all
    BY DEF Changes, FirstPage
  <2>3. CASE all = {}
    <3>1. sync' = [sync EXCEPT ![s] = IdleSync]
      BY <1>20, <2>3 DEF PullPage
    <3> QED
      BY <1>3, <1>4, <1>5, <2>1, <3>1
  <2>4. CASE all # {}
    <3>1. last \in page
      <4>1. page # {}
        <5>1. all \in SUBSET DOMAIN log
          BY DEF Changes
        <5> HIDE DEF all
        <5> QED
          BY <2>4, <5>1, PageHolds
      <4> HIDE DEF page
      <4> QED
        BY <2>2, <4>1, LastInIsLast
    <3>2. log[last] \in LogRow /\ last \in Nat /\ page \in SUBSET Nat
      BY <1>1, <2>2, <3>1
    <3> HIDE DEF all, page, last
    <3> DEFINE next == <<log[last].at, last>>
               more == all # page
               v == [sync[s] EXCEPT !.pc = "apply", !.page = page, !.more = more, !.next = next]
    <3>3. next \in Nat \X Nat /\ more \in BOOLEAN
      BY <3>2 DEF LogRow
    <3>4. sync' = [sync EXCEPT ![s] = v]
      BY <1>1, <1>20, <2>4 DEF PullPage, all, page, last
    <3>5. sync[s] \in Call
      BY <1>1
    <3> HIDE DEF next, more
    <3>6. v \in Call /\ v.page = page
      BY <3>2, <3>3, <3>5 DEF Call
    <3> HIDE DEF v
    <3> QED
      BY <1>4, <1>5, <2>1, <2>2, <3>4, <3>6
  <2> QED
    BY <2>3, <2>4
<1>21. ASSUME NEW d \in Devices, EditSource(d)
       PROVE  ServerOK' /\ PushOK' /\ DeviceOK' /\ SyncOK' /\ PagesOK' /\ LateOK' /\ HistoryOK'
  <2>1. UNCHANGED <<row, log, clock, push, outbox, cursor, sync, late, written, seen, editors>>
        /\ local' \in [Devices -> [Entities -> Nat]] /\ keys' = keys + 1
    BY <1>21, AsideIs
  <2>2. DeviceOK'
    BY <1>1, <2>1
  <2> QED
    BY <1>4, <2>1, <2>2
<1> QED
  BY <1>7, <1>8, <1>9, <1>10, <1>11, <1>12, <1>13, <1>15, <1>16, <1>17, <1>18, <1>19, <1>20, <1>21 DEF SyncNext

\* Positions and what they cover survive a longer log.
LEMMA MarksSurvive ==
  ASSUME SyncTypes, SyncTypes', Len(log) <= Len(log'), \A i \in DOMAIN log : log'[i] = log[i],
         NEW p \in Nat \X Nat, Marks(p)
  PROVE  /\ Marks(p)'
         /\ \A i \in DOMAIN log' : i <= p[2] => i \in DOMAIN log
<1>1. log \in Seq(LogRow) /\ log' \in Seq(LogRow)
  BY DEF SyncTypes
<1>2. DOMAIN log \subseteq DOMAIN log' /\ Len(log) \in Nat /\ Len(log') \in Nat
      /\ DOMAIN log = 1..Len(log) /\ DOMAIN log' = 1..Len(log')
  BY <1>1
<1>3. CASE p = <<0, 0>>
  BY <1>2, <1>3 DEF Marks
<1>4. CASE p[2] \in DOMAIN log /\ p[1] = log[p[2]].at
  BY <1>2, <1>4 DEF Marks
<1> QED
  BY <1>3, <1>4 DEF Marks

\* The log of a transaction goes on from the committed one, in order.
LEMMA LogStep ==
  ASSUME SyncTypes, SyncTypes', CursorInv, SyncNext
  PROVE  /\ Ordered(Log)'
         /\ Len(log)' <= Len(Log)' /\ (\A i \in DOMAIN log : log[i] = Log[i])'
         /\ Len(log) <= Len(log') /\ \A i \in DOMAIN log : log'[i] = log[i]
<1> DEFINE Follows == Ordered(Log) /\ Len(log) <= Len(Log) /\ \A i \in DOMAIN log : log[i] = Log[i]
           Extends == Len(log) <= Len(log') /\ \A i \in DOMAIN log : log'[i] = log[i]
<1>1. Follows /\ Len(log) \in Nat /\ Len(Log) \in Nat
  BY LogType DEF CursorInv
<1>2. SUFFICES Follows' /\ Extends
  OBVIOUS
<1>3. CASE UNCHANGED <<log, Log, clock>>
  BY <1>1, <1>3 DEF Ordered
<1>4. CASE UNCHANGED <<log, push, clock>>
  BY <1>3, <1>4 DEF Log
<1>5. ASSUME NEW from, NEW d, NEW items, BeginPush(from, d, items), UNCHANGED <<log, clock>>, push' \in Transaction
      PROVE  Follows' /\ Extends
  <2>1. push' # NoOne
    BY <1>5, SyncAssumption DEF Transaction, NoOne
  <2>2. Log' = Log
    BY <1>5, <2>1 DEF BeginPush, Log
  <2> QED
    BY <1>3, <1>5, <2>2
<1>6. ASSUME NEW s \in Syncs, Abandon(s)
      PROVE  Follows' /\ Extends
  <2>1. Log' = Log
    <3>1. CASE push.from # s
      <4>1. push' = push /\ log' = log
        BY <1>6, <3>1 DEF Abandon
      <4> QED
        BY <4>1 DEF Log
    <3>2. CASE push.from = s
      <4>1. push \in Transaction
        <5>1. push \in Transaction \union {NoOne}
          BY DEF SyncTypes
        <5>2. NoOne.from = "nobody"
          BY DEF NoOne
        <5> QED
          BY <3>2, <5>1, <5>2, SyncAssumption
      <4>2. push' = [push EXCEPT !.from = "gone"]
        BY <1>6, <3>2 DEF Abandon
      <4>3. push # NoOne /\ push' # NoOne /\ push'.log = push.log
        BY <3>2, <4>1, <4>2, SyncAssumption DEF Transaction, NoOne
      <4> QED
        BY <4>3 DEF Log
    <3> QED
      BY <3>1, <3>2
  <2> QED
    BY <1>3, <1>6, <2>1 DEF Abandon
<1>7. CASE CommitPush
  <2>1. push # NoOne /\ push' = NoOne /\ log' = push.log /\ clock' = clock
    BY <1>7 DEF CommitPush
  <2>2. Log' = log' /\ log' = Log
    BY <2>1 DEF Log
  <2> QED
    BY <1>1, <2>1, <2>2 DEF Ordered
<1>8. CASE RollbackPush
  <2>1. log' = log /\ Log' = log /\ clock' = clock
    BY <1>8 DEF RollbackPush, Log
  <2>2. Ordered(log)
    <3>1. DOMAIN log \subseteq DOMAIN Log
      BY <1>1, LogType
    <3> QED
      BY <1>1, <3>1 DEF Ordered
  <2> QED
    BY <1>1, <2>1, <2>2 DEF Ordered
<1>9. CASE ApplyOperation
  <2>1. push \in Transaction /\ push # NoOne /\ log' = log
    BY <1>9 DEF ApplyOperation, SyncTypes
  <2> DEFINE o == Head(push.todo)
  <2>2. CASE ~Accepts(push.row, o)
    <3>1. push' = [push EXCEPT !.todo = Tail(push.todo)] /\ clock' = clock
      BY <1>9, <2>2 DEF ApplyOperation
    <3>2. push'.log = push.log /\ push'.from = push.from /\ push.from # "nobody"
      BY <2>1, <3>1, SyncAssumption DEF Transaction
    <3>3. push' # NoOne
      BY <3>2 DEF NoOne
    <3> QED
      BY <1>3, <2>1, <3>1, <3>2, <3>3 DEF Log
  <2>3. CASE Accepts(push.row, o)
    <3> DEFINE x == Entry(push.dev, o, clock')
    <3>1. /\ clock' >= clock /\ clock \in Nat /\ clock' \in Nat
          /\ push'.log = Append(push.log, x) /\ push'.from = push.from
      <4>1. clock' \in {clock, clock + 1} /\ clock \in Nat
        BY <1>9, <2>3 DEF ApplyOperation, SyncTypes
      <4>2. push' = [push EXCEPT !.todo = Tail(push.todo), !.row = Wrote(push.row, o), !.ok = Append(push.ok, o.ent),
                       !.log = Append(push.log, x), !.keys = push.keys \union {o.key}]
        BY <1>9, <2>3 DEF ApplyOperation
      <4> HIDE DEF x
      <4>3. push'.log = Append(push.log, x) /\ push'.from = push.from
        BY <2>1, <4>2 DEF Transaction
      <4> QED
        BY <4>1, <4>3
    <3>2. push' # NoOne
      BY <2>1, <3>1, SyncAssumption DEF Transaction, NoOne
    <3>3. Log = push.log /\ Log' = Append(Log, x) /\ x.at = clock'
      BY <2>1, <3>1, <3>2 DEF Log, Entry
    <3>4. Log' \in Seq(LogRow) /\ Log \in Seq(LogRow) /\ x \in LogRow
      <4>1. Log' \in Seq(LogRow) /\ Log \in Seq(LogRow)
        <5>1. (SyncTypes => Log \in Seq(LogRow) /\ log \in Seq(LogRow))'
          BY LogType, PTL
        <5> QED
          BY <5>1, LogType
      <4>2. o \in Operation /\ push.dev \in Devices
        BY <1>9, <2>1 DEF ApplyOperation, Transaction
      <4> HIDE DEF o
      <4>3. o.key \in Nat /\ o.ent \in Entities /\ o.op \in {"create", "update", "delete"}
        BY <4>2, SyncAssumption DEF Operation
      <4> QED
        BY <3>1, <4>1, <4>2, <4>3 DEF Entry, LogRow
    <3> HIDE DEF x
    <3>5. /\ Len(Log') = Len(Log) + 1 /\ Log'[Len(Log) + 1] = x
          /\ \A i \in 1..Len(Log) : Log'[i] = Log[i]
      BY <3>3, <3>4
    <3>6. \A i \in 1..Len(Log) : Log[i].at \in Nat /\ Log[i].at <= clock
      <4>1. DOMAIN Log = 1..Len(Log) /\ \A i \in 1..Len(Log) : Log[i] \in LogRow
        BY <3>4
      <4> QED
        BY <1>1, <4>1 DEF Ordered, LogRow
    <3>7. Ordered(Log)'
      <4>1. ASSUME NEW i \in 1..(Len(Log) + 1)
            PROVE  Log'[i].at <= clock'
        <5>1. Len(Log) \in Nat /\ clock \in Nat /\ clock' \in Nat /\ clock <= clock'
          BY <1>1, <3>1, SyncAssumption DEF SyncTypes
        <5>2. CASE i = Len(Log) + 1
          BY <3>3, <3>5, <5>1, <5>2
        <5>3. CASE i \in 1..Len(Log)
          BY <3>5, <3>6, <5>1, <5>3
        <5> QED
          BY <5>1, <5>2, <5>3
      <4>2. ASSUME NEW i \in 1..(Len(Log) + 1), NEW j \in 1..(Len(Log) + 1), i <= j
            PROVE  Log'[i].at <= Log'[j].at
        <5>1. CASE j = Len(Log) + 1
          BY <1>1, <3>3, <3>5, <4>1, <5>1
        <5>2. CASE j # Len(Log) + 1
          BY <1>1, <3>4, <3>5, <4>2, <5>2 DEF Ordered
        <5> QED
          BY <5>1, <5>2
      <4> QED
        BY <3>4, <3>5, <4>1, <4>2 DEF Ordered
    <3> QED
      BY <1>1, <2>1, <3>4, <3>5, <3>7, LogType
  <2> QED
    BY <2>2, <2>3
<1>10. ASSUME NEW s \in Syncs, ReceivePush(s)
       PROVE  Follows' /\ Extends
  <2>1. push' \in Transaction
    BY <1>10, SyncAssumption DEF ReceivePush, BeginPush, SyncTypes, NoOne
  <2> QED
    BY <1>5, <1>10, <2>1 DEF ReceivePush
<1>11. ASSUME NEW m \in late, ReceiveLate(m)
       PROVE  Follows' /\ Extends
  <2>1. push' \in Transaction
    BY <1>11, SyncAssumption DEF ReceiveLate, BeginPush, SyncTypes, NoOne
  <2> QED
    BY <1>5, <1>11, <2>1 DEF ReceiveLate
<1>12. ASSUME NEW s \in Syncs, StartSync(s) \/ Acknowledge(s) \/ EndPush(s) \/ ApplyOne(s) \/ AdvanceCursor(s) \/ PullPage(s)
       PROVE  UNCHANGED <<log, push, clock>>
  BY <1>12 DEF StartSync, Acknowledge, EndPush, ApplyOne, AdvanceCursor, PullPage, serverVars
<1>13. ASSUME NEW d \in Devices, NEW e \in Entities, NEW op \in {"create", "update", "delete"}, Edit(d, e, op)
       PROVE  UNCHANGED <<log, push, clock>>
  BY <1>13 DEF Edit, serverVars
<1> HIDE DEF Follows, Extends
<1>14. ASSUME NEW d \in Devices, EditSource(d)
       PROVE  UNCHANGED <<log, push, clock>>
  BY <1>14, AsideIs
<1> QED
  BY <1>4, <1>6, <1>7, <1>8, <1>9, <1>10, <1>11, <1>12, <1>13, <1>14 DEF SyncNext

\* No step moves a cursor past a row its device has not applied.
LEMMA CursorStep ==
  ASSUME SyncTypes, SyncTypes', CursorInv, SyncNext
  PROVE  CursorInv'
<1> DEFINE Device(d) == Marks(cursor[d]) /\ Covers(d, cursor[d], seen[d])
           Sync(s) == /\ Marks(sync[s].at) /\ Covers(DeviceOf[s], sync[s].at, seen[DeviceOf[s]])
                      /\ Marks(sync[s].next)
                      /\ sync[s].pc = "apply" =>
                           Covers(DeviceOf[s], sync[s].next, seen[DeviceOf[s]] \union sync[s].page)
           Kept == \A p \in Nat \X Nat, d \in Devices, S \in SUBSET Nat :
                     Marks(p) /\ Covers(d, p, S) => Marks(p)' /\ Covers(d, p, S)'
           Grown == \A d \in Devices : seen[d] \subseteq seen'[d] /\ seen'[d] \subseteq Nat
           Origin == Marks(<<0, 0>>)' /\ \A d \in Devices, S \in SUBSET Nat : Covers(d, <<0, 0>>, S)'
<1>1. (\A d \in Devices : Device(d)) /\ (\A s \in Syncs : Sync(s))
  BY DEF CursorInv
<1>2. SUFFICES (\A d \in Devices : Device(d)') /\ (\A s \in Syncs : Sync(s)')
  BY LogStep DEF CursorInv
<1>3. /\ cursor \in [Devices -> Nat \X Nat] /\ sync \in [Syncs -> Call] /\ seen \in [Devices -> SUBSET Nat]
      /\ cursor' \in [Devices -> Nat \X Nat] /\ sync' \in [Syncs -> Call] /\ seen' \in [Devices -> SUBSET Nat]
      /\ \A s \in Syncs : DeviceOf[s] \in Devices
  BY SyncAssumption DEF SyncTypes
<1>4. \A s \in Syncs : sync[s].at \in Nat \X Nat /\ sync[s].next \in Nat \X Nat /\ sync[s].page \subseteq Nat
  BY <1>3 DEF Call
<1>5. Kept /\ \A p \in Nat \X Nat : Marks(p) => Marks(p)'
  <2>1. Len(log) <= Len(log') /\ \A i \in DOMAIN log : log'[i] = log[i]
    BY LogStep
  <2> QED
    BY <2>1, MarksSurvive DEF Covers
<1>6. \A d \in Devices, p \in Nat \X Nat, S \in SUBSET Nat, T \in SUBSET Nat :
        Covers(d, p, S)' /\ S \subseteq T => Covers(d, p, T)'
  BY DEF Covers
<1>7. Origin
  BY DEF Marks, Covers, SyncTypes
<1>8. ASSUME Grown, NEW d \in Devices, cursor'[d] = cursor[d]
      PROVE  Device(d)'
  <2>1. Marks(cursor[d])' /\ Covers(d, cursor[d], seen[d])
    BY <1>1, <1>3, <1>5, <1>8
  <2> QED
    BY <1>1, <1>3, <1>5, <1>6, <1>8 DEF Covers
<1>9. ASSUME Grown, NEW s \in Syncs, sync'[s].at = sync[s].at, sync'[s].next = sync[s].next,
             sync'[s].pc = "apply" => sync[s].pc = "apply"
               /\ seen[DeviceOf[s]] \union sync[s].page \subseteq seen'[DeviceOf[s]] \union sync'[s].page
      PROVE  Sync(s)'
  <2> DEFINE d == DeviceOf[s]
  <2>1. d \in Devices /\ seen[d] \subseteq seen'[d] /\ seen'[d] \subseteq Nat /\ sync'[s].page \subseteq Nat
    BY <1>3, <1>9 DEF Call
  <2>2. Marks(sync[s].at)' /\ Marks(sync[s].next)'
    BY <1>1, <1>4, <1>5, <1>9
  <2>3. Covers(d, sync[s].at, seen[d])'
    <3>1. Covers(d, sync[s].at, seen[d])
      BY <1>1
    <3>2. Marks(sync[s].at) /\ \A i \in DOMAIN log' : i <= sync[s].at[2] => i \in DOMAIN log
      BY <1>1, <1>4, LogStep, MarksSurvive
    <3>3. \A i \in DOMAIN log : log'[i] = log[i]
      BY LogStep
    <3> QED
      BY <1>9, <2>1, <3>1, <3>2, <3>3 DEF Covers
  <2>4. ASSUME sync'[s].pc = "apply"
        PROVE  Covers(d, sync[s].next, seen[d] \union sync[s].page)'
    <3>1. Covers(d, sync[s].next, seen[d] \union sync[s].page)
      BY <1>1, <1>9, <2>4
    <3>2. Marks(sync[s].next) /\ \A i \in DOMAIN log' : i <= sync[s].next[2] => i \in DOMAIN log
      BY <1>1, <1>4, LogStep, MarksSurvive
    <3>3. \A i \in DOMAIN log : log'[i] = log[i]
      BY LogStep
    <3> QED
      BY <1>9, <2>4, <3>1, <3>2, <3>3 DEF Covers
  <2> QED
    BY <2>2, <2>3, <2>4
<1>10. ASSUME NEW s \in Syncs, sync'[s] = IdleSync
       PROVE  Sync(s)'
  BY <1>3, <1>7, <1>10 DEF IdleSync
<1>11. ASSUME UNCHANGED <<seen, cursor>>
       PROVE  Grown /\ \A d \in Devices : Device(d)'
  BY <1>3, <1>8, <1>11
<1>12. ASSUME Grown, NEW s \in Syncs, sync'[s] = sync[s]
       PROVE  Sync(s)'
  BY <1>3, <1>9, <1>12
<1>13. ASSUME UNCHANGED <<seen, cursor>>, NEW s \in Syncs, NEW v, sync' = [sync EXCEPT ![s] = v], Sync(s)'
       PROVE  (\A d \in Devices : Device(d)') /\ (\A t \in Syncs : Sync(t)')
  <2>1. \A t \in Syncs \ {s} : sync'[t] = sync[t]
    BY <1>3, <1>13
  <2> HIDE DEF Sync, Device, Grown
  <2> QED
    BY <1>11, <1>12, <1>13, <2>1
<1>14. CASE UNCHANGED <<seen, cursor, sync>>
  <2> HIDE DEF Sync, Device, Grown
  <2> QED
    BY <1>11, <1>12, <1>14
<1>15. ASSUME NEW d \in Devices, NEW e \in Entities, NEW op \in {"create", "update", "delete"}, Edit(d, e, op)
       PROVE  UNCHANGED <<seen, cursor, sync>>
  BY <1>15 DEF Edit
<1>16. ASSUME NEW s \in Syncs, StartSync(s)
       PROVE  (\A d \in Devices : Device(d)') /\ (\A t \in Syncs : Sync(t)')
  <2> DEFINE d == DeviceOf[s]
             pc == IF outbox[d] = <<>> THEN "pull" ELSE "push"
             v == [pc |-> pc, items |-> Pending(d), ok |-> <<>>, at |-> cursor[d], page |-> {}, next |-> <<0, 0>>,
                   more |-> FALSE]
  <2>1. sync' = [sync EXCEPT ![s] = v] /\ v.at = cursor[d] /\ v.next = <<0, 0>> /\ v.pc # "apply"
    BY <1>16 DEF StartSync
  <2> HIDE DEF pc, v
  <2>2. sync'[s] = v /\ UNCHANGED <<seen, cursor>>
    BY <1>3, <1>16, <2>1 DEF StartSync, deviceVars
  <2>3. Device(d)'
    BY <1>3, <1>11, <2>2
  <2>4. Sync(s)'
    BY <1>7, <2>1, <2>2, <2>3
  <2> HIDE DEF Sync, Device
  <2> QED
    BY <1>13, <2>1, <2>2, <2>4
<1>17. ASSUME NEW s \in Syncs, Acknowledge(s)
       PROVE  (\A d \in Devices : Device(d)') /\ (\A t \in Syncs : Sync(t)')
  <2> DEFINE v == [sync[s] EXCEPT !.ok = Tail(sync[s].ok)]
  <2>1. sync' = [sync EXCEPT ![s] = v] /\ UNCHANGED <<seen, cursor>>
    BY <1>3, <1>17 DEF Acknowledge
  <2>2. sync[s] \in Call
    BY <1>3
  <2>3. v.at = sync[s].at /\ v.next = sync[s].next /\ v.pc = sync[s].pc /\ v.page = sync[s].page
    BY <2>2 DEF Call
  <2> HIDE DEF v
  <2>4. sync'[s] = v
    BY <1>3, <2>1
  <2>5. Sync(s)'
    BY <1>3, <1>9, <1>11, <2>1, <2>3, <2>4
  <2> HIDE DEF Sync, Device
  <2> QED
    BY <1>13, <2>1, <2>5
<1>18. ASSUME NEW s \in Syncs, EndPush(s)
       PROVE  (\A d \in Devices : Device(d)') /\ (\A t \in Syncs : Sync(t)')
  <2> DEFINE d == DeviceOf[s]
             v == [sync[s] EXCEPT !.pc = "pull", !.at = cursor[d]]
  <2>1. sync' = [sync EXCEPT ![s] = v] /\ UNCHANGED <<seen, cursor>>
    BY <1>3, <1>18 DEF EndPush, deviceVars, syncHistory
  <2>2. sync[s] \in Call
    BY <1>3
  <2>3. v.at = cursor[d] /\ v.next = sync[s].next /\ v.pc = "pull"
    BY <2>2 DEF Call
  <2> HIDE DEF v
  <2>4. sync'[s] = v
    BY <1>3, <2>1
  <2>5. Device(d)' /\ Marks(sync[s].next)'
    BY <1>1, <1>3, <1>4, <1>5, <1>11, <2>1, <2>3, <2>4
  <2>6. Sync(s)'
    BY <2>1, <2>3, <2>4, <2>5
  <2> HIDE DEF Sync, Device
  <2> QED
    BY <1>13, <2>1, <2>6
<1>19. ASSUME NEW s \in Syncs, ApplyOne(s)
       PROVE  (\A d \in Devices : Device(d)') /\ (\A t \in Syncs : Sync(t)')
  <2> DEFINE d == DeviceOf[s]
             i == FirstIn(sync[s].page)
             v == [sync[s] EXCEPT !.page = sync[s].page \ {i}]
  <2>1. sync' = [sync EXCEPT ![s] = v] /\ cursor' = cursor /\ seen' = [seen EXCEPT ![d] = seen[d] \union {i}]
    BY <1>3, <1>19 DEF ApplyOne
  <2>2. sync[s] \in Call /\ sync[s].pc = "apply"
    BY <1>3, <1>19 DEF ApplyOne
  <2>3. v.at = sync[s].at /\ v.next = sync[s].next /\ v.page = sync[s].page \ {i}
    BY <2>2 DEF Call
  <2> HIDE DEF v, i
  <2>4. sync'[s] = v /\ \A t \in Syncs \ {s} : sync'[t] = sync[t]
    BY <1>3, <2>1
  <2>5. Grown
    BY <1>3, <2>1
  <2>6. seen'[d] = seen[d] \union {i}
    BY <1>3, <2>1
  <2>7. Sync(s)'
    BY <1>9, <2>2, <2>3, <2>4, <2>5, <2>6
  <2> HIDE DEF Sync, Device, Grown
  <2> QED
    BY <1>8, <1>12, <2>1, <2>4, <2>5, <2>7
<1>20. ASSUME NEW s \in Syncs, AdvanceCursor(s)
       PROVE  (\A d \in Devices : Device(d)') /\ (\A t \in Syncs : Sync(t)')
  <2> DEFINE d == DeviceOf[s]
             v == IF sync[s].more THEN [sync[s] EXCEPT !.pc = "pull", !.at = sync[s].next] ELSE IdleSync
  <2>1. /\ sync' = [sync EXCEPT ![s] = v] /\ seen' = seen /\ cursor' = [cursor EXCEPT ![d] = sync[s].next]
        /\ sync[s].pc = "apply" /\ sync[s].page = {} /\ UNCHANGED log
    BY <1>3, <1>20 DEF AdvanceCursor, syncHistory, serverVars
  <2>2. sync[s] \in Call
    BY <1>3
  <2>3. v = IdleSync \/ (v.at = sync[s].next /\ v.next = sync[s].next /\ v.pc = "pull")
    BY <2>2 DEF Call
  <2> HIDE DEF v
  <2>4. sync'[s] = v /\ (\A t \in Syncs \ {s} : sync'[t] = sync[t]) /\ Grown
    BY <1>3, <2>1
  <2>5. cursor'[d] = sync[s].next /\ \A c \in Devices \ {d} : cursor'[c] = cursor[c]
    BY <1>3, <2>1
  <2>6. Device(d)'
    <3>1. Marks(sync[s].next) /\ Covers(d, sync[s].next, seen[d])
      BY <1>1, <2>1
    <3> QED
      BY <2>1, <2>5, <3>1 DEF Marks, Covers
  <2>7. Sync(s)'
    <3>1. CASE v = IdleSync
      BY <1>10, <2>4, <3>1
    <3>2. CASE v # IdleSync
      BY <2>3, <2>4, <2>5, <2>6, <3>2
    <3> QED
      BY <3>1, <3>2
  <2> HIDE DEF Sync, Device, Grown
  <2> QED
    BY <1>8, <1>12, <2>4, <2>5, <2>6, <2>7
<1>21. ASSUME NEW s \in Syncs, Abandon(s)
       PROVE  (\A d \in Devices : Device(d)') /\ (\A t \in Syncs : Sync(t)')
  <2>1. sync' = [sync EXCEPT ![s] = IdleSync] /\ UNCHANGED <<seen, cursor>> /\ sync'[s] = IdleSync
    BY <1>3, <1>21 DEF Abandon, deviceVars, syncHistory
  <2> QED
    BY <1>10, <1>13, <2>1
<1>22. ASSUME NEW s \in Syncs, ReceivePush(s)
       PROVE  UNCHANGED <<seen, cursor, sync>>
  BY <1>22 DEF ReceivePush, deviceVars, syncHistory
<1>23. ASSUME NEW m \in late, ReceiveLate(m)
       PROVE  UNCHANGED <<seen, cursor, sync>>
  BY <1>23 DEF ReceiveLate, deviceVars, syncHistory
<1>24. CASE ApplyOperation
  BY <1>14, <1>24 DEF ApplyOperation, deviceVars, syncHistory
<1>25. CASE CommitPush
  <2>1. UNCHANGED <<seen, cursor>>
    BY <1>25 DEF CommitPush, deviceVars
  <2>2. CASE push.from \notin Syncs
    BY <1>14, <1>25, <2>1, <2>2 DEF CommitPush
  <2>3. CASE push.from \in Syncs
    <3> PICK s \in Syncs : s = push.from
      BY <2>3
    <3> DEFINE v == [sync[s] EXCEPT !.pc = "ack", !.ok = push.ok]
    <3>1. sync' = [sync EXCEPT ![s] = v]
      BY <1>3, <1>25, <2>3 DEF CommitPush
    <3>2. sync[s] \in Call
      BY <1>3, <2>3
    <3>3. v.at = sync[s].at /\ v.next = sync[s].next /\ v.pc = "ack"
      BY <3>2 DEF Call
    <3> HIDE DEF v
    <3>4. sync'[s] = v
      BY <1>3, <2>3, <3>1
    <3>5. Sync(s)'
      BY <1>9, <1>11, <2>1, <2>3, <3>3, <3>4
    <3> HIDE DEF Sync, Device
    <3> QED
      BY <1>13, <2>1, <3>1, <3>5
  <2> QED
    BY <2>2, <2>3
<1>26. CASE RollbackPush
  <2>1. UNCHANGED <<seen, cursor>>
    BY <1>26 DEF RollbackPush, deviceVars, syncHistory
  <2>2. CASE push.from \notin Syncs
    BY <1>14, <1>26, <2>1, <2>2 DEF RollbackPush
  <2>3. CASE push.from \in Syncs
    <3>1. sync' = [sync EXCEPT ![push.from] = IdleSync] /\ sync'[push.from] = IdleSync
      BY <1>3, <1>26, <2>3 DEF RollbackPush
    <3> QED
      BY <1>10, <1>13, <2>1, <2>3, <3>1
  <2> QED
    BY <2>2, <2>3
<1>27. ASSUME NEW s \in Syncs, PullPage(s)
       PROVE  (\A d \in Devices : Device(d)') /\ (\A t \in Syncs : Sync(t)')
  <2> DEFINE d == DeviceOf[s]
             all == Changes(d, sync[s].at)
             page == FirstPage(all)
             last == LastIn(page)
  <2>1. UNCHANGED <<seen, cursor, log>>
    BY <1>27 DEF PullPage, deviceVars, serverVars, syncHistory
  <2>2. CASE all = {}
    <3>1. sync' = [sync EXCEPT ![s] = IdleSync] /\ sync'[s] = IdleSync
      BY <1>3, <1>27, <2>2 DEF PullPage
    <3> QED
      BY <1>10, <1>13, <2>1, <3>1
  <2>3. CASE all # {}
    <3>1. all \in SUBSET DOMAIN log
      BY DEF Changes
    <3>2. page # {} /\ (\A i \in all, j \in page : i <= j => i \in page) /\ page \in SUBSET DOMAIN log
      <4> HIDE DEF all
      <4>1. page \subseteq all
        BY DEF FirstPage
      <4> QED
        BY <2>3, <3>1, <4>1, PageHolds
    <3>3. last \in page
      <4> HIDE DEF page
      <4> QED
        BY <3>2, LastInIsLast
    <3>4. all = {i \in DOMAIN log : log[i].dev # d /\ i > sync[s].at[2]}
      BY PastMark
    <3>5. Covers(d, sync[s].at, seen[d]) /\ sync[s].at \in Nat \X Nat /\ Marks(sync[s].at)
      BY <1>1, <1>4
    <3> DEFINE next == <<log[last].at, last>>
               more == all # page
               v == [sync[s] EXCEPT !.pc = "apply", !.page = page, !.more = more, !.next = next]
    <3>6. sync' = [sync EXCEPT ![s] = v]
      BY <1>3, <1>27, <2>3 DEF PullPage
    <3> HIDE DEF all, page, last
    <3>7. next[1] = log[last].at /\ next[2] = last /\ last \in DOMAIN log
      BY <3>2, <3>3
    <3>8. Covers(d, next, seen[d] \union page) /\ Marks(next)
      <4>1. ASSUME NEW i \in DOMAIN log, i <= last, log[i].dev # d
            PROVE  i \in seen[d] \union page
        <5>1. i \in Nat /\ sync[s].at[2] \in Nat
          BY <3>5, LogType
        <5>2. CASE i <= sync[s].at[2]
          BY <3>5, <4>1, <5>2 DEF Covers
        <5>3. CASE i > sync[s].at[2]
          BY <3>2, <3>3, <3>4, <4>1, <5>3
        <5> QED
          BY <5>1, <5>2, <5>3
      <4> QED
        BY <3>7, <4>1 DEF Covers, Marks
    <3>9. sync[s] \in Call
      BY <1>3
    <3> HIDE DEF next, more
    <3>10. v.at = sync[s].at /\ v.next = next /\ v.pc = "apply" /\ v.page = page
      BY <3>9 DEF Call
    <3> HIDE DEF v
    <3>11. sync'[s] = v
      BY <1>3, <3>6
    <3>12. Sync(s)'
      BY <2>1, <3>5, <3>8, <3>10, <3>11 DEF Covers, Marks
    <3> HIDE DEF Sync, Device
    <3> QED
      BY <1>13, <2>1, <3>6, <3>12
  <2> QED
    BY <2>2, <2>3
<1> HIDE DEF Sync, Device
<1>28. ASSUME NEW d \in Devices, EditSource(d)
       PROVE  UNCHANGED <<seen, cursor, sync>>
  BY <1>28, AsideIs
<1> QED
  BY <1>14, <1>15, <1>16, <1>17, <1>18, <1>19, <1>20, <1>21, <1>22, <1>23, <1>24, <1>25, <1>26, <1>27, <1>28 DEF SyncNext

\* The item an acknowledgement takes off.
Item(s) == FirstOf(sync[s].items, Head(sync[s].ok))

\* An operation that an edit, or a delete that was pulled, puts in an outbox.
Queued(d, e, op) ==
  /\ Enqueue(d, e, op) /\ UNCHANGED <<push, row, log, written>>
  /\ \/ Edit(d, e, op)
     \/ /\ op = "delete" /\ editors' = editors
        /\ \E i \in DOMAIN log : log[i].op = "delete" /\ log[i].ent = e

\* Where the sequences of operations of the next state come from.
OutboxChange ==
  \A d \in Devices :
    \/ outbox'[d] = outbox[d]
    \/ \E e \in Entities, op \in {"create", "update", "delete"} :
         /\ Queued(d, e, op)
         /\ outbox'[d] = Append(outbox[d], [key |-> keys + 1, ent |-> e, op |-> op])
    \/ \E s \in Syncs : Acknowledge(s) /\ d = DeviceOf[s] /\ outbox'[d] = Without(outbox[d], Item(s))
ItemsChange ==
  \A s \in Syncs : sync'[s].items \in {sync[s].items, <<>>, Pending(DeviceOf[s])}
LateChange ==
  \A m \in late' : m \in late \/ \E s \in Syncs : m.items = sync[s].items
TodoChange ==
  \/ Todo' = <<>>
  \/ Todo' = Todo /\ Rows' = Rows
  \/ Rows' = row /\ row' = row /\ \E s \in Syncs : Todo' = sync[s].items
  \/ Rows' = row /\ row' = row /\ \E m \in late : Todo' = m.items
  \/ Todo # <<>> /\ Todo' = Tail(Todo) /\ ApplyOperation

\* A step leaves an outbox as it is, appends to it, or takes one row out.
LEMMA OutboxStep ==
  ASSUME SyncTypes, CursorInv, SyncNext
  PROVE  OutboxChange
<1>1. outbox \in [Devices -> Seq(Operation)] /\ \A s \in Syncs : DeviceOf[s] \in Devices
  BY SyncAssumption DEF SyncTypes
<1>2. CASE UNCHANGED outbox
  BY <1>2 DEF OutboxChange
<1>3. ASSUME NEW d \in Devices, NEW e \in Entities, NEW op \in {"create", "update", "delete"}, Queued(d, e, op)
      PROVE  OutboxChange
  <2> DEFINE x == [key |-> keys + 1, ent |-> e, op |-> op]
  <2>1. outbox' = [outbox EXCEPT ![d] = Append(outbox[d], x)]
    BY <1>1, <1>3 DEF Enqueue, Queued
  <2> HIDE DEF x
  <2>2. outbox'[d] = Append(outbox[d], x) /\ \A c \in Devices \ {d} : outbox'[c] = outbox[c]
    BY <1>1, <2>1
  <2> QED
    BY <1>3, <2>2 DEF OutboxChange, x
<1>4. ASSUME NEW s \in Syncs, Acknowledge(s)
      PROVE  OutboxChange
  <2> DEFINE d == DeviceOf[s]
             w == Without(outbox[d], Item(s))
  <2>1. outbox' = [outbox EXCEPT ![d] = w]
    BY <1>1, <1>4 DEF Acknowledge, Item
  <2> HIDE DEF w
  <2>2. outbox'[d] = w /\ \A c \in Devices \ {d} : outbox'[c] = outbox[c]
    BY <1>1, <2>1
  <2> QED
    BY <1>4, <2>2 DEF OutboxChange, w
<1>5. ASSUME NEW s \in Syncs, ApplyOne(s)
      PROVE  OutboxChange
  <2> DEFINE o == log[FirstIn(sync[s].page)]
  <2>1. CASE o.op # "delete"
    BY <1>2, <1>5, <2>1 DEF ApplyOne
  <2>2. CASE o.op = "delete"
    <3>1. Enqueue(DeviceOf[s], o.ent, "delete") /\ editors' = editors /\ UNCHANGED <<push, row, log, written>>
      BY <1>5, <2>2 DEF ApplyOne, serverVars
    <3>2. o.ent \in Entities /\ \E i \in DOMAIN log : log[i].op = "delete" /\ log[i].ent = o.ent
      BY <1>5, <2>2, AppliedRow
    <3> HIDE DEF o
    <3> QED
      BY <1>1, <1>3, <3>1, <3>2 DEF Queued
  <2> QED
    BY <2>1, <2>2
<1>6. ASSUME NEW d \in Devices, NEW e \in Entities, NEW op \in {"create", "update", "delete"}, Edit(d, e, op)
      PROVE  OutboxChange
  BY <1>3, <1>6 DEF Edit, Queued, serverVars
<1>7. ASSUME NEW s \in Syncs, StartSync(s) \/ EndPush(s) \/ AdvanceCursor(s) \/ Abandon(s) \/ ReceivePush(s) \/ PullPage(s)
      PROVE  OutboxChange
  BY <1>2, <1>7 DEF StartSync, EndPush, AdvanceCursor, Abandon, ReceivePush, PullPage, deviceVars
<1>8. CASE (\E m \in late : ReceiveLate(m)) \/ ApplyOperation \/ CommitPush \/ RollbackPush
  BY <1>2, <1>8 DEF ReceiveLate, ApplyOperation, CommitPush, RollbackPush, deviceVars
<1>9. ASSUME NEW d \in Devices, EditSource(d)
      PROVE  OutboxChange
  BY <1>2, <1>9, AsideIs
<1> QED
  BY <1>4, <1>5, <1>6, <1>7, <1>8, <1>9 DEF SyncNext

\* A sync keeps its batch, drops it, or takes a new one from its outbox.
LEMMA ItemsStep ==
  ASSUME SyncTypes, SyncNext
  PROVE  ItemsChange
<1>1. sync \in [Syncs -> Call]
  BY DEF SyncTypes
<1>2. ASSUME NEW s \in Syncs, NEW v, sync' = [sync EXCEPT ![s] = v],
             v.items \in {sync[s].items, <<>>, Pending(DeviceOf[s])}
      PROVE  ItemsChange
  BY <1>1, <1>2 DEF ItemsChange
<1>3. CASE UNCHANGED sync
  BY <1>3 DEF ItemsChange
<1>4. IdleSync.items = <<>>
  BY DEF IdleSync
<1>5. ASSUME NEW d \in Devices, NEW e \in Entities, NEW op \in {"create", "update", "delete"}, Edit(d, e, op)
      PROVE  ItemsChange
  BY <1>3, <1>5 DEF Edit
<1>6. ASSUME NEW s \in Syncs, StartSync(s)
      PROVE  ItemsChange
  <2> DEFINE pc == IF outbox[DeviceOf[s]] = <<>> THEN "pull" ELSE "push"
             v == [pc |-> pc, items |-> Pending(DeviceOf[s]), ok |-> <<>>, at |-> cursor[DeviceOf[s]], page |-> {},
                   next |-> <<0, 0>>, more |-> FALSE]
  <2>1. sync' = [sync EXCEPT ![s] = v] /\ v.items = Pending(DeviceOf[s])
    BY <1>6 DEF StartSync
  <2> HIDE DEF v
  <2> QED
    BY <1>2, <2>1
<1>7. ASSUME NEW s \in Syncs, Acknowledge(s)
      PROVE  ItemsChange
  <2> DEFINE v == [sync[s] EXCEPT !.ok = Tail(sync[s].ok)]
  <2>1. sync' = [sync EXCEPT ![s] = v]
    BY <1>1, <1>7 DEF Acknowledge
  <2>2. v.items = sync[s].items
    BY <1>1 DEF Call
  <2> HIDE DEF v
  <2> QED
    BY <1>2, <2>1, <2>2
<1>8. ASSUME NEW s \in Syncs, EndPush(s)
      PROVE  ItemsChange
  <2> DEFINE v == [sync[s] EXCEPT !.pc = "pull", !.at = cursor[DeviceOf[s]]]
  <2>1. sync' = [sync EXCEPT ![s] = v]
    BY <1>1, <1>8 DEF EndPush
  <2>2. v.items = sync[s].items
    BY <1>1 DEF Call
  <2> HIDE DEF v
  <2> QED
    BY <1>2, <2>1, <2>2
<1>9. ASSUME NEW s \in Syncs, ApplyOne(s)
      PROVE  ItemsChange
  <2> DEFINE v == [sync[s] EXCEPT !.page = sync[s].page \ {FirstIn(sync[s].page)}]
  <2>1. sync' = [sync EXCEPT ![s] = v]
    BY <1>1, <1>9 DEF ApplyOne
  <2>2. v.items = sync[s].items
    BY <1>1 DEF Call
  <2> HIDE DEF v
  <2> QED
    BY <1>2, <2>1, <2>2
<1>10. ASSUME NEW s \in Syncs, AdvanceCursor(s)
       PROVE  ItemsChange
  <2> DEFINE v == IF sync[s].more THEN [sync[s] EXCEPT !.pc = "pull", !.at = sync[s].next] ELSE IdleSync
  <2>1. sync' = [sync EXCEPT ![s] = v]
    BY <1>1, <1>10 DEF AdvanceCursor
  <2>2. v.items \in {sync[s].items, <<>>}
    BY <1>1, <1>4 DEF Call
  <2> HIDE DEF v
  <2> QED
    BY <1>2, <2>1, <2>2
<1>11. ASSUME NEW s \in Syncs, Abandon(s)
       PROVE  ItemsChange
  BY <1>2, <1>4, <1>11 DEF Abandon
<1>12. ASSUME NEW s \in Syncs, PullPage(s)
       PROVE  ItemsChange
  <2> DEFINE all == Changes(DeviceOf[s], sync[s].at)
             page == FirstPage(all)
             last == LastIn(page)
             more == all # page
             next == <<log[last].at, last>>
             v == [sync[s] EXCEPT !.pc = "apply", !.page = page, !.more = more, !.next = next]
  <2>1. sync' = [sync EXCEPT ![s] = IdleSync] \/ sync' = [sync EXCEPT ![s] = v]
    BY <1>1, <1>12 DEF PullPage
  <2> HIDE DEF all, page, last, more, next
  <2>2. v.items = sync[s].items
    BY <1>1 DEF Call
  <2> HIDE DEF v
  <2> QED
    BY <1>2, <1>4, <2>1, <2>2
<1>13. CASE CommitPush
  <2>1. CASE push.from \in Syncs
    <3> PICK s \in Syncs : s = push.from
      BY <2>1
    <3> DEFINE v == [sync[s] EXCEPT !.pc = "ack", !.ok = push.ok]
    <3>1. sync' = [sync EXCEPT ![s] = v]
      BY <1>1, <1>13, <2>1 DEF CommitPush
    <3>2. v.items = sync[s].items
      BY <1>1 DEF Call
    <3> HIDE DEF v
    <3> QED
      BY <1>2, <3>1, <3>2
  <2>2. CASE push.from \notin Syncs
    BY <1>3, <1>13, <2>2 DEF CommitPush
  <2> QED
    BY <2>1, <2>2
<1>14. CASE RollbackPush
  BY <1>2, <1>3, <1>4, <1>14 DEF RollbackPush
<1>15. CASE (\E s \in Syncs : ReceivePush(s)) \/ (\E m \in late : ReceiveLate(m)) \/ ApplyOperation
  BY <1>3, <1>15 DEF ReceivePush, ReceiveLate, ApplyOperation
<1>16. ASSUME NEW d \in Devices, EditSource(d)
       PROVE  ItemsChange
  BY <1>3, <1>16, AsideIs
<1> QED
  BY <1>5, <1>6, <1>7, <1>8, <1>9, <1>10, <1>11, <1>12, <1>13, <1>14, <1>15, <1>16 DEF SyncNext

\* A push that arrives late was the batch of a sync that was abandoned.
LEMMA LateStep ==
  ASSUME SyncTypes, SyncNext
  PROVE  LateChange
<1>1. CASE late' \subseteq late
  BY <1>1 DEF LateChange
<1>2. ASSUME NEW s \in Syncs, Abandon(s)
      PROVE  LateChange
  BY <1>2 DEF Abandon, LateChange
<1>3. ASSUME NEW m \in late, ReceiveLate(m)
      PROVE  LateChange
  BY <1>1, <1>3 DEF ReceiveLate
<1>4. ASSUME NEW d \in Devices, NEW e \in Entities, NEW op \in {"create", "update", "delete"}, Edit(d, e, op)
      PROVE  LateChange
  BY <1>1, <1>4 DEF Edit
<1>5. ASSUME NEW s \in Syncs, StartSync(s) \/ Acknowledge(s) \/ EndPush(s) \/ ApplyOne(s) \/ AdvanceCursor(s)
                                 \/ ReceivePush(s) \/ PullPage(s)
      PROVE  LateChange
  BY <1>1, <1>5 DEF StartSync, Acknowledge, EndPush, ApplyOne, AdvanceCursor, ReceivePush, PullPage
<1>6. CASE ApplyOperation \/ CommitPush \/ RollbackPush
  BY <1>1, <1>6 DEF ApplyOperation, CommitPush, RollbackPush
<1>7. ASSUME NEW d \in Devices, EditSource(d)
      PROVE  LateChange
  BY <1>1, <1>7, AsideIs
<1> QED
  BY <1>2, <1>3, <1>4, <1>5, <1>6, <1>7 DEF SyncNext

\* What is there of the transaction while its database and its batch stand still.
LEMMA PushKept ==
  ASSUME UNCHANGED <<push, row, log, written>>
  PROVE  UNCHANGED <<Todo, Rows, Log, Keys>>
BY DEF Todo, Rows, Log, Keys

\* The same of an abandoned one.
LEMMA PushOrphaned ==
  ASSUME SyncTypes, NEW s \in Syncs, Abandon(s)
  PROVE  /\ UNCHANGED <<Todo, Rows, Log, Keys>>
         /\ (push' = push /\ push.from # s) \/ (push.from = s /\ push'.from = "gone")
<1>1. UNCHANGED <<row, log, written>>
  BY DEF Abandon, syncHistory
<1>2. CASE push.from # s
  <2>1. push' = push
    BY <1>2 DEF Abandon
  <2> QED
    BY <1>1, <1>2, <2>1, PushKept
<1>3. CASE push.from = s
  <2>1. push \in Transaction
    <3>1. push \in Transaction \union {NoOne} /\ NoOne.from = "nobody"
      BY DEF SyncTypes, NoOne
    <3> QED
      BY <1>3, <3>1, SyncAssumption
  <2>2. push' = [push EXCEPT !.from = "gone"]
    BY <1>3 DEF Abandon
  <2>3. push'.todo = push.todo /\ push'.row = push.row /\ push'.log = push.log /\ push'.keys = push.keys
        /\ push'.from = "gone"
    BY <2>1, <2>2 DEF Transaction
  <2>4. push # NoOne /\ push' # NoOne
    BY <1>3, <2>3, SyncAssumption DEF NoOne
  <2> QED
    BY <1>1, <1>3, <2>3, <2>4 DEF Todo, Rows, Log, Keys
<1> QED
  BY <1>2, <1>3

\* A transaction that begins has the batch, and the database as it is.
LEMMA PushBegun ==
  ASSUME NEW from, from # "nobody", NEW d, NEW items, BeginPush(from, d, items), UNCHANGED <<row, log, written>>
  PROVE  /\ Todo' = items /\ Rows' = row /\ Rows = row /\ Log' = log /\ Log = log
         /\ Keys' = written /\ Keys = written /\ push' # NoOne
<1>1. push'.from = from /\ push'.todo = items /\ push'.row = row /\ push'.log = log /\ push'.keys = {}
  BY DEF BeginPush
<1>2. push' # NoOne /\ push = NoOne
  BY <1>1 DEF BeginPush, NoOne
<1> QED
  BY <1>1, <1>2 DEF Todo, Rows, Log, Keys

\* An operation of a transaction: accepted, or passed over.
LEMMA PushApplied ==
  ASSUME SyncTypes, ApplyOperation
  PROVE  LET o == Head(Todo) IN
         /\ push \in Transaction /\ push # NoOne /\ push' # NoOne /\ push'.from = push.from
         /\ Todo \in Seq(Operation) /\ Todo # <<>> /\ Todo' = Tail(Todo) /\ o \in Operation
         /\ Rows \in [Entities -> Nat]
         /\ \/ /\ Accepts(Rows, o) /\ Rows' = Wrote(Rows, o) /\ Keys' = Keys \union {o.key}
               /\ Log' = Append(Log, Entry(push.dev, o, clock')) /\ push'.ok = Append(push.ok, o.ent)
            \/ ~Accepts(Rows, o) /\ Rows' = Rows /\ Keys' = Keys /\ Log' = Log /\ push'.ok = push.ok
<1> DEFINE o == Head(push.todo)
<1>1. push \in Transaction /\ push # NoOne /\ push.todo # <<>> /\ UNCHANGED <<row, log, written>>
  BY DEF ApplyOperation, SyncTypes, syncHistory
<1>2. push.from # "nobody" /\ push.todo \in Seq(Operation) /\ push.row \in [Entities -> Nat]
  BY <1>1, SyncAssumption DEF Transaction
<1>3. o \in Operation
  BY <1>1, <1>2
<1>4. Todo = push.todo /\ Rows = push.row /\ Log = push.log /\ Keys = written \union push.keys
  BY <1>1 DEF Todo, Rows, Log, Keys
<1>5. push' # NoOne => Todo' = push'.todo /\ Rows' = push'.row /\ Log' = push'.log /\ Keys' = written \union push'.keys
  BY <1>1 DEF Todo, Rows, Log, Keys
<1>6. CASE ~Accepts(push.row, o)
  <2>1. push' = [push EXCEPT !.todo = Tail(push.todo)]
    BY <1>6 DEF ApplyOperation
  <2>2. /\ push'.todo = Tail(push.todo) /\ push'.from = push.from /\ push'.row = push.row /\ push'.log = push.log
        /\ push'.keys = push.keys /\ push'.ok = push.ok
    BY <1>1, <2>1 DEF Transaction
  <2>3. push' # NoOne
    BY <1>2, <2>2 DEF NoOne
  <2> QED
    BY <1>1, <1>2, <1>3, <1>4, <1>5, <1>6, <2>2, <2>3
<1>7. CASE Accepts(push.row, o)
  <2> DEFINE todo == Tail(push.todo)
             rows == Wrote(push.row, o)
             ok == Append(push.ok, o.ent)
             entries == Append(push.log, Entry(push.dev, o, clock'))
             ks == push.keys \union {o.key}
  <2>1. push' = [push EXCEPT !.todo = todo, !.row = rows, !.ok = ok, !.log = entries, !.keys = ks]
    BY <1>7 DEF ApplyOperation
  <2> HIDE DEF todo, rows, ok, entries, ks
  <2>2. /\ push'.todo = todo /\ push'.from = push.from /\ push'.row = rows /\ push'.log = entries
        /\ push'.keys = ks /\ push'.ok = ok
    BY <1>1, <2>1 DEF Transaction
  <2>3. push' # NoOne
    BY <1>2, <2>2 DEF NoOne
  <2>4. Keys' = Keys \union {o.key}
    BY <1>4, <1>5, <2>2, <2>3 DEF ks
  <2> QED
    BY <1>1, <1>2, <1>3, <1>4, <1>5, <1>7, <2>2, <2>3, <2>4 DEF todo, rows, ok, entries
<1> QED
  BY <1>6, <1>7

\* What a transaction has to do comes from a batch, and gets shorter.
LEMMA TodoStep ==
  ASSUME SyncTypes, SyncNext
  PROVE  TodoChange
<1>1. CASE UNCHANGED <<push, row>>
  BY <1>1 DEF TodoChange, Todo, Rows
<1>2. ASSUME NEW s \in Syncs, Abandon(s)
      PROVE  TodoChange
  BY <1>2, PushOrphaned DEF TodoChange
<1>3. ASSUME NEW s \in Syncs, ReceivePush(s)
      PROVE  TodoChange
  <2>1. BeginPush(s, DeviceOf[s], sync[s].items) /\ UNCHANGED <<row, log, written>> /\ s # "nobody"
    BY <1>3, SyncAssumption DEF ReceivePush, syncHistory
  <2> QED
    BY <2>1, PushBegun DEF TodoChange
<1>4. ASSUME NEW m \in late, ReceiveLate(m)
      PROVE  TodoChange
  <2>1. BeginPush("gone", m.dev, m.items) /\ UNCHANGED <<row, log, written>>
    BY <1>4 DEF ReceiveLate, syncHistory
  <2>2. Todo' = m.items /\ Rows' = row
    BY <2>1, PushBegun
  <2> QED
    BY <2>1, <2>2 DEF TodoChange
<1>5. CASE ApplyOperation
  BY <1>5, PushApplied DEF TodoChange
<1>6. CASE CommitPush \/ RollbackPush
  BY <1>6 DEF CommitPush, RollbackPush, TodoChange, Todo
<1>7. ASSUME NEW d \in Devices, NEW e \in Entities, NEW op \in {"create", "update", "delete"}, Edit(d, e, op)
      PROVE  TodoChange
  BY <1>1, <1>7 DEF Edit, serverVars
<1>8. ASSUME NEW s \in Syncs, StartSync(s) \/ Acknowledge(s) \/ EndPush(s) \/ ApplyOne(s) \/ AdvanceCursor(s) \/ PullPage(s)
      PROVE  TodoChange
  BY <1>1, <1>8 DEF StartSync, Acknowledge, EndPush, ApplyOne, AdvanceCursor, PullPage, serverVars
<1>9. ASSUME NEW d \in Devices, EditSource(d)
      PROVE  TodoChange
  BY <1>1, <1>9, AsideIs
<1> QED
  BY <1>2, <1>3, <1>4, <1>5, <1>6, <1>7, <1>8, <1>9 DEF SyncNext

\* Ops, place by place.
OpsShape ==
  \A x : x \in Ops <=>
    \/ \E d \in Devices : \E i \in DOMAIN outbox[d] : x = outbox[d][i]
    \/ \E s \in Syncs : \E i \in DOMAIN sync[s].items : x = sync[s].items[i]
    \/ \E m \in late : \E i \in DOMAIN m.items : x = m.items[i]
    \/ \E i \in DOMAIN Todo : x = Todo[i]

\* The operations there are, place by place.
LEMMA OpsAre == OpsShape
<1>1. \A x : x \in Ops <=> \E b \in Batches : \E i \in DOMAIN b : x = b[i]
  BY DEF Ops
<1>2. \A b : b \in Batches <=> \/ \E d \in Devices : b = outbox[d]
                               \/ \E s \in Syncs : b = sync[s].items
                               \/ \E m \in late : b = m.items
                               \/ b = Todo
  BY DEF Batches, Sent
<1> QED
  BY <1>1, <1>2 DEF OpsShape

\* What a transaction has to do is a sequence of operations.
LEMMA TodoType == SyncTypes => Todo \in Seq(Operation)
BY DEF SyncTypes, Transaction, Todo

\* Accepted keys are numbers.
LEMMA KeysType == SyncTypes => Keys \subseteq Nat
BY DEF SyncTypes, Transaction, Keys

\* What there is in outboxes, batches and late pushes are operations.
LEMMA OpsType == SyncTypes => Ops \subseteq Operation
<1> SUFFICES ASSUME SyncTypes, NEW o \in Ops
             PROVE  o \in Operation
  OBVIOUS
<1>1. /\ \A d \in Devices : outbox[d] \in Seq(Operation)
      /\ \A s \in Syncs : sync[s].items \in Seq(Operation)
      /\ \A m \in late : m.items \in Seq(Operation)
      /\ Todo \in Seq(Operation)
  BY TodoType DEF SyncTypes, Call
<1> QED
  BY <1>1, OpsAre DEF OpsShape

\* The operations there are were there before, but for the one an edit or an echoed
\* delete enqueues.
LEMMA OpsStep ==
  ASSUME SyncTypes, CursorInv, AckInv, SyncNext, NEW o \in Ops'
  PROVE  \/ o \in Ops
         \/ \E d \in Devices, e \in Entities, op \in {"create", "update", "delete"} :
              Queued(d, e, op) /\ o = [key |-> keys + 1, ent |-> e, op |-> op]
<1>1. \/ \E d \in Devices : \E i \in DOMAIN outbox'[d] : o = outbox'[d][i]
      \/ \E s \in Syncs : \E i \in DOMAIN sync'[s].items : o = sync'[s].items[i]
      \/ \E m \in late' : \E i \in DOMAIN m.items : o = m.items[i]
      \/ \E i \in DOMAIN Todo' : o = Todo'[i]
  <2>1. OpsShape'
    BY OpsAre, PTL
  <2> QED
    BY <2>1 DEF OpsShape
<1>2. /\ \A d \in Devices : outbox[d] \in Seq(Operation)
      /\ \A s \in Syncs : sync[s].items \in Seq(Operation) /\ DeviceOf[s] \in Devices
      /\ Todo \in Seq(Operation)
  BY TodoType, SyncAssumption DEF SyncTypes, Call
<1>3. ASSUME NEW d \in Devices, NEW i \in DOMAIN outbox'[d], o = outbox'[d][i]
      PROVE  \/ o \in Ops
             \/ \E e \in Entities, op \in {"create", "update", "delete"} :
                  Queued(d, e, op) /\ o = [key |-> keys + 1, ent |-> e, op |-> op]
  <2>1. CASE outbox'[d] = outbox[d]
    BY <1>3, <2>1, OpsAre DEF OpsShape
  <2>2. ASSUME NEW e \in Entities, NEW op \in {"create", "update", "delete"}, Queued(d, e, op),
               outbox'[d] = Append(outbox[d], [key |-> keys + 1, ent |-> e, op |-> op])
        PROVE  o \in Ops \/ o = [key |-> keys + 1, ent |-> e, op |-> op]
    <3> DEFINE x == [key |-> keys + 1, ent |-> e, op |-> op]
    <3>1. x \in Operation
      BY <2>2, SyncAssumption DEF Operation, Enqueue, Queued, SyncTypes
    <3> HIDE DEF x
    <3>2. \A j \in DOMAIN Append(outbox[d], x) :
            Append(outbox[d], x)[j] = x \/ (j \in DOMAIN outbox[d] /\ Append(outbox[d], x)[j] = outbox[d][j])
      BY <1>2, <3>1
    <3>3. o = x \/ \E j \in DOMAIN outbox[d] : o = outbox[d][j]
      BY <1>3, <2>2, <3>2 DEF x
    <3> QED
      BY <3>3, OpsAre DEF x, OpsShape
  <2>3. ASSUME NEW s \in Syncs, Acknowledge(s), d = DeviceOf[s], outbox'[d] = Without(outbox[d], Item(s))
        PROVE  o \in Ops
    <3>1. Item(s) \in Operation
      BY <2>3, AcknowledgedItem DEF Item
    <3>2. PICK w : w = Without(outbox[d], Item(s))
      OBVIOUS
    <3>3. \A j \in DOMAIN w : \E k \in DOMAIN outbox[d] : w[j] = outbox[d][k]
      <4>1. w \in Seq(Operation) /\ outbox[d] \in Seq(Operation)
        BY <1>2, <3>1, <3>2, WithoutLeaves
      <4>2. CASE w = outbox[d]
        BY <4>2
      <4>3. ASSUME NEW n \in 1..Len(outbox[d]), Len(w) = Len(outbox[d]) - 1,
                   \A k \in 1..(n - 1) : w[k] = outbox[d][k],
                   \A k \in n..(Len(outbox[d]) - 1) : w[k] = outbox[d][k + 1],
                   NEW j \in DOMAIN w
            PROVE  \E k \in DOMAIN outbox[d] : w[j] = outbox[d][k]
        BY <4>1, <4>3
      <4> QED
        BY ZenonT(40), <1>2, <3>1, <3>2, <4>2, <4>3, WithoutLeaves
    <3> QED
      BY <1>3, <2>3, <3>2, <3>3, OpsAre DEF OpsShape
  <2> QED
    BY <2>1, <2>2, <2>3, OutboxStep DEF OutboxChange
<1>4. ASSUME NEW s \in Syncs, NEW i \in DOMAIN sync'[s].items, o = sync'[s].items[i]
      PROVE  o \in Ops
  <2>1. CASE sync'[s].items = sync[s].items
    BY <1>4, <2>1, OpsAre DEF OpsShape
  <2>2. CASE sync'[s].items = <<>>
    BY <1>4, <2>2
  <2>3. CASE sync'[s].items = Pending(DeviceOf[s])
    <3>1. \A j \in DOMAIN Pending(DeviceOf[s]) : \E k \in DOMAIN outbox[DeviceOf[s]] :
            Pending(DeviceOf[s])[j] = outbox[DeviceOf[s]][k]
      BY <1>2, PendingIsPrefix
    <3> QED
      BY <1>2, <1>4, <2>3, <3>1, OpsAre DEF OpsShape
  <2> QED
    BY <2>1, <2>2, <2>3, ItemsStep DEF ItemsChange
<1>5. ASSUME NEW m \in late', NEW i \in DOMAIN m.items, o = m.items[i]
      PROVE  o \in Ops
  BY <1>5, LateStep, OpsAre DEF LateChange, OpsShape
<1>6. ASSUME NEW i \in DOMAIN Todo', o = Todo'[i]
      PROVE  o \in Ops
  <2>1. CASE Todo # <<>> /\ Todo' = Tail(Todo)
    <3>1. \E k \in DOMAIN Todo : o = Todo[k]
      <4>1. \A j \in DOMAIN Tail(Todo) : j + 1 \in DOMAIN Todo /\ Tail(Todo)[j] = Todo[j + 1]
        BY <1>2, <2>1
      <4> QED
        BY <1>6, <2>1, <4>1
    <3> QED
      BY <3>1, OpsAre DEF OpsShape
  <2>2. CASE Todo' = <<>>
    BY <1>6, <2>2
  <2> QED
    BY <1>6, <2>1, <2>2, TodoStep, OpsAre DEF TodoChange, OpsShape
<1> QED
  BY <1>1, <1>3, <1>4, <1>5, <1>6

\* A step queues one operation at most.
LEMMA QueuedOnce ==
  ASSUME SyncTypes,
         NEW d \in Devices, NEW e \in Entities, NEW op \in {"create", "update", "delete"}, Queued(d, e, op),
         NEW c \in Devices, NEW f \in Entities, NEW oq \in {"create", "update", "delete"}, Queued(c, f, oq)
  PROVE  c = d /\ f = e /\ oq = op
<1> DEFINE x == [key |-> keys + 1, ent |-> e, op |-> op]
           y == [key |-> keys + 1, ent |-> f, op |-> oq]
<1>1. x \in Operation /\ y \in Operation
  <2>1. keys < MaxKeys /\ keys \in Nat
    BY DEF Enqueue, Queued, SyncTypes
  <2>2. keys + 1 \in 1..MaxKeys
    BY <2>1, SyncAssumption
  <2> QED
    BY <2>2 DEF Operation
<1>2. x = y => e = f /\ op = oq
  OBVIOUS
<1>3. outbox' = [outbox EXCEPT ![d] = Append(outbox[d], x)] /\ outbox' = [outbox EXCEPT ![c] = Append(outbox[c], y)]
  BY DEF Queued, Enqueue, SyncTypes
<1> HIDE DEF x, y
<1>4. outbox[d] \in Seq(Operation) /\ outbox[c] \in Seq(Operation)
  BY DEF SyncTypes
<1>5. outbox'[d] = Append(outbox[d], x) /\ outbox'[c] = Append(outbox[c], y)
  BY <1>3 DEF SyncTypes
<1>6. c = d
  <2>1. CASE c # d
    <3>1. outbox'[c] = outbox[c]
      BY <1>3, <2>1 DEF SyncTypes
    <3>2. Append(outbox[c], y) # outbox[c]
      <4>1. Len(Append(outbox[c], y)) = Len(outbox[c]) + 1 /\ Len(outbox[c]) \in Nat
        BY <1>1, <1>4
      <4> QED
        BY <4>1
    <3> QED
      BY <1>5, <3>1, <3>2
  <2> QED
    BY <2>1
<1>7. x = y
  <2>1. Append(outbox[d], x)[Len(outbox[d]) + 1] = x /\ Append(outbox[d], y)[Len(outbox[d]) + 1] = y
    BY <1>1, <1>4
  <2> QED
    BY <1>5, <1>6, <2>1
<1> QED
  BY <1>2, <1>6, <1>7

\* Keys are given out in order, and nothing forgets who edited an entity.
LEMMA CountersStep ==
  ASSUME SyncTypes, SyncTypes', CursorInv, KeysInv, SyncNext
  PROVE  /\ keys \in Nat /\ keys' \in Nat /\ keys <= keys'
         /\ \A e \in Entities : editors[e] \subseteq editors'[e]
         /\ \A k \in Keys' : k <= keys
<1>1. keys \in Nat /\ keys' \in Nat /\ editors \in [Entities -> SUBSET Devices]
  BY DEF SyncTypes
<1>2. \A k \in Keys : k \in Nat /\ k <= keys
  BY DEF KeysInv, Keys, SyncTypes, Transaction
<1>3. \A k \in written : k \in Keys
  BY DEF Keys
<1>4. CASE UNCHANGED <<keys, editors>> /\ (Keys' = Keys \/ Keys' = written)
  BY <1>1, <1>2, <1>3, <1>4
<1>5. ASSUME NEW d \in Devices, NEW e \in Entities, NEW op \in {"create", "update", "delete"}, Edit(d, e, op)
      PROVE  keys' = keys + 1 /\ Keys' = Keys /\ \A f \in Entities : editors[f] \subseteq editors'[f]
  <2>1. UNCHANGED <<push, row, log, written>>
    BY <1>5 DEF Edit, serverVars
  <2> QED
    BY <1>1, <1>5, <2>1, PushKept DEF Edit, Enqueue
<1>6. ASSUME NEW s \in Syncs, ApplyOne(s)
      PROVE  keys' \in {keys, keys + 1} /\ Keys' = Keys /\ editors' = editors
  <2>1. UNCHANGED <<push, row, log, written>>
    BY <1>6 DEF ApplyOne, serverVars
  <2> QED
    BY <1>6, <2>1, PushKept DEF ApplyOne, Enqueue
<1>7. ASSUME NEW s \in Syncs, StartSync(s) \/ Acknowledge(s) \/ EndPush(s) \/ AdvanceCursor(s) \/ PullPage(s)
      PROVE  UNCHANGED <<keys, editors>> /\ Keys' = Keys
  <2>1. UNCHANGED <<push, row, log, written, keys, editors>>
    BY <1>7 DEF StartSync, Acknowledge, EndPush, AdvanceCursor, PullPage, serverVars, syncHistory
  <2> QED
    BY <2>1, PushKept
<1>8. ASSUME NEW s \in Syncs, Abandon(s)
      PROVE  UNCHANGED <<keys, editors>> /\ Keys' = Keys
  BY <1>8, PushOrphaned DEF Abandon, syncHistory
<1>9. ASSUME NEW s \in Syncs, ReceivePush(s)
      PROVE  UNCHANGED <<keys, editors>> /\ Keys' = Keys
  <2>1. BeginPush(s, DeviceOf[s], sync[s].items) /\ UNCHANGED <<row, log, written, keys, editors>> /\ s # "nobody"
    BY <1>9, SyncAssumption DEF ReceivePush, syncHistory
  <2> QED
    BY <2>1, PushBegun
<1>10. ASSUME NEW m \in late, ReceiveLate(m)
       PROVE  UNCHANGED <<keys, editors>> /\ Keys' = Keys
  <2>1. BeginPush("gone", m.dev, m.items) /\ UNCHANGED <<row, log, written, keys, editors>>
    BY <1>10 DEF ReceiveLate, syncHistory
  <2> QED
    BY <2>1, PushBegun
<1>11. ASSUME ApplyOperation
       PROVE  UNCHANGED <<keys, editors>> /\ \A k \in Keys' : k <= keys
  <2>1. Keys' = Keys \/ Keys' = Keys \union {Head(Todo).key}
    BY <1>11, PushApplied
  <2>2. Head(Todo) \in Ops
    <3>1. Head(Todo) = Todo[1] /\ 1 \in DOMAIN Todo
      BY <1>11, PushApplied
    <3> QED
      BY <3>1, OpsAre DEF OpsShape
  <2>3. Head(Todo).key <= keys
    BY <2>2 DEF KeysInv
  <2> QED
    BY <1>2, <1>11, <2>1, <2>3 DEF ApplyOperation, syncHistory
<1>12. ASSUME CommitPush
       PROVE  UNCHANGED <<keys, editors>> /\ Keys' = Keys
  BY <1>12 DEF CommitPush, Keys
<1>13. ASSUME RollbackPush
       PROVE  UNCHANGED <<keys, editors>> /\ Keys' = written
  BY <1>13 DEF RollbackPush, syncHistory, Keys
<1>14. ASSUME NEW d \in Devices, EditSource(d)
       PROVE  keys' = keys + 1 /\ Keys' = Keys /\ editors' = editors
  <2>1. UNCHANGED <<push, row, log, written, editors>> /\ keys' = keys + 1
    BY <1>14, AsideIs
  <2> QED
    BY <2>1, PushKept
<1> QED
  BY <1>1, <1>2, <1>3, <1>4, <1>5, <1>6, <1>7, <1>8, <1>9, <1>10, <1>11, <1>12, <1>13, <1>14 DEF SyncNext

\* What is queued has a new key; an entity is created by its first edit, and the
\* source is never changed or deleted.
LEMMA QueuedIs ==
  ASSUME SyncTypes, RowsInv,
         NEW d \in Devices, NEW e \in Entities, NEW op \in {"create", "update", "delete"}, Queued(d, e, op)
  PROVE  /\ keys' = keys + 1
         /\ op = "create" => editors[e] = {} /\ editors'[e] # {}
         /\ e = Source => op = "create"
         /\ UNCHANGED <<push, row, log, written>>
<1>1. CASE Edit(d, e, op)
  <2>1. editors \in [Entities -> SUBSET Devices]
    BY DEF SyncTypes
  <2>2. op = "create" => editors[e] = {} /\ editors'[e] # {}
    BY <1>1, <2>1 DEF Edit
  <2>3. e = Source => op = "create"
    BY <1>1 DEF Edit
  <2> QED
    BY <1>1, <2>2, <2>3 DEF Edit, Queued, Enqueue, serverVars
<1>2. CASE ~Edit(d, e, op)
  <2>1. op = "delete" /\ \E i \in DOMAIN log : log[i].op = "delete" /\ log[i].ent = e
    BY <1>2 DEF Queued
  <2>2. e # Source
    BY <2>1 DEF RowsInv
  <2> QED
    BY <2>1, <2>2 DEF Queued, Enqueue
<1> QED
  BY <1>1, <1>2

\* A key keeps naming one operation: edits and echoed deletes take new ones.
LEMMA KeysStep ==
  ASSUME SyncTypes, SyncTypes', CursorInv, KeysInv, RowsInv, AckInv, SyncNext
  PROVE  KeysInv'
<1>1. /\ \A o \in Ops : o.key \in Nat /\ o.key <= keys /\ o.ent \in Entities
      /\ \A o \in Ops' : o.key \in Nat /\ o.ent \in Entities
      /\ keys \in Nat /\ keys' \in Nat /\ keys <= keys'
      /\ \A e \in Entities : editors[e] \subseteq editors'[e]
  <2>1. (SyncTypes => Ops \subseteq Operation)'
    BY OpsType, PTL
  <2>2. Ops \subseteq Operation /\ Ops' \subseteq Operation
    BY <2>1, OpsType
  <2>3. \A o \in Operation : o.key \in Nat /\ o.ent \in Entities
    BY SyncAssumption DEF Operation
  <2> QED
    BY <2>2, <2>3, CountersStep DEF KeysInv
<1> DEFINE New(o) == \E d \in Devices, e \in Entities, op \in {"create", "update", "delete"} :
                       Queued(d, e, op) /\ o = [key |-> keys + 1, ent |-> e, op |-> op]
<1>2. \A o \in Ops' : o \in Ops \/ New(o)
  BY OpsStep
<1>3. ASSUME NEW o, New(o)
      PROVE  /\ o.key = keys + 1 /\ keys' = keys + 1
             /\ o.op = "create" => editors[o.ent] = {} /\ editors'[o.ent] # {}
             /\ o.ent = Source => o.op = "create"
  BY <1>3, QueuedIs
<1>4. ASSUME NEW o, NEW p, New(o), New(p)
      PROVE  o = p
  BY <1>4, QueuedOnce
<1> HIDE DEF New
<1>5. \A o \in Ops' : o.key <= keys'
  BY <1>1, <1>2, <1>3
<1>6. \A o, p \in Ops' : o.key = p.key => o = p
  <2> SUFFICES ASSUME NEW o \in Ops', NEW p \in Ops', o.key = p.key
               PROVE  o = p
    OBVIOUS
  <2>1. CASE o \in Ops /\ p \in Ops
    BY <2>1 DEF KeysInv
  <2>2. CASE New(o) /\ p \in Ops
    BY <1>1, <1>3, <2>2
  <2>3. CASE o \in Ops /\ New(p)
    BY <1>1, <1>3, <2>3
  <2> QED
    BY <1>2, <1>4, <2>1, <2>2, <2>3
<1>7. \A o, p \in Ops' : o.op = "create" /\ p.op = "create" /\ o.ent = p.ent => o = p
  <2> SUFFICES ASSUME NEW o \in Ops', NEW p \in Ops', o.op = "create" /\ p.op = "create" /\ o.ent = p.ent
               PROVE  o = p
    OBVIOUS
  <2>1. CASE o \in Ops /\ p \in Ops
    BY <2>1 DEF KeysInv
  <2>2. CASE New(o) /\ p \in Ops
    BY <1>3, <2>2 DEF KeysInv
  <2>3. CASE o \in Ops /\ New(p)
    BY <1>3, <2>3 DEF KeysInv
  <2> QED
    BY <1>2, <1>4, <2>1, <2>2, <2>3
<1>8. \A o \in Ops' : o.op = "create" => editors'[o.ent] # {}
  <2> SUFFICES ASSUME NEW o \in Ops', o.op = "create"
               PROVE  editors'[o.ent] # {}
    OBVIOUS
  <2>1. CASE o \in Ops
    BY <1>1, <2>1 DEF KeysInv
  <2>2. CASE New(o)
    BY <1>3, <2>2
  <2> QED
    BY <1>2, <2>1, <2>2
<1>9. \A o \in Ops' : o.ent = Source => o.op = "create"
  BY <1>2, <1>3 DEF KeysInv
<1>10. \A k \in Keys' : k <= keys'
  <2>1. (SyncTypes => Keys \subseteq Nat)'
    BY KeysType, PTL
  <2> QED
    BY <1>1, <2>1, CountersStep
<1> QED
  BY <1>5, <1>6, <1>7, <1>8, <1>9, <1>10 DEF KeysInv

\* What a step does to the database and to the transaction under way.
ServerChange ==
  \/ UNCHANGED <<row, written, log, Rows, Keys, Log>>
  \/ UNCHANGED <<row, written, log>> /\ Rows' = row /\ Keys' = written /\ Log' = log
  \/ /\ row' = Rows /\ written' = Keys /\ log' = Log
     /\ UNCHANGED <<Rows, Keys, Log>>
  \/ UNCHANGED <<row, written, log>> /\ ApplyOperation

\* What a step does to the database is one of four things.
LEMMA ServerStep ==
  ASSUME SyncTypes, SyncNext
  PROVE  ServerChange
<1>1. CASE UNCHANGED <<push, row, log, written>>
  BY <1>1, PushKept DEF ServerChange
<1>2. ASSUME NEW s \in Syncs, Abandon(s)
      PROVE  ServerChange
  BY <1>2, PushOrphaned DEF Abandon, syncHistory, ServerChange
<1>3. ASSUME NEW s \in Syncs, ReceivePush(s)
      PROVE  ServerChange
  <2>1. BeginPush(s, DeviceOf[s], sync[s].items) /\ UNCHANGED <<row, log, written>> /\ s # "nobody"
    BY <1>3, SyncAssumption DEF ReceivePush, syncHistory
  <2> QED
    BY <2>1, PushBegun DEF ServerChange
<1>4. ASSUME NEW m \in late, ReceiveLate(m)
      PROVE  ServerChange
  <2>1. BeginPush("gone", m.dev, m.items) /\ UNCHANGED <<row, log, written>>
    BY <1>4 DEF ReceiveLate, syncHistory
  <2> QED
    BY <2>1, PushBegun DEF ServerChange
<1>5. CASE ApplyOperation
  BY <1>5 DEF ApplyOperation, syncHistory, ServerChange
<1>6. CASE CommitPush
  BY <1>6 DEF CommitPush, ServerChange, Rows, Keys, Log
<1>7. CASE RollbackPush
  BY <1>7 DEF RollbackPush, syncHistory, ServerChange, Rows, Keys, Log
<1>8. ASSUME NEW d \in Devices, NEW e \in Entities, NEW op \in {"create", "update", "delete"}, Edit(d, e, op)
      PROVE  ServerChange
  BY <1>1, <1>8 DEF Edit, serverVars
<1>9. ASSUME NEW s \in Syncs, StartSync(s) \/ Acknowledge(s) \/ EndPush(s) \/ ApplyOne(s) \/ AdvanceCursor(s) \/ PullPage(s)
      PROVE  ServerChange
  BY <1>1, <1>9 DEF StartSync, Acknowledge, EndPush, ApplyOne, AdvanceCursor, PullPage, serverVars, syncHistory
<1>10. ASSUME NEW d \in Devices, EditSource(d)
       PROVE  ServerChange
  BY <1>1, <1>10, AsideIs
<1> QED
  BY <1>2, <1>3, <1>4, <1>5, <1>6, <1>7, <1>8, <1>9, <1>10 DEF SyncNext

\* New operations are about rows that are not there, and have keys nobody accepted.
LEMMA RowsSurvive ==
  ASSUME SyncTypes, SyncTypes', CursorInv, KeysInv, RowsInv, AckInv, SyncNext,
         NEW r \in [Entities -> Nat], NEW K \in SUBSET Nat, \A k \in K : k <= keys, RowsAre(r, K)
  PROVE  RowsAre(r, K)'
<1>1. \A e \in Entities : editors[e] \subseteq editors'[e]
  BY CountersStep
<1>2. ASSUME NEW o \in Ops', o \notin Ops
      PROVE  /\ o.key = keys + 1 /\ keys \in Nat
             /\ o.op = "create" => o.ent \in Entities /\ editors[o.ent] = {}
  <2>1. PICK d \in Devices, e \in Entities, op \in {"create", "update", "delete"} :
          Queued(d, e, op) /\ o = [key |-> keys + 1, ent |-> e, op |-> op]
    BY <1>2, OpsStep
  <2>2. o.key = keys + 1 /\ o.ent = e /\ o.op = op
    BY <2>1
  <2>3. op = "create" => editors[e] = {}
    BY <2>1, QueuedIs
  <2> QED
    BY <2>2, <2>3 DEF SyncTypes
<1>3. \A e \in Entities : r[e] # Absent => editors'[e] # {}
  BY <1>1 DEF RowsAre
<1>4. \A o \in Ops' : o.op = "create" /\ r[o.ent] # Absent => o.key \in K
  BY <1>2 DEF RowsAre
<1>5. \A o \in Ops' : o.ent = Source /\ o.key \in K => r[Source] # Absent
  <2>1. ASSUME NEW o \in Ops', o.ent = Source, o.key \in K
        PROVE  r[Source] # Absent
    <3>1. o.key <= keys
      BY <2>1
    <3>2. o \in Ops
      BY <1>2, <3>1
    <3> QED
      BY <2>1, <3>2 DEF RowsAre
  <2> QED
    BY <2>1
<1> QED
  BY <1>3, <1>4, <1>5 DEF RowsAre

\* An accepted operation creates the row of its entity, or works on one that is
\* accounted for.
LEMMA AcceptedIs ==
  ASSUME SyncTypes, KeysInv, RowsInv, ApplyOperation
  PROVE  LET o == Head(Todo) IN
         /\ o \in Ops /\ o \in Operation
         /\ RowsAre(Wrote(Rows, o), Keys \union {o.key})
         /\ Wrote(Rows, o) \in [Entities -> Nat]
         /\ Rows[Source] # Absent \/ o.ent = Source => Wrote(Rows, o)[Source] # Absent
<1> DEFINE o == Head(Todo)
           w == Wrote(Rows, o)
<1>1. o \in Operation /\ o \in Ops /\ Rows \in [Entities -> Nat]
  <2>1. Todo \in Seq(Operation) /\ Todo # <<>> /\ o = Todo[1] /\ 1 \in DOMAIN Todo /\ Rows \in [Entities -> Nat]
    BY PushApplied
  <2> QED
    BY <2>1, OpsAre DEF OpsShape
<1> HIDE DEF o
<1>2. o.ent \in Entities /\ o.op \in {"create", "update", "delete"} /\ o.key \in Nat /\ o.key # 0
  BY <1>1, SyncAssumption DEF Operation
<1>3. RowsAre(Rows, Keys) /\ Source \in Entities
  BY SyncAssumption DEF RowsInv
<1>4. /\ \A p \in Ops : p.key = o.key => p = o
      /\ \A p \in Ops : p.op = "create" /\ o.op = "create" /\ p.ent = o.ent => p = o
      /\ o.op = "create" => editors[o.ent] # {}
      /\ o.ent = Source => o.op = "create"
  BY <1>1 DEF KeysInv
<1>5. /\ w \in [Entities -> Nat]
      /\ \A e \in Entities : w[e] # Absent => Rows[e] # Absent \/ (e = o.ent /\ o.op = "create")
      /\ o.op = "create" => w[o.ent] = o.key
      /\ \A e \in Entities \ {o.ent} : w[e] = Rows[e]
  <2>1. o.key \in 1..MaxKeys
    BY <1>1 DEF Operation
  <2> QED
    BY <1>1, <1>2, <2>1, LastEditIs DEF Wrote, Absent
<1> HIDE DEF w
<1>6. Rows[Source] # Absent \/ o.ent = Source => w[Source] # Absent
  BY <1>2, <1>3, <1>4, <1>5 DEF Absent
<1>7. \A e \in Entities : w[e] # Absent => editors[e] # {}
  BY <1>3, <1>4, <1>5 DEF RowsAre
<1>8. \A p \in Ops : p.op = "create" /\ w[p.ent] # Absent => p.key \in Keys \union {o.key}
  <2> SUFFICES ASSUME NEW p \in Ops, p.op = "create", w[p.ent] # Absent
               PROVE  p.key \in Keys \union {o.key}
    OBVIOUS
  <2>1. p.ent \in Entities
    BY OpsType DEF Operation
  <2>2. CASE p.ent = o.ent /\ o.op = "create"
    BY <1>4, <2>2
  <2>3. CASE Rows[p.ent] # Absent
    BY <1>3, <2>3 DEF RowsAre
  <2> QED
    BY <1>5, <2>1, <2>2, <2>3
<1>9. \A p \in Ops : p.ent = Source /\ p.key \in Keys \union {o.key} => w[Source] # Absent
  BY <1>3, <1>4, <1>6 DEF RowsAre
<1>10. RowsAre(w, Keys \union {o.key})
  BY <1>7, <1>8, <1>9 DEF RowsAre
<1> QED
  BY <1>1, <1>5, <1>6, <1>10 DEF o, w

\* Rows keep being created by accepted operations; the source's row, once
\* committed, stays, and so does what was accepted.
LEMMA RowsStep ==
  ASSUME SyncTypes, SyncTypes', CursorInv, KeysInv, RowsInv, AckInv, SyncNext
  PROVE  /\ RowsInv'
         /\ row[Source] # Absent => row'[Source] # Absent
         /\ written \subseteq written'
<1>1. /\ row \in [Entities -> Nat] /\ Rows \in [Entities -> Nat] /\ written \in SUBSET Nat /\ Keys \in SUBSET Nat
      /\ written \subseteq Keys
      /\ \A k \in Keys : k \in Nat /\ k <= keys
  BY KeysType DEF SyncTypes, Transaction, Rows, Keys, KeysInv
<1> DEFINE Holds(r, K) == /\ \A e \in Entities : r[e] # Absent => editors'[e] # {}
                          /\ \A o \in Ops' : o.op = "create" /\ r[o.ent] # Absent => o.key \in K
                          /\ \A o \in Ops' : o.ent = Source /\ o.key \in K => r[Source] # Absent
           Logged(l, r) == \A i \in DOMAIN l : l[i].ent = Source => l[i].op = "create" /\ r[Source] # Absent
<1>2. \A r \in [Entities -> Nat], K \in SUBSET Nat :
        (\A k \in K : k <= keys) /\ RowsAre(r, K) => Holds(r, K)
  BY RowsSurvive DEF RowsAre
<1>3. Holds(row, written) /\ Holds(Rows, Keys)
  <2>1. RowsAre(row, written) /\ RowsAre(Rows, Keys)
    BY DEF RowsInv
  <2> QED
    BY <1>1, <1>2, <2>1
<1>4. Logged(log, row) /\ Logged(Log, Rows) /\ (row[Source] # Absent => Rows[Source] # Absent)
  BY DEF RowsInv
<1>5. SUFFICES /\ Holds(row', written') /\ Holds(Rows', Keys') /\ Logged(log', row') /\ Logged(Log', Rows')
               /\ (row'[Source] # Absent => Rows'[Source] # Absent)
               /\ (row[Source] # Absent => row'[Source] # Absent)
               /\ written \subseteq written'
  BY DEF RowsInv, RowsAre
<1>6. CASE UNCHANGED <<row, written, log, Rows, Keys, Log>>
  BY <1>3, <1>4, <1>6
<1>7. CASE UNCHANGED <<row, written, log>> /\ Rows' = row /\ Keys' = written /\ Log' = log
  BY <1>3, <1>4, <1>7
<1>8. CASE row' = Rows /\ written' = Keys /\ log' = Log /\ UNCHANGED <<Rows, Keys, Log>>
  BY <1>1, <1>3, <1>4, <1>8
<1>9. CASE UNCHANGED <<row, written, log>> /\ ApplyOperation
  <2> DEFINE o == Head(Todo)
             w == Wrote(Rows, o)
             K == Keys \union {o.key}
  <2>1. \/ UNCHANGED <<Rows, Keys, Log>>
        \/ Rows' = w /\ Keys' = K /\ Log' = Append(Log, Entry(push.dev, o, clock')) /\ push \in Transaction
    BY <1>9, PushApplied
  <2>2. CASE UNCHANGED <<Rows, Keys, Log>>
    BY <1>6, <1>9, <2>2
  <2>3. CASE Rows' = w /\ Keys' = K /\ Log' = Append(Log, Entry(push.dev, o, clock')) /\ push \in Transaction
    <3>1. /\ o \in Ops /\ o \in Operation /\ RowsAre(w, K) /\ w \in [Entities -> Nat]
          /\ (Rows[Source] # Absent \/ o.ent = Source => w[Source] # Absent)
      BY <1>9, AcceptedIs
    <3>2. K \in SUBSET Nat /\ \A k \in K : k <= keys
      <4>1. o.key <= keys
        BY <3>1 DEF KeysInv
      <4>2. o.key \in Nat
        BY <3>1, SyncAssumption DEF Operation
      <4> HIDE DEF o
      <4> QED
        BY <1>1, <4>1, <4>2
    <3> DEFINE x == Entry(push.dev, o, clock')
    <3>3. x \in LogRow /\ x.ent = o.ent /\ x.op = o.op
      <4>1. o.key \in Nat /\ o.ent \in Entities /\ o.op \in {"create", "update", "delete"} /\ push.dev \in Devices
        BY <2>3, <3>1, SyncAssumption DEF Operation, Transaction
      <4>2. clock' \in Nat
        BY DEF SyncTypes
      <4> HIDE DEF o
      <4> QED
        BY <4>1, <4>2 DEF Entry, LogRow
    <3> HIDE DEF o, w, K, x
    <3>4. Holds(w, K)
      BY <1>2, <3>1, <3>2
    <3>5. Logged(Log', w)
      <4>1. Log \in Seq(LogRow) /\ Log' = Append(Log, x)
        BY <2>3, LogType DEF x
      <4>2. ASSUME NEW i \in DOMAIN Log', Log'[i].ent = Source
            PROVE  Log'[i].op = "create" /\ w[Source] # Absent
        <5>1. CASE i \in DOMAIN Log /\ Log'[i] = Log[i]
          BY <1>4, <3>1, <4>2, <5>1
        <5>2. CASE Log'[i] = x
          BY <3>1, <3>3, <4>2, <5>2 DEF KeysInv
        <5> QED
          BY <3>3, <4>1, <5>1, <5>2
      <4> QED
        BY <4>2
    <3> QED
      BY <1>3, <1>4, <1>9, <2>3, <3>1, <3>4, <3>5
  <2> QED
    BY <2>1, <2>2, <2>3
<1> QED
  BY <1>6, <1>7, <1>8, <1>9, ServerStep DEF ServerChange

\* An outbox keeps the source's create before its children's, or the source is there,
\* if the server can store it.
LEMMA OutboxLed ==
  ASSUME SyncTypes, CursorInv, KeysInv, RowsInv, LedInv, AckInv, SyncNext,
         Source \notin Unfit, NEW d \in Devices
  PROVE  /\ row[Source] # Absent \/ Led(outbox'[d], row)
         /\ (\E j \in DOMAIN outbox[d] : outbox[d][j].ent = Source) =>
              row[Source] # Absent \/ \E j \in DOMAIN outbox'[d] : outbox'[d][j].ent = Source
<1>1. outbox[d] \in Seq(Operation) /\ Led(outbox[d], row)
      /\ (local[d][Source] # Absent => row[Source] # Absent \/ \E j \in DOMAIN outbox[d] : outbox[d][j].ent = Source)
  BY DEF SyncTypes, LedInv, Sent
<1>2. CASE outbox'[d] = outbox[d]
  BY <1>1, <1>2
<1>3. ASSUME NEW e \in Entities, NEW op \in {"create", "update", "delete"}, Queued(d, e, op),
             outbox'[d] = Append(outbox[d], [key |-> keys + 1, ent |-> e, op |-> op]), row[Source] = Absent
      PROVE  /\ Led(outbox'[d], row)
             /\ (\E j \in DOMAIN outbox[d] : outbox[d][j].ent = Source) =>
                  \E j \in DOMAIN outbox'[d] : outbox'[d][j].ent = Source
  <2> DEFINE x == [key |-> keys + 1, ent |-> e, op |-> op]
  <2>1. keys + 1 \in 1..MaxKeys /\ x.ent = e /\ x.op = op
    BY <1>3, SyncAssumption DEF Queued, Enqueue, SyncTypes
  <2>2. x \in Operation
    BY <2>1 DEF Operation
  <2>3. op = "create" /\ e # Source => \E j \in DOMAIN outbox[d] : outbox[d][j].ent = Source
    BY <1>1, <1>3 DEF Queued, Edit
  <2> HIDE DEF x
  <2>4. /\ outbox'[d] = Append(outbox[d], x) /\ Len(outbox'[d]) = Len(outbox[d]) + 1 /\ Len(outbox[d]) \in Nat
        /\ DOMAIN outbox'[d] = 1..(Len(outbox[d]) + 1) /\ DOMAIN outbox[d] = 1..Len(outbox[d])
        /\ \A i \in 1..Len(outbox[d]) : outbox'[d][i] = outbox[d][i]
        /\ outbox'[d][Len(outbox[d]) + 1] = x
    BY <1>1, <1>3, <2>2 DEF x
  <2>5. ASSUME NEW i \in DOMAIN outbox'[d], outbox'[d][i].op = "create", outbox'[d][i].ent # Source
        PROVE  \E j \in 1..(i - 1) : outbox'[d][j].ent = Source
    <3>1. CASE i \in 1..Len(outbox[d])
      <4>1. \E j \in 1..(i - 1) : outbox[d][j].ent = Source
        BY <1>1, <1>3, <2>4, <2>5, <3>1 DEF Led
      <4> QED
        BY <2>4, <3>1, <4>1
    <3>2. CASE i = Len(outbox[d]) + 1
      <4>1. \E j \in 1..Len(outbox[d]) : outbox[d][j].ent = Source
        BY <2>1, <2>3, <2>4, <2>5, <3>2
      <4> QED
        BY <2>4, <3>2, <4>1
    <3> QED
      BY <2>4, <3>1, <3>2
  <2> QED
    BY <2>4, <2>5 DEF Led
<1>4. ASSUME NEW s \in Syncs, Acknowledge(s), d = DeviceOf[s], outbox'[d] = Without(outbox[d], Item(s)),
             row[Source] = Absent
      PROVE  /\ Led(outbox'[d], row)
             /\ (\E j \in DOMAIN outbox[d] : outbox[d][j].ent = Source) =>
                  \E j \in DOMAIN outbox'[d] : outbox'[d][j].ent = Source
  <2>1. PICK k \in DOMAIN sync[s].items : Item(s) = sync[s].items[k] /\ Item(s) \in Operation
                                            /\ (Item(s).key \in written \/ Refused(Item(s)))
    BY <1>4, AcknowledgedItem DEF Item
  <2>2. Item(s) \in Ops
    BY <2>1, OpsAre DEF OpsShape
  <2>3. \A j \in DOMAIN outbox[d] : outbox[d][j].key = Item(s).key => outbox[d][j].ent # Source
    <3>1. ASSUME NEW j \in DOMAIN outbox[d], outbox[d][j].key = Item(s).key
          PROVE  outbox[d][j].ent # Source
      <4>1. outbox[d][j] \in Ops
        BY OpsAre DEF OpsShape
      <4>2. CASE Item(s).key \in written
        BY <1>4, <3>1, <4>1, <4>2 DEF RowsInv, RowsAre
      <4>3. CASE Refused(Item(s))
        <5>1. outbox[d][j] = Item(s)
          BY <2>2, <3>1, <4>1 DEF KeysInv
        <5> QED
          BY <4>3, <5>1 DEF Refused, Fit
      <4> QED
        BY <2>1, <4>2, <4>3
    <3> QED
      BY <3>1
  <2>4. PICK w : w = Without(outbox[d], Item(s))
    OBVIOUS
  <2>5. CASE w = outbox[d]
    BY <1>1, <1>4, <2>4, <2>5
  <2>6. ASSUME NEW n \in 1..Len(outbox[d]), outbox[d][n].key = Item(s).key, Len(w) = Len(outbox[d]) - 1,
               \A i \in 1..(n - 1) : w[i] = outbox[d][i],
               \A i \in n..(Len(outbox[d]) - 1) : w[i] = outbox[d][i + 1], w \in Seq(Operation)
        PROVE  /\ Led(w, row)
               /\ (\E j \in DOMAIN outbox[d] : outbox[d][j].ent = Source) => \E j \in DOMAIN w : w[j].ent = Source
    <3>1. outbox[d][n].ent # Source
      BY <1>1, <2>3, <2>6
    <3>2. DOMAIN w = 1..(Len(outbox[d]) - 1) /\ DOMAIN outbox[d] = 1..Len(outbox[d]) /\ Len(outbox[d]) \in Nat
      BY <1>1, <2>6
    <3>3. \A j \in 1..Len(outbox[d]) : outbox[d][j].ent = Source =>
            \/ j \in 1..(n - 1) /\ w[j].ent = Source
            \/ j - 1 \in n..(Len(outbox[d]) - 1) /\ w[j - 1].ent = Source
      <4>1. ASSUME NEW j \in 1..Len(outbox[d]), outbox[d][j].ent = Source
            PROVE  \/ j \in 1..(n - 1) /\ w[j].ent = Source
                   \/ j - 1 \in n..(Len(outbox[d]) - 1) /\ w[j - 1].ent = Source
        <5>1. j # n
          BY <3>1, <4>1
        <5>2. CASE j < n
          BY <2>6, <4>1, <5>2
        <5>3. CASE j > n
          <6>1. j - 1 \in n..(Len(outbox[d]) - 1) /\ (j - 1) + 1 = j
            BY <3>2, <5>3
          <6> QED
            BY <2>6, <4>1, <6>1
        <5> QED
          BY <5>1, <5>2, <5>3
      <4> QED
        BY <4>1
    <3>4. ASSUME NEW i \in DOMAIN w, w[i].op = "create", w[i].ent # Source
          PROVE  \E j \in 1..(i - 1) : w[j].ent = Source
      <4>1. CASE i < n
        <5>1. w[i] = outbox[d][i] /\ i \in DOMAIN outbox[d]
          BY <2>6, <3>2, <4>1
        <5>2. PICK j \in 1..(i - 1) : outbox[d][j].ent = Source
          BY <1>1, <1>4, <3>4, <5>1 DEF Led
        <5> QED
          BY <2>6, <3>2, <4>1, <5>2
      <4>2. CASE i >= n
        <5>1. w[i] = outbox[d][i + 1] /\ i + 1 \in DOMAIN outbox[d]
          BY <2>6, <3>2, <4>2
        <5>2. PICK j \in 1..i : outbox[d][j].ent = Source
          BY SMTT(20), <1>1, <1>4, <3>2, <3>4, <5>1 DEF Led
        <5>3. j \in 1..Len(outbox[d])
          BY <3>2, <5>2
        <5> QED
          BY <3>2, <3>3, <4>2, <5>2, <5>3
      <4> QED
        BY <3>2, <4>1, <4>2
    <3> QED
      BY <3>2, <3>3, <3>4 DEF Led
  <2>7. /\ w \in Seq(Operation)
        /\ \/ w = outbox[d]
           \/ \E n \in 1..Len(outbox[d]) :
                /\ outbox[d][n].key = Item(s).key
                /\ Len(w) = Len(outbox[d]) - 1
                /\ \A i \in 1..(n - 1) : w[i] = outbox[d][i]
                /\ \A i \in n..(Len(outbox[d]) - 1) : w[i] = outbox[d][i + 1]
    BY <1>1, <2>1, <2>4, WithoutLeaves
  <2>8. outbox'[d] = w
    BY <1>4, <2>4
  <2> HIDE <2>4
  <2> QED
    BY <2>5, <2>6, <2>7, <2>8
<1> QED
  BY <1>2, <1>3, <1>4, OutboxStep DEF OutboxChange

\* No batch gets a child's create before its source's: outboxes are appended to and
\* pushed in order, and a row is taken out only when it was accepted.
LEMMA LedStep ==
  ASSUME SyncTypes, SyncTypes', CursorInv, KeysInv, RowsInv, LedInv, AckInv, SyncNext
  PROVE  LedInv'
<1> SUFFICES ASSUME Source \notin Unfit
             PROVE  LedInv'
  BY DEF LedInv
<1>1. row[Source] # Absent => row'[Source] # Absent
  BY RowsStep
<1>2. \A b : Led(b, row) \/ row[Source] # Absent => \A i \in DOMAIN b : b[i].op = "create" /\ b[i].ent # Source =>
        row'[Source] # Absent \/ \E j \in 1..(i - 1) : b[j].ent = Source
  BY <1>1 DEF Led
<1> DEFINE Leads(b, r) == \A i \in DOMAIN b : b[i].op = "create" /\ b[i].ent # Source =>
                            r[Source] # Absent \/ \E j \in 1..(i - 1) : b[j].ent = Source
<1>3. /\ \A d \in Devices : Led(outbox[d], row) /\ outbox[d] \in Seq(Operation)
      /\ \A s \in Syncs : Led(sync[s].items, row) /\ DeviceOf[s] \in Devices
      /\ \A m \in late : Led(m.items, row)
      /\ Led(Todo, Rows) /\ Todo \in Seq(Operation)
  BY TodoType, SyncAssumption DEF LedInv, Sent, SyncTypes
<1>4. \A d \in Devices : Leads(outbox'[d], row')
  BY <1>2, OutboxLed
<1>5. Leads(<<>>, row') /\ Leads(<<>>, Rows')
  OBVIOUS
<1>6. \A s \in Syncs : Leads(sync'[s].items, row')
  <2> SUFFICES ASSUME NEW s \in Syncs
               PROVE  Leads(sync'[s].items, row')
    OBVIOUS
  <2>1. Leads(sync[s].items, row')
    BY <1>2, <1>3
  <2>2. Leads(Pending(DeviceOf[s]), row')
    <3> PICK d \in Devices : d = DeviceOf[s]
      BY <1>3
    <3>1. /\ Pending(d) \in Seq(Operation) /\ Len(Pending(d)) <= Len(outbox[d])
          /\ \A i \in DOMAIN Pending(d) : i \in DOMAIN outbox[d] /\ Pending(d)[i] = outbox[d][i]
      BY <1>3, PendingIsPrefix
    <3>2. ASSUME NEW i \in DOMAIN Pending(d), NEW j \in 1..(i - 1)
          PROVE  j \in DOMAIN Pending(d)
      BY <3>1
    <3>3. Leads(outbox[d], row')
      BY <1>2, <1>3
    <3> QED
      BY <3>1, <3>2, <3>3
  <2> HIDE DEF Leads
  <2>3. sync'[s].items \in {sync[s].items, <<>>, Pending(DeviceOf[s])}
    BY ItemsStep DEF ItemsChange
  <2> QED
    BY <1>5, <2>1, <2>2, <2>3
<1>7. \A m \in late' : Leads(m.items, row')
  BY <1>2, <1>3, LateStep DEF LateChange
<1>8. Leads(Todo', Rows')
  <2>1. CASE Todo' = Todo /\ Rows' = Rows
    BY <1>3, <2>1 DEF Led
  <2>2. CASE Rows' = row /\ row' = row /\ \E s \in Syncs : Todo' = sync[s].items
    BY <1>3, <2>2 DEF Led
  <2>3. CASE Rows' = row /\ row' = row /\ \E m \in late : Todo' = m.items
    BY <1>3, <2>3 DEF Led
  <2>4. CASE Todo # <<>> /\ Todo' = Tail(Todo) /\ ApplyOperation
    <3> DEFINE o == Head(Todo)
    <3>1. o = Todo[1] /\ 1 \in DOMAIN Todo /\ \A i \in DOMAIN Todo' : i + 1 \in DOMAIN Todo /\ Todo'[i] = Todo[i + 1]
      BY <1>3, <2>4
    <3>2. Rows[Source] # Absent \/ o.ent = Source => Rows'[Source] # Absent
      <4>1. CASE Rows' = Wrote(Rows, o)
        BY <2>4, <4>1, AcceptedIs
      <4>2. CASE ~Accepts(Rows, o) /\ Rows' = Rows
        BY <4>2 DEF Accepts
      <4> QED
        BY <2>4, <4>1, <4>2, PushApplied
    <3> HIDE DEF o
    <3>3. ASSUME NEW i \in DOMAIN Todo', Todo'[i].op = "create", Todo'[i].ent # Source, Rows'[Source] = Absent
          PROVE  \E j \in 1..(i - 1) : Todo'[j].ent = Source
      <4>1. PICK j \in 1..i : Todo[j].ent = Source
        <5>1. i + 1 \in DOMAIN Todo /\ Todo'[i] = Todo[i + 1] /\ i \in Nat
          BY <1>3, <2>4, <3>1
        <5> QED
          BY <1>3, <3>2, <3>3, <5>1 DEF Led
      <4>2. j # 1
        BY <3>1, <3>2, <3>3, <4>1
      <4>3. j - 1 \in DOMAIN Todo' /\ j - 1 \in 1..(i - 1) /\ Todo'[j - 1] = Todo[j]
        BY <1>3, <2>4, <4>1, <4>2
      <4> QED
        BY <4>1, <4>3
    <3> QED
      BY <3>3
  <2>5. CASE Todo' = <<>>
    BY <1>5, <2>5
  <2> QED
    BY <2>1, <2>2, <2>3, <2>4, <2>5, TodoStep DEF TodoChange
<1>9. ASSUME NEW d \in Devices, local'[d][Source] # Absent
      PROVE  row'[Source] # Absent \/ \E j \in DOMAIN outbox'[d] : outbox'[d][j].ent = Source
  <2>1. CASE local[d][Source] # Absent
    <3>1. row[Source] # Absent \/ \E j \in DOMAIN outbox[d] : outbox[d][j].ent = Source
      BY <2>1 DEF LedInv
    <3> QED
      BY <1>1, <3>1, OutboxLed
  <2>2. CASE local[d][Source] = Absent
    <3>1. local' # local
      BY <1>9, <2>2
    <3>2. ASSUME NEW c \in Devices, NEW e \in Entities, NEW op \in {"create", "update", "delete"}, Edit(c, e, op)
          PROVE  \E j \in DOMAIN outbox'[d] : outbox'[d][j].ent = Source
      <4>1. c = d /\ e = Source
        <5>1. local' = [local EXCEPT ![c][e] = IF op = "delete" THEN Absent ELSE keys + 1]
          BY <3>2 DEF Edit
        <5> QED
          BY <1>9, <2>2, <5>1, SyncAssumption DEF SyncTypes
      <4> DEFINE x == [key |-> keys + 1, ent |-> e, op |-> op]
      <4>2. x \in Operation /\ x.ent = Source
        <5>1. keys + 1 \in 1..MaxKeys
          BY <3>2, SyncAssumption DEF Edit, Enqueue, SyncTypes
        <5> QED
          BY <4>1, <5>1, SyncAssumption DEF Operation
      <4>3. outbox' = [outbox EXCEPT ![d] = Append(outbox[d], x)]
        BY <3>2, <4>1 DEF Edit, Enqueue, SyncTypes
      <4> HIDE DEF x
      <4>4. outbox'[d] = Append(outbox[d], x)
        BY <4>3 DEF SyncTypes
      <4>5. Len(outbox[d]) + 1 \in DOMAIN outbox'[d] /\ outbox'[d][Len(outbox[d]) + 1] = x
        BY <1>3, <4>2, <4>4
      <4> QED
        BY <4>2, <4>5
    <3>3. ASSUME NEW s \in Syncs, ApplyOne(s)
          PROVE  row'[Source] # Absent
      <4> DEFINE o == log[FirstIn(sync[s].page)]
      <4>1. FirstIn(sync[s].page) \in DOMAIN log /\ o.ent \in Entities
        BY <3>3, AppliedRow
      <4>2. (o.ent = Source => row[Source] # Absent) /\ row' = row
        BY <3>3, <4>1 DEF RowsInv, ApplyOne, serverVars
      <4>3. PICK v : local' = [local EXCEPT ![DeviceOf[s]][o.ent] = v]
        BY <3>3 DEF ApplyOne
      <4> HIDE DEF o
      <4>4. o.ent = Source
        <5>1. local \in [Devices -> [Entities -> Nat]] /\ DeviceOf[s] \in Devices
          BY SyncAssumption DEF SyncTypes
        <5> QED
          BY <1>9, <2>2, <4>1, <4>3, <5>1
      <4> QED
        BY <4>2, <4>4
    <3>4. ASSUME NEW s \in Syncs, StartSync(s) \/ Acknowledge(s) \/ EndPush(s) \/ AdvanceCursor(s) \/ Abandon(s)
                                   \/ ReceivePush(s) \/ PullPage(s)
          PROVE  local' = local
      BY <3>4 DEF StartSync, Acknowledge, EndPush, AdvanceCursor, Abandon, ReceivePush, PullPage, deviceVars
    <3>5. ASSUME (\E m \in late : ReceiveLate(m)) \/ ApplyOperation \/ CommitPush \/ RollbackPush
          PROVE  local' = local
      BY <3>5 DEF ReceiveLate, ApplyOperation, CommitPush, RollbackPush, deviceVars
    <3>6. ASSUME NEW c \in Devices, EditSource(c)
          PROVE  local'[d][Source] # Absent => local[d][Source] # Absent
      BY <3>6, AsideIs, SyncAssumption
    <3> QED
      BY <1>9, <2>2, <3>1, <3>2, <3>3, <3>4, <3>5, <3>6 DEF SyncNext
  <2> QED
    BY <2>1, <2>2
<1> QED
  BY <1>4, <1>6, <1>7, <1>8, <1>9 DEF LedInv, Led, Sent

\* What a push does to the sync that waits for it, or to one that does not.
LEMMA AckStep ==
  ASSUME SyncTypes, SyncTypes', CursorInv, KeysInv, RowsInv, LedInv, AckInv, SyncNext
  PROVE  AckInv'
<1>1. /\ \A s \in Syncs : push # NoOne /\ push.from = s => Awaits(sync[s], Keys, Todo, push.ok)
      /\ \A s \in Syncs : Answered(sync[s], written)
      /\ \A o \in acked : o.key \in written \/ Refused(o)
  BY DEF AckInv, AckedIsWritten
<1> DEFINE Waiting == \A s \in Syncs : push' # NoOne /\ push'.from = s => Awaits(sync'[s], Keys', Todo', push'.ok)
           Settled == \A s \in Syncs : Answered(sync'[s], written')
           Taken == \A o \in acked' : o.key \in written' \/ Refused(o)
<1>2. SUFFICES Waiting /\ Settled /\ Taken
  BY DEF AckInv, AckedIsWritten
<1>3. written \subseteq written' /\ sync \in [Syncs -> Call]
  BY RowsStep DEF SyncTypes
<1>4. \A s \in Syncs : Answered(sync[s], written')
  BY <1>1, <1>3 DEF Answered
<1>5. \A c, K : c.pc # "ack" => Answered(c, K)
  BY DEF Answered
<1>6. acked' = acked => Taken
  BY <1>1, <1>3
<1>7. ASSUME UNCHANGED <<push, row, log, written>>, NEW s \in Syncs, sync[s].pc # "push",
             NEW v, sync' = [sync EXCEPT ![s] = v], Answered(v, written')
      PROVE  Waiting /\ Settled
  <2>1. sync'[s] = v /\ \A t \in Syncs \ {s} : sync'[t] = sync[t]
    BY <1>3, <1>7
  <2>2. ~(push # NoOne /\ push.from = s)
    BY <1>1, <1>7 DEF Awaits
  <2>3. UNCHANGED <<Keys, Todo>>
    BY <1>7, PushKept
  <2> QED
    BY <1>1, <1>4, <1>7, <2>1, <2>2, <2>3
<1>8. ASSUME UNCHANGED <<push, row, log, written>>, UNCHANGED <<sync, acked>>
      PROVE  Waiting /\ Settled /\ Taken
  BY <1>1, <1>4, <1>6, <1>8, PushKept
<1>9. IdleSync.pc = "idle"
  BY DEF IdleSync
<1>10. ASSUME NEW d \in Devices, NEW e \in Entities, NEW op \in {"create", "update", "delete"}, Edit(d, e, op)
       PROVE  Waiting /\ Settled /\ Taken
  BY <1>8, <1>10 DEF Edit, serverVars
<1>11. ASSUME NEW s \in Syncs, StartSync(s)
       PROVE  Waiting /\ Settled /\ Taken
  <2> DEFINE pc == IF outbox[DeviceOf[s]] = <<>> THEN "pull" ELSE "push"
             v == [pc |-> pc, items |-> Pending(DeviceOf[s]), ok |-> <<>>, at |-> cursor[DeviceOf[s]], page |-> {},
                   next |-> <<0, 0>>, more |-> FALSE]
  <2>1. sync' = [sync EXCEPT ![s] = v] /\ sync[s].pc = "idle" /\ v.pc # "ack"
    BY <1>11 DEF StartSync
  <2>2. UNCHANGED <<push, row, log, written>> /\ acked' = acked
    BY <1>11 DEF StartSync, serverVars
  <2> HIDE DEF v, Waiting, Settled, Taken
  <2> QED
    BY <1>5, <1>6, <1>7, <2>1, <2>2
<1>12. ASSUME NEW s \in Syncs, Acknowledge(s)
       PROVE  Waiting /\ Settled /\ Taken
  <2> DEFINE v == [sync[s] EXCEPT !.ok = Tail(sync[s].ok)]
             item == FirstOf(sync[s].items, Head(sync[s].ok))
  <2>1. sync' = [sync EXCEPT ![s] = v] /\ sync[s].pc = "ack" /\ sync[s].ok # <<>>
    BY <1>3, <1>12 DEF Acknowledge
  <2>2. UNCHANGED <<push, row, log, written>> /\ acked' = acked \union {item}
    BY <1>12 DEF Acknowledge, serverVars
  <2>3. item.key \in written \/ Refused(item)
    BY <1>12, AcknowledgedItem
  <2>4. v.items = sync[s].items /\ v.ok = Tail(sync[s].ok) /\ v.pc = "ack" /\ sync[s].ok \in Seq(Entities)
    BY <1>3, <2>1 DEF Call
  <2> HIDE DEF v, item
  <2>5. Answered(v, written')
    <3>1. Names(sync[s].items, sync[s].ok) 
          /\ \A i \in DOMAIN sync[s].items : sync[s].items[i].key \in written' \/ Refused(sync[s].items[i])
      BY <1>4, <2>1 DEF Answered
    <3>2. ASSUME NEW k \in DOMAIN Tail(sync[s].ok)
          PROVE  k + 1 \in DOMAIN sync[s].ok /\ Tail(sync[s].ok)[k] = sync[s].ok[k + 1]
      BY <2>1, <2>4
    <3>3. Names(sync[s].items, v.ok)
      BY <2>4, <3>1, <3>2 DEF Names
    <3> QED
      BY <2>4, <3>1, <3>3 DEF Answered
  <2>6. Taken
    BY <1>1, <1>3, <2>2, <2>3
  <2> HIDE DEF Waiting, Settled, Taken
  <2> QED
    BY <1>7, <2>1, <2>2, <2>5, <2>6
<1>13. ASSUME NEW s \in Syncs, EndPush(s)
       PROVE  Waiting /\ Settled /\ Taken
  <2> DEFINE v == [sync[s] EXCEPT !.pc = "pull", !.at = cursor[DeviceOf[s]]]
  <2>1. sync' = [sync EXCEPT ![s] = v] /\ sync[s].pc = "ack"
    BY <1>3, <1>13 DEF EndPush
  <2>2. UNCHANGED <<push, row, log, written>> /\ acked' = acked
    BY <1>13 DEF EndPush, serverVars, syncHistory
  <2>3. v.pc = "pull"
    BY <1>3 DEF Call
  <2> HIDE DEF v, Waiting, Settled, Taken
  <2> QED
    BY <1>5, <1>6, <1>7, <2>1, <2>2, <2>3
<1>14. ASSUME NEW s \in Syncs, ApplyOne(s)
       PROVE  Waiting /\ Settled /\ Taken
  <2> DEFINE v == [sync[s] EXCEPT !.page = sync[s].page \ {FirstIn(sync[s].page)}]
  <2>1. sync' = [sync EXCEPT ![s] = v] /\ sync[s].pc = "apply"
    BY <1>3, <1>14 DEF ApplyOne
  <2>2. UNCHANGED <<push, row, log, written>> /\ acked' = acked
    BY <1>14 DEF ApplyOne, serverVars
  <2>3. v.pc = "apply"
    BY <1>3, <2>1 DEF Call
  <2> HIDE DEF v, Waiting, Settled, Taken
  <2> QED
    BY <1>5, <1>6, <1>7, <2>1, <2>2, <2>3
<1>15. ASSUME NEW s \in Syncs, AdvanceCursor(s)
       PROVE  Waiting /\ Settled /\ Taken
  <2> DEFINE v == IF sync[s].more THEN [sync[s] EXCEPT !.pc = "pull", !.at = sync[s].next] ELSE IdleSync
  <2>1. sync' = [sync EXCEPT ![s] = v] /\ sync[s].pc = "apply"
    BY <1>3, <1>15 DEF AdvanceCursor
  <2>2. UNCHANGED <<push, row, log, written>> /\ acked' = acked
    BY <1>15 DEF AdvanceCursor, serverVars, syncHistory
  <2>3. v.pc \in {"pull", "idle"}
    BY <1>3, <1>9 DEF Call
  <2> HIDE DEF v, Waiting, Settled, Taken
  <2> QED
    BY <1>5, <1>6, <1>7, <2>1, <2>2, <2>3
<1>16. ASSUME NEW s \in Syncs, PullPage(s)
       PROVE  Waiting /\ Settled /\ Taken
  <2> DEFINE all == Changes(DeviceOf[s], sync[s].at)
             page == FirstPage(all)
             last == LastIn(page)
             more == all # page
             next == <<log[last].at, last>>
             v == [sync[s] EXCEPT !.pc = "apply", !.page = page, !.more = more, !.next = next]
  <2>1. (sync' = [sync EXCEPT ![s] = IdleSync] \/ sync' = [sync EXCEPT ![s] = v]) /\ sync[s].pc = "pull"
    BY <1>3, <1>16 DEF PullPage
  <2>2. UNCHANGED <<push, row, log, written>> /\ acked' = acked
    BY <1>16 DEF PullPage, serverVars, syncHistory
  <2> HIDE DEF all, page, last, more, next
  <2>3. v.pc = "apply"
    BY <1>3, <2>1 DEF Call
  <2> HIDE DEF v, Waiting, Settled, Taken
  <2> QED
    BY <1>5, <1>6, <1>7, <1>9, <2>1, <2>2, <2>3
<1>17. ASSUME NEW s \in Syncs, Abandon(s)
       PROVE  Waiting /\ Settled /\ Taken
  <2>1. sync' = [sync EXCEPT ![s] = IdleSync] /\ UNCHANGED <<written, acked>>
    BY <1>17 DEF Abandon, syncHistory
  <2>2. sync'[s] = IdleSync /\ \A t \in Syncs \ {s} : sync'[t] = sync[t]
    BY <1>3, <2>1
  <2>3. UNCHANGED <<Todo, Keys>> /\ ((push' = push /\ push.from # s) \/ push'.from = "gone")
    BY <1>17, PushOrphaned
  <2>4. Settled
    BY <1>4, <1>5, <1>9, <2>2
  <2>5. Waiting
    BY <1>1, <2>2, <2>3, SyncAssumption
  <2> QED
    BY <1>6, <2>1, <2>4, <2>5
<1>18. ASSUME NEW s \in Syncs, ReceivePush(s)
       PROVE  Waiting /\ Settled /\ Taken
  <2>1. BeginPush(s, DeviceOf[s], sync[s].items) /\ UNCHANGED <<row, log, written>> /\ s # "nobody"
        /\ UNCHANGED <<sync, acked>> /\ sync[s].pc = "push"
    BY <1>18, SyncAssumption DEF ReceivePush, syncHistory
  <2>2. Todo' = sync[s].items
    BY <2>1, PushBegun
  <2>3. push'.from = s /\ push'.ok = <<>>
    BY <2>1 DEF BeginPush
  <2>4. Awaits(sync[s], Keys', sync[s].items, <<>>)
    BY <2>1 DEF Awaits, Names
  <2>5. Waiting
    BY <2>1, <2>2, <2>3, <2>4
  <2> QED
    BY <1>4, <1>6, <2>1, <2>5
<1>19. ASSUME NEW m \in late, ReceiveLate(m)
       PROVE  Waiting /\ Settled /\ Taken
  <2>1. push'.from = "gone" /\ UNCHANGED <<sync, acked>>
    BY <1>19 DEF ReceiveLate, BeginPush, syncHistory
  <2> QED
    BY <1>4, <1>6, <2>1, SyncAssumption
<1>20. CASE ApplyOperation
  <2> DEFINE o == Head(Todo)
  <2>1. UNCHANGED <<sync, acked>>
    BY <1>20 DEF ApplyOperation, syncHistory
  <2>2. /\ push # NoOne /\ push'.from = push.from /\ Todo \in Seq(Operation) /\ Todo # <<>> /\ Todo' = Tail(Todo)
        /\ push.ok \in Seq(Entities) /\ o \in Operation /\ Rows \in [Entities -> Nat]
        /\ \/ Keys' = Keys \union {o.key} /\ push'.ok = Append(push.ok, o.ent)
           \/ ~Accepts(Rows, o) /\ Keys' = Keys /\ push'.ok = push.ok
    BY <1>20, PushApplied DEF Transaction
  <2>3. /\ o = Todo[1] /\ 1 \in DOMAIN Todo
        /\ \A i \in DOMAIN Todo : i = 1 \/ (i - 1 \in DOMAIN Todo' /\ Todo'[i - 1] = Todo[i])
    BY <2>2
  <2>4. \A i \in DOMAIN Todo' : i + 1 \in DOMAIN Todo /\ Todo'[i] = Todo[i + 1]
    BY <2>2
  <2>5. o \in Ops
    BY <2>3, OpsAre DEF OpsShape
  <2>6. ~Accepts(Rows, o) => o.key \in Keys \/ Refused(o)
    <3>1. RowsAre(Rows, Keys) /\ (Source \notin Unfit => Led(Todo, Rows))
      BY DEF RowsInv, LedInv
    <3>2. o.op = "create" /\ Rows[o.ent] # Absent => o.key \in Keys
      BY <2>5, <3>1 DEF RowsAre
    <3>3. o.op = "create" /\ o.ent # Source => Rows[Source] # Absent \/ Source \in Unfit
      BY <2>3, <3>1 DEF Led
    <3>4. o.op = "create" /\ (Source \in Unfit \/ o.ent \in Unfit) => Refused(o)
      BY DEF Refused, Fit
    <3> QED
      BY <3>2, <3>3, <3>4 DEF Accepts
  <2>7. (o.key \in Keys' \/ Refused(o)) /\ Keys \subseteq Keys'
    BY <2>2, <2>6
  <2>8. ASSUME NEW s \in Syncs, push'.from = s
        PROVE  Awaits(sync[s], Keys', Todo', push'.ok)
    <3>1. Awaits(sync[s], Keys, Todo, push.ok)
      BY <1>1, <2>2, <2>8
    <3>2. ASSUME NEW i \in DOMAIN sync[s].items
          PROVE  sync[s].items[i].key \in Keys' \/ Refused(sync[s].items[i])
                 \/ \E j \in DOMAIN Todo' : Todo'[j] = sync[s].items[i]
      <4>1. sync[s].items[i].key \in Keys \/ Refused(sync[s].items[i])
            \/ \E j \in DOMAIN Todo : Todo[j] = sync[s].items[i]
        BY <3>1 DEF Awaits
      <4> QED
        BY <2>3, <2>7, <4>1
    <3>3. \A j \in DOMAIN Todo' : \E i \in DOMAIN sync[s].items : sync[s].items[i] = Todo'[j]
      BY <2>4, <3>1 DEF Awaits
    <3>4. Names(sync[s].items, push'.ok)
      <4>1. Names(sync[s].items, push.ok) /\ \E i \in DOMAIN sync[s].items : sync[s].items[i].ent = o.ent
        BY <2>3, <3>1 DEF Awaits
      <4>2. o.ent \in Entities
        BY <2>2 DEF Operation
      <4> HIDE DEF o
      <4>3. CASE push'.ok = Append(push.ok, o.ent)
        <5>1. \A k \in DOMAIN push'.ok : (k \in DOMAIN push.ok /\ push'.ok[k] = push.ok[k]) \/ push'.ok[k] = o.ent
          BY <2>2, <4>2, <4>3
        <5> QED
          BY <4>1, <5>1 DEF Names
      <4> QED
        BY <2>2, <4>1, <4>3
    <3> QED
      BY <3>1, <3>2, <3>3, <3>4 DEF Awaits
  <2>9. Settled
    BY <1>4, <2>1
  <2>10. Waiting
    BY <2>1, <2>2, <2>8
  <2> QED
    BY <1>6, <2>1, <2>9, <2>10
<1>21. CASE CommitPush
  <2>1. push # NoOne /\ push' = NoOne /\ acked' = acked /\ written' = Keys /\ Todo = <<>>
    BY <1>21 DEF CommitPush, Keys, Todo
  <2>2. ASSUME NEW s \in Syncs, push.from = s
        PROVE  Settled
    <3> DEFINE v == [sync[s] EXCEPT !.pc = "ack", !.ok = push.ok]
    <3>1. sync' = [sync EXCEPT ![s] = v]
      BY <1>3, <1>21, <2>2 DEF CommitPush
    <3>2. v.items = sync[s].items /\ v.ok = push.ok
      BY <1>3 DEF Call
    <3> HIDE DEF v
    <3>3. Awaits(sync[s], Keys, <<>>, push.ok)
      BY <1>1, <2>1, <2>2
    <3>4. Answered(v, written')
      BY <2>1, <3>2, <3>3 DEF Answered, Awaits
    <3>5. sync'[s] = v /\ \A t \in Syncs \ {s} : sync'[t] = sync[t]
      BY <1>3, <3>1
    <3> QED
      BY <1>4, <3>4, <3>5
  <2>3. ASSUME push.from \notin Syncs
        PROVE  Settled
    BY <1>4, <1>21, <2>3 DEF CommitPush
  <2>4. Waiting
    BY <2>1
  <2> HIDE DEF Waiting, Settled, Taken
  <2> QED
    BY <1>6, <2>1, <2>2, <2>3, <2>4
<1>22. CASE RollbackPush
  <2>1. push' = NoOne /\ acked' = acked
        /\ (sync' = sync \/ \E s \in Syncs : sync' = [sync EXCEPT ![s] = IdleSync])
    BY <1>22 DEF RollbackPush, syncHistory
  <2>2. \A t \in Syncs : sync'[t] \in {sync[t], IdleSync}
    BY <1>3, <2>1
  <2> QED
    BY <1>4, <1>5, <1>6, <1>9, <2>1, <2>2
<1> HIDE DEF Waiting, Settled, Taken
<1>23. ASSUME NEW d \in Devices, EditSource(d)
       PROVE  Waiting /\ Settled /\ Taken
  BY <1>8, <1>23, AsideIs
<1> QED
  BY <1>10, <1>11, <1>12, <1>13, <1>14, <1>15, <1>16, <1>17, <1>18, <1>19, <1>20, <1>21, <1>22, <1>23 DEF SyncNext

\* A crash ends the transaction and the calls that wait on the network; what the
\* devices and the database hold stays.
LEMMA CrashStep ==
  ASSUME SyncTypes, CursorInv, KeysInv, RowsInv, LedInv, AckInv, Crash
  PROVE  SyncInv'
<1>1. /\ UNCHANGED <<row, log, clock, local, outbox, cursor, late, keys, editors, written, acked, seen>>
      /\ push' = NoOne /\ sync' = [s \in Syncs |-> IF sync[s].pc \in {"push", "pull"} THEN IdleSync ELSE sync[s]]
  BY DEF Crash, deviceVars, syncHistory
<1>2. \A s \in Syncs : sync'[s] = sync[s] \/ sync'[s] = IdleSync
  BY <1>1
<1>3. /\ IdleSync.items = <<>> /\ IdleSync.pc = "idle" /\ IdleSync.page = {} /\ IdleSync.at = <<0, 0>>
      /\ IdleSync.next = <<0, 0>> /\ IdleSync \in Call
  BY DEF IdleSync, Call
<1>4. Todo' = <<>> /\ Rows' = row /\ Log' = log /\ Keys' = written
  BY <1>1 DEF Todo, Rows, Log, Keys
<1>5. written \subseteq Keys
  BY DEF Keys
<1>6. Ops' \subseteq Ops
  <2>1. OpsShape'
    BY OpsAre, PTL
  <2>2. ASSUME NEW x \in Ops'
        PROVE  x \in Ops
    <3>1. \/ \E d \in Devices : \E i \in DOMAIN outbox[d] : x = outbox[d][i]
          \/ \E s \in Syncs : \E i \in DOMAIN sync'[s].items : x = sync'[s].items[i]
          \/ \E m \in late : \E i \in DOMAIN m.items : x = m.items[i]
      BY <1>1, <1>4, <2>1 DEF OpsShape
    <3>2. (\E s \in Syncs : \E i \in DOMAIN sync'[s].items : x = sync'[s].items[i]) =>
             \E s \in Syncs : \E i \in DOMAIN sync[s].items : x = sync[s].items[i]
      BY <1>2, <1>3
    <3> QED
      BY <3>1, <3>2, OpsAre DEF OpsShape
  <2> QED
    BY <2>2
<1>7. SyncTypes'
  <2>1. sync' \in [Syncs -> Call] /\ \A s \in Syncs : sync'[s].page \subseteq DOMAIN log
    BY <1>1, <1>2, <1>3 DEF SyncTypes
  <2> QED
    BY <1>1, <2>1 DEF SyncTypes
<1>8. CursorInv'
  <2>1. Ordered(log)
    <3>1. \A i \in DOMAIN log : i \in DOMAIN Log /\ log[i] = Log[i]
      BY LogType DEF CursorInv
    <3> QED
      BY <3>1 DEF CursorInv, Ordered
  <2>2. Marks(<<0, 0>>) /\ \A d, S : Covers(d, <<0, 0>>, S)
    BY LogType DEF Marks, Covers
  <2> DEFINE Good(s, c) == /\ Marks(c.at) /\ Covers(DeviceOf[s], c.at, seen[DeviceOf[s]]) /\ Marks(c.next)
                           /\ c.pc = "apply" => Covers(DeviceOf[s], c.next, seen[DeviceOf[s]] \union c.page)
  <2>3. \A s \in Syncs : Good(s, sync[s])
    BY DEF CursorInv
  <2>4. \A s \in Syncs : Good(s, IdleSync)
    BY <1>3, <2>2
  <2>5. \A s \in Syncs : Good(s, sync'[s])
    <3> HIDE DEF Good
    <3> QED
      BY <1>2, <2>3, <2>4
  <2>6. Ordered(Log)'
    BY <1>1, <1>4, <2>1 DEF Ordered
  <2>7. (Len(log) <= Len(Log) /\ \A i \in DOMAIN log : log[i] = Log[i])'
    BY <1>1, <1>4, LogType
  <2>8. \A d \in Devices : (Marks(cursor[d]) /\ Covers(d, cursor[d], seen[d]))'
    BY <1>1 DEF CursorInv, Marks, Covers
  <2>9. ASSUME NEW s \in Syncs
        PROVE  /\ Marks(sync[s].at)' /\ Covers(DeviceOf[s], sync[s].at, seen[DeviceOf[s]])'
               /\ Marks(sync[s].next)'
               /\ (sync[s].pc = "apply" => Covers(DeviceOf[s], sync[s].next, seen[DeviceOf[s]] \union sync[s].page))'
    BY <1>1, <2>5 DEF Marks, Covers
  <2> QED
    BY <2>6, <2>7, <2>8, <2>9 DEF CursorInv
<1>9. KeysInv'
  BY <1>1, <1>4, <1>5, <1>6 DEF KeysInv
<1>10. RowsInv'
  BY <1>1, <1>4, <1>6 DEF RowsInv, RowsAre
<1>11. LedInv'
  <2>1. \A r : Led(<<>>, r)
    BY DEF Led
  <2>2. \A b \in Sent' : b \in Sent \/ b = <<>>
    BY <1>1, <1>2, <1>3 DEF Sent
  <2>3. \A b : Led(b, row)' <=> Led(b, row)
    BY <1>1 DEF Led
  <2> QED
    BY <1>1, <1>4, <2>1, <2>2, <2>3 DEF LedInv
<1>12. AckInv'
  BY <1>1, <1>2, <1>3 DEF AckInv, Answered, AckedIsWritten
<1> QED
  BY <1>7, <1>8, <1>9, <1>10, <1>11, <1>12 DEF SyncInv

\* To begin with there is no row, no log, no transaction and no operation.
LEMMA SyncStart ==
  ASSUME SyncInit
  PROVE  SyncInv
<1>1. /\ IdleSync.items = <<>> /\ IdleSync.pc = "idle" /\ IdleSync.page = {} /\ IdleSync.at = <<0, 0>>
      /\ IdleSync.next = <<0, 0>> /\ IdleSync \in Call
  BY DEF IdleSync, Call
<1>2. Todo = <<>> /\ Rows = row /\ Log = <<>> /\ Keys = {}
  BY DEF SyncInit, Todo, Rows, Log, Keys
<1>3. /\ row = [e \in Entities |-> Absent] /\ log = <<>> /\ clock = 0 /\ push = NoOne
      /\ local = [d \in Devices |-> [e \in Entities |-> Absent]]
      /\ outbox = [d \in Devices |-> <<>>] /\ cursor = [d \in Devices |-> <<0, 0>>]
      /\ sync = [s \in Syncs |-> IdleSync] /\ late = {} /\ keys = 0
      /\ editors = [e \in Entities |-> {}] /\ written = {} /\ acked = {}
      /\ seen = [d \in Devices |-> {}]
  BY DEF SyncInit
<1>4. Ops = {}
  BY <1>1, <1>2, <1>3, OpsAre DEF OpsShape
<1>5. SyncTypes
  BY <1>1, <1>3 DEF SyncTypes, Absent
<1>6. CursorInv
  BY <1>1, <1>2, <1>3 DEF CursorInv, Ordered, Marks, Covers
<1>7. KeysInv
  BY <1>2, <1>4 DEF KeysInv
<1>8. RowsInv
  BY <1>2, <1>3, <1>4 DEF RowsInv, RowsAre
<1>9. LedInv
  <2>1. \A b \in Sent : b = <<>>
    BY <1>1, <1>3 DEF Sent
  <2> QED
    BY <1>2, <1>3, <2>1, SyncAssumption DEF LedInv, Led
<1>10. AckInv
  BY <1>1, <1>3 DEF AckInv, Answered, AckedIsWritten
<1> QED
  BY <1>5, <1>6, <1>7, <1>8, <1>9, <1>10 DEF SyncInv

\* What no variable of the synchronisation changes, no invariant of it notices.
LEMMA SyncStutter ==
  ASSUME SyncInv, UNCHANGED syncVars
  PROVE  SyncInv'
<1>1. SyncTypes /\ CursorInv /\ KeysInv /\ RowsInv /\ LedInv /\ AckInv
  BY DEF SyncInv
<1>2. UNCHANGED <<row, log, clock, push, local, outbox, cursor, sync, late, keys, editors, written, acked, seen>>
  BY DEF syncVars, serverVars, deviceVars, syncHistory
<1>3. UNCHANGED <<Todo, Rows, Log, Keys>>
  BY <1>2, PushKept
<1>4. UNCHANGED Sent
  BY <1>2 DEF Sent
<1>5. UNCHANGED Ops
  BY <1>3, <1>4 DEF Ops, Batches
<1>6. SyncTypes'
  BY <1>1, <1>2 DEF SyncTypes
<1>7. CursorInv'
  BY <1>1, <1>2, <1>3 DEF CursorInv, Ordered, Marks, Covers
<1>8. KeysInv'
  BY <1>1, <1>2, <1>3, <1>5 DEF KeysInv
<1>9. RowsInv'
  BY <1>1, <1>2, <1>3, <1>5 DEF RowsInv, RowsAre
<1>10. LedInv'
  BY <1>1, <1>2, <1>3, <1>4 DEF LedInv, Led
<1>11. AckInv'
  BY <1>1, <1>2, <1>3 DEF AckInv, AckedIsWritten
<1> QED
  BY <1>6, <1>7, <1>8, <1>9, <1>10, <1>11 DEF SyncInv

\* Every step of the server and its clients keeps the whole of it.
LEMMA SyncStep ==
  ASSUME SyncInv, [ReaderNext]_readerVars
  PROVE  SyncInv'
<1>1. SyncTypes /\ CursorInv /\ KeysInv /\ RowsInv /\ LedInv /\ AckInv
  BY DEF SyncInv
<1>2. CASE SyncNext
  <2>1. SyncTypes'
    BY <1>2, <1>1, SyncTypesStep
  <2>2. CursorInv'
    BY <1>2, <2>1, <1>1, CursorStep
  <2>3. KeysInv'
    BY <1>2, <2>1, <1>1, KeysStep
  <2>4. RowsInv'
    BY <1>2, <2>1, <1>1, RowsStep
  <2>5. LedInv'
    BY <1>2, <2>1, <1>1, LedStep
  <2>6. AckInv'
    BY <1>2, <2>1, <1>1, AckStep
  <2> QED
    BY <2>1, <2>2, <2>3, <2>4, <2>5, <2>6 DEF SyncInv
<1>3. CASE Crash
  BY <1>3, <1>1, CrashStep
<1>4. CASE UNCHANGED syncVars
  BY <1>4, SyncStutter
<1>5. SyncNext \/ Crash \/ UNCHANGED syncVars
  BY DEF ReaderNext, CrashInRegister, CrashInStore, readerVars
<1> QED
  BY <1>2, <1>3, <1>4, <1>5

\* The synchronisation's inductive invariant holds throughout: the log is stamped in
\* its order, cursors cover what was applied, keys name one operation each, rows were
\* created by accepted operations, creates come in order, and a sync that waits for
\* its push finds what it sent in the transaction.
THEOREM SyncInvariance == ReaderSpec => []SyncInv
<1>1. ReaderInit => SyncInv
  BY SyncStart DEF ReaderInit
<1>2. SyncInv /\ [ReaderNext]_readerVars => SyncInv'
  BY SyncStep
<1> QED
  BY <1>1, <1>2, PTL DEF ReaderSpec

\* NothingSkipped: a device's cursor never passes a row of another device that it has
\* not applied, however pages overlap, syncs fail, batches roll back or the server
\* crashes.
THEOREM CursorsSkipNothing == ReaderSpec => []NothingSkipped
<1>1. SyncInv => NothingSkipped
  BY DEF SyncInv, CursorInv, Covers, NothingSkipped
<1> QED
  BY <1>1, SyncInvariance, PTL

\* AckedIsWritten: an operation leaves an outbox only if the server accepted and
\* committed it, or if it is the create of an entity the server refuses for good,
\* however answers are lost, batches repeated or late, and whichever row the answer
\* made the client remove.
THEOREM AckedAreWritten == ReaderSpec => []AckedIsWritten
<1>1. SyncInv => AckedIsWritten
  BY DEF SyncInv, AckInv
<1> QED
  BY <1>1, SyncInvariance, PTL

(***************************************************************************)
(* Agreement                                                               *)
(***************************************************************************)

\* The operation a row of the log is of.
Logged(l, i) == [key |-> l[i].key, ent |-> l[i].ent, op |-> l[i].op]

\* Every operation of device d there is: in its outbox, its batches, its pushes on
\* the way or under way, and in the log.
OpsOf(d) ==
  UNION {{outbox[d][i] : i \in DOMAIN outbox[d]},
         UNION {{sync[s].items[i] : i \in DOMAIN sync[s].items} : s \in {t \in Syncs : DeviceOf[t] = d}},
         UNION {{m.items[i] : i \in DOMAIN m.items} : m \in {n \in late : n.dev = d}},
         {Todo[i] : i \in {j \in DOMAIN Todo : push.dev = d}},
         {Logged(Log, i) : i \in {j \in DOMAIN Log : Log[j].dev = d}}}
AllOps == UNION {OpsOf(d) : d \in Devices}
Change == [key : Nat, ent : Entities, op : {"create", "update", "delete"}]

\* What d has still to send, or has sent for good.
Held(d, o) ==
  \/ \E i \in DOMAIN outbox[d] : outbox[d][i] = o
  \/ \E i \in DOMAIN log : log[i].dev = d /\ Logged(log, i) = o

\* A key names one operation of one device, the log has what was accepted, and only
\* devices that sync send anything.
OwnInv ==
  /\ \A d \in Devices : \A o \in OpsOf(d) : o.key <= keys
  /\ \A c, d \in Devices : \A o \in OpsOf(c), p \in OpsOf(d) : o.key = p.key => c = d /\ o = p
  /\ \A k \in written : \E i \in DOMAIN log : log[i].key = k
  /\ \A k \in Keys : \E i \in DOMAIN Log : Log[i].key = k
  /\ \A i \in DOMAIN Log : Log[i].dev \in Syncing
  /\ \A m \in late : m.dev \in Syncing
  /\ push # NoOne => push.dev \in Syncing

-----------------------------------------------------------------------------
(* Operations and their devices *)

\* OpsOf, place by place.
OpsOfShape ==
  \A d, x : x \in OpsOf(d) <=>
    \/ \E i \in DOMAIN outbox[d] : x = outbox[d][i]
    \/ \E s \in Syncs : DeviceOf[s] = d /\ \E i \in DOMAIN sync[s].items : x = sync[s].items[i]
    \/ \E m \in late : m.dev = d /\ \E i \in DOMAIN m.items : x = m.items[i]
    \/ push.dev = d /\ \E i \in DOMAIN Todo : x = Todo[i]
    \/ \E i \in DOMAIN Log : Log[i].dev = d /\ x = Logged(Log, i)

\* The operations of a device, place by place.
LEMMA OpsOfAre == OpsOfShape
<1> SUFFICES ASSUME NEW d, NEW x
             PROVE  x \in OpsOf(d) <=>
                      \/ \E i \in DOMAIN outbox[d] : x = outbox[d][i]
                      \/ \E s \in Syncs : DeviceOf[s] = d /\ \E i \in DOMAIN sync[s].items : x = sync[s].items[i]
                      \/ \E m \in late : m.dev = d /\ \E i \in DOMAIN m.items : x = m.items[i]
                      \/ push.dev = d /\ \E i \in DOMAIN Todo : x = Todo[i]
                      \/ \E i \in DOMAIN Log : Log[i].dev = d /\ x = Logged(Log, i)
  BY DEF OpsOfShape
<1> DEFINE A == {outbox[d][i] : i \in DOMAIN outbox[d]}
           B == UNION {{sync[s].items[i] : i \in DOMAIN sync[s].items} : s \in {t \in Syncs : DeviceOf[t] = d}}
           C == UNION {{m.items[i] : i \in DOMAIN m.items} : m \in {n \in late : n.dev = d}}
           D == {Todo[i] : i \in {j \in DOMAIN Todo : push.dev = d}}
           E == {Logged(Log, i) : i \in {j \in DOMAIN Log : Log[j].dev = d}}
<1>1. x \in A <=> \E i \in DOMAIN outbox[d] : x = outbox[d][i]
  OBVIOUS
<1>2. x \in B <=> \E s \in Syncs : DeviceOf[s] = d /\ \E i \in DOMAIN sync[s].items : x = sync[s].items[i]
  OBVIOUS
<1>3. x \in C <=> \E m \in late : m.dev = d /\ \E i \in DOMAIN m.items : x = m.items[i]
  OBVIOUS
<1>4. x \in D <=> push.dev = d /\ \E i \in DOMAIN Todo : x = Todo[i]
  OBVIOUS
<1>5. x \in E <=> \E i \in DOMAIN Log : Log[i].dev = d /\ x = Logged(Log, i)
  OBVIOUS
<1>6. OpsOf(d) = UNION {A, B, C, D, E}
  BY DEF OpsOf
<1> HIDE DEF A, B, C, D, E
<1>7. x \in UNION {A, B, C, D, E} <=> x \in A \/ x \in B \/ x \in C \/ x \in D \/ x \in E
  OBVIOUS
<1> QED
  BY <1>1, <1>2, <1>3, <1>4, <1>5, <1>6, <1>7, Zenon

\* They are operations.
LEMMA OpsOfType == SyncTypes => \A d \in Devices : OpsOf(d) \subseteq Change
<1> SUFFICES ASSUME SyncTypes, NEW d \in Devices, NEW o \in OpsOf(d)
             PROVE  o \in Change
  OBVIOUS
<1>1. /\ outbox[d] \in Seq(Operation)
      /\ \A s \in Syncs : sync[s].items \in Seq(Operation)
      /\ \A m \in late : m.items \in Seq(Operation)
      /\ Todo \in Seq(Operation) /\ Log \in Seq(LogRow)
  BY TodoType, LogType DEF SyncTypes, Call
<1>2. Operation \subseteq Change
  BY SyncAssumption DEF Operation, Change
<1>3. \A i \in DOMAIN Log : Logged(Log, i) \in Change
  <2>1. ASSUME NEW i \in DOMAIN Log
        PROVE  Logged(Log, i) \in Change
    <3>1. Log[i] \in LogRow
      BY <1>1
    <3> QED
      BY <3>1 DEF LogRow, Logged, Change
  <2> QED
    BY <2>1
<1>4. o \in Operation \/ \E i \in DOMAIN Log : o = Logged(Log, i)
  BY <1>1, OpsOfAre DEF OpsOfShape
<1> QED
  BY <1>2, <1>3, <1>4

\* A row of the log is an operation of its device.
LEMMA LoggedIs ==
  ASSUME SyncTypes, CursorInv, NEW i \in DOMAIN log
  PROVE  /\ i \in DOMAIN Log /\ log[i] = Log[i] /\ Logged(log, i) = Logged(Log, i) /\ log[i] \in LogRow
         /\ log[i].dev \in Devices /\ Logged(log, i) \in OpsOf(log[i].dev) /\ Logged(log, i) \in AllOps
         /\ Logged(log, i).key = log[i].key /\ Logged(log, i).ent = log[i].ent /\ Logged(log, i).op = log[i].op
<1>1. log[i] \in LogRow /\ i \in DOMAIN Log /\ log[i] = Log[i]
  BY LogType DEF CursorInv
<1>2. log[i].dev \in Devices
  BY <1>1 DEF LogRow
<1>3. Logged(log, i) = Logged(Log, i)
  BY <1>1 DEF Logged
<1>4. Logged(log, i) \in OpsOf(log[i].dev)
  BY <1>1, <1>3, OpsOfAre DEF OpsOfShape
<1> QED
  BY <1>1, <1>2, <1>3, <1>4 DEF AllOps, Logged

\* What a device adds to its operations, and what happens to the transaction and to
\* the log as far as they are of a device.
Fresh(d, o) ==
  \E e \in Entities, op \in {"create", "update", "delete"} :
    Queued(d, e, op) /\ o = [key |-> keys + 1, ent |-> e, op |-> op]
TransactionChange ==
  \/ Todo' = <<>>
  \/ push'.dev = push.dev /\ (push' # NoOne => push # NoOne) /\ (Todo' = Todo \/ (Todo # <<>> /\ Todo' = Tail(Todo)))
  \/ \E s \in Syncs : push'.dev = DeviceOf[s] /\ Todo' = sync[s].items
  \/ \E m \in late : push'.dev = m.dev /\ Todo' = m.items
LogChange ==
  \A i \in DOMAIN Log' :
    \/ i \in DOMAIN Log /\ Log'[i] = Log[i]
    \/ Todo # <<>> /\ Log'[i].dev = push.dev /\ push # NoOne /\ Logged(Log', i) = Head(Todo)
SenderChange ==
  /\ \A m \in late' : m \in late \/ \E s \in Syncs : m.items = sync[s].items /\ m.dev = DeviceOf[s]
  /\ push' # NoOne =>
       \/ push # NoOne /\ push'.dev = push.dev
       \/ \E s \in Syncs : push'.dev = DeviceOf[s]
       \/ \E m \in late : push'.dev = m.dev

\* A transaction keeps its device.
LEMMA TransactionStep ==
  ASSUME SyncTypes, SyncNext
  PROVE  TransactionChange /\ SenderChange
<1>1. CASE UNCHANGED <<push, late>>
  BY <1>1 DEF TransactionChange, SenderChange, Todo
<1>2. ASSUME NEW s \in Syncs, Abandon(s)
      PROVE  TransactionChange /\ SenderChange
  <2>1. push' = push \/ (push \in Transaction /\ push.from = s /\ push' = [push EXCEPT !.from = "gone"])
    <3>1. push \in Transaction \union {NoOne} /\ NoOne.from = "nobody"
      BY DEF SyncTypes, NoOne
    <3> QED
      BY <1>2, <3>1, SyncAssumption DEF Abandon
  <2>2. push' = push \/ (push \in Transaction /\ push # NoOne /\ push'.dev = push.dev)
    <3>1. push.from = s => push # NoOne
      BY SyncAssumption DEF NoOne
    <3> QED
      BY <2>1, <3>1 DEF Transaction
  <2>3. Todo' = Todo
    BY <1>2, PushOrphaned
  <2>4. TransactionChange
    BY <2>2, <2>3 DEF TransactionChange
  <2>5. \A m \in late' : m \in late \/ (m.items = sync[s].items /\ m.dev = DeviceOf[s])
    BY <1>2 DEF Abandon
  <2> QED
    BY <2>2, <2>4, <2>5 DEF SenderChange
<1>3. ASSUME NEW s \in Syncs, ReceivePush(s)
      PROVE  TransactionChange /\ SenderChange
  <2>1. BeginPush(s, DeviceOf[s], sync[s].items) /\ UNCHANGED <<row, log, written, late>> /\ s # "nobody"
    BY <1>3, SyncAssumption DEF ReceivePush, syncHistory
  <2>2. Todo' = sync[s].items /\ push'.dev = DeviceOf[s]
    BY <2>1, PushBegun DEF BeginPush
  <2> QED
    BY <2>1, <2>2 DEF TransactionChange, SenderChange
<1>4. ASSUME NEW m \in late, ReceiveLate(m)
      PROVE  TransactionChange /\ SenderChange
  <2>1. BeginPush("gone", m.dev, m.items) /\ UNCHANGED <<row, log, written>> /\ late' \subseteq late
    BY <1>4 DEF ReceiveLate, syncHistory
  <2>2. Todo' = m.items /\ push'.dev = m.dev
    BY <2>1, PushBegun DEF BeginPush
  <2> QED
    BY <2>1, <2>2 DEF TransactionChange, SenderChange
<1>5. CASE ApplyOperation
  <2>1. push \in Transaction /\ push # NoOne /\ Todo # <<>> /\ Todo' = Tail(Todo) /\ late' = late
    BY <1>5, PushApplied DEF ApplyOperation
  <2>2. push'.dev = push.dev
    <3> DEFINE o == Head(push.todo)
               todo == Tail(push.todo)
               rows == Wrote(push.row, o)
               ok == Append(push.ok, o.ent)
               entries == Append(push.log, Entry(push.dev, o, clock'))
               ks == push.keys \union {o.key}
    <3>1. \/ push' = [push EXCEPT !.todo = todo, !.row = rows, !.ok = ok, !.log = entries, !.keys = ks]
          \/ push' = [push EXCEPT !.todo = todo]
      BY <1>5 DEF ApplyOperation
    <3> HIDE DEF todo, rows, ok, entries, ks
    <3> QED
      BY <2>1, <3>1 DEF Transaction
  <2> QED
    BY <2>1, <2>2 DEF TransactionChange, SenderChange
<1>6. CASE CommitPush \/ RollbackPush
  BY <1>6 DEF CommitPush, RollbackPush, TransactionChange, SenderChange, Todo
<1>7. ASSUME NEW d \in Devices, NEW e \in Entities, NEW op \in {"create", "update", "delete"}, Edit(d, e, op)
      PROVE  TransactionChange /\ SenderChange
  BY <1>1, <1>7 DEF Edit, serverVars
<1>8. ASSUME NEW s \in Syncs, StartSync(s) \/ Acknowledge(s) \/ EndPush(s) \/ ApplyOne(s) \/ AdvanceCursor(s) \/ PullPage(s)
      PROVE  TransactionChange /\ SenderChange
  BY <1>1, <1>8 DEF StartSync, Acknowledge, EndPush, ApplyOne, AdvanceCursor, PullPage, serverVars
<1>9. ASSUME NEW d \in Devices, EditSource(d)
      PROVE  TransactionChange /\ SenderChange
  BY <1>1, <1>9, AsideIs
<1> QED
  BY <1>2, <1>3, <1>4, <1>5, <1>6, <1>7, <1>8, <1>9 DEF SyncNext

\* The log gains operations of the transaction only.
LEMMA LogRowsStep ==
  ASSUME SyncTypes, CursorInv, SyncNext
  PROVE  LogChange
<1>1. Log \in Seq(LogRow) /\ log \in Seq(LogRow) /\ Len(log) <= Len(Log) /\ \A i \in DOMAIN log : log[i] = Log[i]
  BY LogType DEF CursorInv
<1>2. CASE Log' = Log
  BY <1>2 DEF LogChange
<1>3. CASE Log' = log
  BY <1>1, <1>3 DEF LogChange
<1>4. CASE ApplyOperation /\ Log' = Append(Log, Entry(push.dev, Head(Todo), clock'))
  <2> DEFINE o == Head(Todo)
             x == Entry(push.dev, o, clock')
  <2>1. Todo # <<>> /\ push # NoOne /\ o \in Operation
    BY <1>4, PushApplied
  <2>2. \A i \in DOMAIN Append(Log, x) : (i \in DOMAIN Log /\ Append(Log, x)[i] = Log[i]) \/ Append(Log, x)[i] = x
    <3> HIDE DEF x
    <3> QED
      BY <1>1
  <2>3. x.dev = push.dev /\ [key |-> x.key, ent |-> x.ent, op |-> x.op] = o
    BY <2>1, SyncAssumption DEF Entry, Operation
  <2> HIDE DEF x, o
  <2>4. ASSUME NEW i \in DOMAIN Log', Log'[i] = x
        PROVE  Log'[i].dev = push.dev /\ Logged(Log', i) = o
    BY <2>3, <2>4 DEF Logged
  <2>5. \A i \in DOMAIN Log' : (i \in DOMAIN Log /\ Log'[i] = Log[i]) \/ Log'[i] = x
    BY <1>4, <2>2 DEF x, o
  <2> QED
    BY <2>1, <2>4, <2>5 DEF LogChange, o
<1>5. Log' = Log \/ Log' = log \/ (ApplyOperation /\ Log' = Append(Log, Entry(push.dev, Head(Todo), clock')))
  BY ServerStep, PushApplied DEF ServerChange
<1> QED
  BY <1>2, <1>3, <1>4, <1>5

\* What is left of an outbox was in it, and only the item's key is taken out.
LEMMA WithoutKeeps ==
  ASSUME NEW box \in Seq(Operation), NEW o \in Operation, NEW w, w = Without(box, o)
  PROVE  /\ \A j \in DOMAIN w : \E k \in DOMAIN box : w[j] = box[k]
         /\ \A k \in DOMAIN box : box[k].key = o.key \/ \E j \in DOMAIN w : w[j] = box[k]
<1>1. w \in Seq(Operation)
  BY WithoutLeaves
<1>2. CASE w = box
  BY <1>2
<1>3. ASSUME NEW i \in 1..Len(box), box[i].key = o.key, Len(w) = Len(box) - 1,
             \A k \in 1..(i - 1) : w[k] = box[k],
             \A k \in i..(Len(box) - 1) : w[k] = box[k + 1]
      PROVE  /\ \A j \in DOMAIN w : \E k \in DOMAIN box : w[j] = box[k]
             /\ \A k \in DOMAIN box : box[k].key = o.key \/ \E j \in DOMAIN w : w[j] = box[k]
  <2>1. ASSUME NEW j \in DOMAIN w
        PROVE  \E k \in DOMAIN box : w[j] = box[k]
    <3>1. CASE j < i
      <4>1. j \in 1..(i - 1) /\ j \in DOMAIN box
        BY <1>1, <1>3, <3>1
      <4> QED
        BY <1>3, <4>1
    <3>2. CASE j >= i
      <4>1. j \in i..(Len(box) - 1) /\ j + 1 \in DOMAIN box
        BY <1>1, <1>3, <3>2
      <4> QED
        BY <1>3, <4>1
    <3>3. j \in Int
      BY <1>1
    <3> QED
      BY <3>1, <3>2, <3>3
  <2>2. ASSUME NEW k \in DOMAIN box, k # i
        PROVE  \E j \in DOMAIN w : w[j] = box[k]
    <3>1. CASE k < i
      BY <1>1, <1>3, <3>1
    <3>2. CASE k > i
      <4>1. k - 1 \in i..(Len(box) - 1) /\ k - 1 \in DOMAIN w /\ (k - 1) + 1 = k
        BY <1>1, <1>3, <3>2
      <4> QED
        BY <1>3, <4>1
    <3> QED
      BY <2>2, <3>1, <3>2
  <2> QED
    BY <1>3, <2>1, <2>2
<1> QED
  BY <1>2, <1>3, WithoutLeaves, ZenonT(40)

OwnChange ==
  /\ \A d \in Devices : \A o \in OpsOf(d)' : o \in OpsOf(d) \/ Fresh(d, o)
  /\ \A d \in Devices : \A o : Held(d, o) /\ ~Refused(o) => Held(d, o)'
  /\ \A d \in Devices : \A o : Fresh(d, o) => Held(d, o)' /\ o \in OpsOf(d)'
Grown == Len(log) <= Len(log') /\ \A i \in DOMAIN log : log'[i] = log[i]

\* The operations of a device were its operations before, but for the one it queues.
LEMMA OpsOfStep ==
  ASSUME SyncTypes, CursorInv, AckInv, OutboxChange, ItemsChange, TransactionChange, SenderChange, LogChange,
         NEW d \in Devices, NEW o \in OpsOf(d)'
  PROVE  o \in OpsOf(d) \/ Fresh(d, o)
<1>1. \/ \E i \in DOMAIN outbox'[d] : o = outbox'[d][i]
      \/ \E s \in Syncs : DeviceOf[s] = d /\ \E i \in DOMAIN sync'[s].items : o = sync'[s].items[i]
      \/ \E m \in late' : m.dev = d /\ \E i \in DOMAIN m.items : o = m.items[i]
      \/ push'.dev = d /\ \E i \in DOMAIN Todo' : o = Todo'[i]
      \/ \E i \in DOMAIN Log' : Log'[i].dev = d /\ o = Logged(Log', i)
  <2>1. OpsOfShape'
    BY OpsOfAre, PTL
  <2> QED
    BY <2>1 DEF OpsOfShape, Logged
<1>2. /\ \A c \in Devices : outbox[c] \in Seq(Operation)
      /\ \A s \in Syncs : sync[s].items \in Seq(Operation) /\ DeviceOf[s] \in Devices
      /\ Todo \in Seq(Operation)
  BY TodoType, SyncAssumption DEF SyncTypes, Call
<1>3. ASSUME NEW i \in DOMAIN outbox'[d], o = outbox'[d][i]
      PROVE  o \in OpsOf(d) \/ Fresh(d, o)
  <2>1. CASE outbox'[d] = outbox[d]
    BY <1>3, <2>1, OpsOfAre DEF OpsOfShape
  <2>2. ASSUME NEW e \in Entities, NEW op \in {"create", "update", "delete"}, Queued(d, e, op),
               outbox'[d] = Append(outbox[d], [key |-> keys + 1, ent |-> e, op |-> op])
        PROVE  o \in OpsOf(d) \/ Fresh(d, o)
    <3> DEFINE x == [key |-> keys + 1, ent |-> e, op |-> op]
    <3>1. x \in Operation
      BY <2>2, SyncAssumption DEF Operation, Enqueue, Queued, SyncTypes
    <3> HIDE DEF x
    <3>2. \A j \in DOMAIN Append(outbox[d], x) :
            Append(outbox[d], x)[j] = x \/ (j \in DOMAIN outbox[d] /\ Append(outbox[d], x)[j] = outbox[d][j])
      BY <1>2, <3>1
    <3>3. o = x \/ \E j \in DOMAIN outbox[d] : o = outbox[d][j]
      BY <1>3, <2>2, <3>2 DEF x
    <3>4. o = x => Fresh(d, o)
      BY <2>2 DEF Fresh, x
    <3> QED
      BY <3>3, <3>4, OpsOfAre DEF OpsOfShape
  <2>3. ASSUME NEW s \in Syncs, Acknowledge(s), d = DeviceOf[s], outbox'[d] = Without(outbox[d], Item(s))
        PROVE  o \in OpsOf(d)
    <3>1. Item(s) \in Operation
      BY <2>3, AcknowledgedItem DEF Item
    <3>2. \E k \in DOMAIN outbox[d] : o = outbox[d][k]
      BY <1>2, <1>3, <2>3, <3>1, WithoutKeeps
    <3> QED
      BY <3>2, OpsOfAre DEF OpsOfShape
  <2> QED
    BY <2>1, <2>2, <2>3 DEF OutboxChange
<1>4. ASSUME NEW s \in Syncs, DeviceOf[s] = d, NEW i \in DOMAIN sync'[s].items, o = sync'[s].items[i]
      PROVE  o \in OpsOf(d)
  <2>1. CASE sync'[s].items = sync[s].items
    BY <1>4, <2>1, OpsOfAre DEF OpsOfShape
  <2>2. CASE sync'[s].items = <<>>
    BY <1>4, <2>2
  <2>3. CASE sync'[s].items = Pending(d)
    <3>1. \A j \in DOMAIN Pending(d) : \E k \in DOMAIN outbox[d] : Pending(d)[j] = outbox[d][k]
      BY <1>2, PendingIsPrefix
    <3> QED
      BY <1>4, <2>3, <3>1, OpsOfAre DEF OpsOfShape
  <2> QED
    BY <1>4, <2>1, <2>2, <2>3 DEF ItemsChange
<1>5. ASSUME NEW m \in late', m.dev = d, NEW i \in DOMAIN m.items, o = m.items[i]
      PROVE  o \in OpsOf(d)
  BY <1>5, OpsOfAre DEF SenderChange, OpsOfShape
<1>6. ASSUME push'.dev = d, NEW i \in DOMAIN Todo', o = Todo'[i]
      PROVE  o \in OpsOf(d)
  <2>1. CASE push'.dev = push.dev /\ Todo # <<>> /\ Todo' = Tail(Todo)
    <3>1. \E k \in DOMAIN Todo : o = Todo[k]
      <4>1. \A j \in DOMAIN Tail(Todo) : j + 1 \in DOMAIN Todo /\ Tail(Todo)[j] = Todo[j + 1]
        BY <1>2, <2>1
      <4> QED
        BY <1>6, <2>1, <4>1
    <3> QED
      BY <1>6, <2>1, <3>1, OpsOfAre DEF OpsOfShape
  <2>2. CASE Todo' = <<>>
    BY <1>6, <2>2
  <2> QED
    BY <1>6, <2>1, <2>2, OpsOfAre DEF TransactionChange, OpsOfShape
<1>7. ASSUME NEW i \in DOMAIN Log', Log'[i].dev = d, o = Logged(Log', i)
      PROVE  o \in OpsOf(d)
  <2>1. CASE i \in DOMAIN Log /\ Log'[i] = Log[i]
    BY <1>7, <2>1, OpsOfAre DEF OpsOfShape, Logged
  <2>2. CASE Todo # <<>> /\ Log'[i].dev = push.dev /\ Logged(Log', i) = Head(Todo)
    <3>1. Head(Todo) = Todo[1] /\ 1 \in DOMAIN Todo
      BY <1>2, <2>2
    <3> QED
      BY <1>7, <2>2, <3>1, OpsOfAre DEF OpsOfShape
  <2> QED
    BY <2>1, <2>2 DEF LogChange
<1> QED
  BY <1>1, <1>3, <1>4, <1>5, <1>6, <1>7

\* What was held stays held, unless the server refuses it: an acknowledged operation
\* is in the log.
LEMMA HeldStep ==
  ASSUME SyncTypes, CursorInv, AckInv, OwnInv, OutboxChange, Grown, log \in Seq(LogRow), log' \in Seq(LogRow),
         NEW d \in Devices, NEW o, Held(d, o), ~Refused(o)
  PROVE  Held(d, o)'
<1>1. /\ \A c \in Devices : outbox[c] \in Seq(Operation)
      /\ DOMAIN log \subseteq DOMAIN log'
  <2>1. Len(log) \in Nat /\ Len(log') \in Nat /\ DOMAIN log = 1..Len(log) /\ DOMAIN log' = 1..Len(log')
    OBVIOUS
  <2> QED
    BY <2>1 DEF SyncTypes, Grown
<1>2. ASSUME NEW i \in DOMAIN log, log[i].dev = d, Logged(log, i) = o
      PROVE  Held(d, o)'
  <2>1. i \in DOMAIN log' /\ log'[i].dev = d /\ Logged(log', i) = o
    BY <1>1, <1>2 DEF Grown, Logged
  <2> QED
    BY <2>1 DEF Held, Logged
<1>3. ASSUME NEW i \in DOMAIN outbox[d], outbox[d][i] = o
      PROVE  Held(d, o)'
  <2>1. CASE outbox'[d] = outbox[d]
    BY <1>3, <2>1 DEF Held
  <2>2. ASSUME NEW e \in Entities, NEW op \in {"create", "update", "delete"}, Queued(d, e, op),
               outbox'[d] = Append(outbox[d], [key |-> keys + 1, ent |-> e, op |-> op])
        PROVE  Held(d, o)'
    <3> DEFINE x == [key |-> keys + 1, ent |-> e, op |-> op]
    <3>1. x \in Operation
      BY <2>2, SyncAssumption DEF Operation, Enqueue, Queued, SyncTypes
    <3> HIDE DEF x
    <3>2. i \in DOMAIN Append(outbox[d], x) /\ Append(outbox[d], x)[i] = outbox[d][i]
      BY <1>1, <1>3, <3>1
    <3>3. i \in DOMAIN outbox'[d] /\ outbox'[d][i] = o
      BY <1>3, <2>2, <3>2 DEF x
    <3> QED
      BY <3>3 DEF Held
  <2>3. ASSUME NEW s \in Syncs, Acknowledge(s), d = DeviceOf[s], outbox'[d] = Without(outbox[d], Item(s))
        PROVE  Held(d, o)'
    <3>1. Item(s) \in Operation
      BY <2>3, AcknowledgedItem DEF Item
    <3>2. /\ Item(s).key \in written \/ Refused(Item(s))
          /\ \E k \in DOMAIN sync[s].items : Item(s) = sync[s].items[k]
      BY <2>3, AcknowledgedItem DEF Item
    <3>3. outbox[d][i].key = Item(s).key \/ \E j \in DOMAIN outbox'[d] : outbox'[d][j] = outbox[d][i]
      BY <1>1, <1>3, <2>3, <3>1, WithoutKeeps
    <3>4. CASE o.key = Item(s).key
      <4>1. o \in OpsOf(d) /\ Item(s) \in OpsOf(d)
        BY <1>3, <2>3, <3>2, OpsOfAre DEF OpsOfShape
      <4>2. Item(s).key \in written
        BY <3>4, <3>2, <4>1 DEF OwnInv
      <4>3. PICK j \in DOMAIN log : log[j].key = o.key
        BY <3>4, <4>2 DEF OwnInv
      <4>4. o \in OpsOf(d) /\ Logged(log, j) \in OpsOf(log[j].dev) /\ Logged(log, j).key = o.key /\ log[j].dev \in Devices
        BY <1>3, <4>3, LoggedIs, OpsOfAre DEF OpsOfShape
      <4>5. log[j].dev = d /\ Logged(log, j) = o
        BY <4>4 DEF OwnInv
      <4> QED
        BY <1>2, <4>3, <4>5
    <3> QED
      BY <1>3, <3>3, <3>4 DEF Held
  <2> QED
    BY <2>1, <2>2, <2>3 DEF OutboxChange
<1> QED
  BY <1>2, <1>3 DEF Held

\* What is queued is held.
LEMMA FreshIs ==
  ASSUME SyncTypes, NEW d \in Devices, NEW o, Fresh(d, o)
  PROVE  /\ Held(d, o)' /\ o \in OpsOf(d)' /\ o \in Change /\ o.key = keys + 1 /\ keys' = keys + 1 /\ keys \in Nat
         /\ UNCHANGED <<push, row, log, written>>
<1>1. PICK e \in Entities, op \in {"create", "update", "delete"} :
        Queued(d, e, op) /\ o = [key |-> keys + 1, ent |-> e, op |-> op]
  BY DEF Fresh
<1>2. keys \in Nat /\ keys < MaxKeys /\ keys' = keys + 1 /\ outbox[d] \in Seq(Operation)
  BY <1>1 DEF Queued, Enqueue, SyncTypes
<1>3. o \in Operation /\ o \in Change /\ o.key = keys + 1
  BY <1>1, <1>2, SyncAssumption DEF Operation, Change
<1>4. outbox' = [outbox EXCEPT ![d] = Append(outbox[d], o)]
  BY <1>1 DEF Queued, Enqueue, SyncTypes
<1>5. outbox'[d] = Append(outbox[d], o)
  BY <1>4 DEF SyncTypes
<1>6. Len(outbox[d]) + 1 \in DOMAIN Append(outbox[d], o) /\ Append(outbox[d], o)[Len(outbox[d]) + 1] = o
  BY <1>2, <1>3
<1>7. \E i \in DOMAIN outbox'[d] : o = outbox'[d][i]
  BY <1>5, <1>6
<1>8. o \in OpsOf(d)'
  <2>1. OpsOfShape'
    BY OpsOfAre, PTL
  <2> QED
    BY <1>7, <2>1 DEF OpsOfShape
<1>9. Held(d, o)'
  BY <1>7 DEF Held
<1> QED
  BY <1>1, <1>2, <1>3, <1>8, <1>9 DEF Queued

\* What a step does to local records, to editors and to what was seen.
LocalChange ==
  \/ UNCHANGED <<local, editors, aside, seen, keys>>
  \/ \E d \in Devices, e \in Entities, op \in {"create", "update", "delete"} : Edit(d, e, op)
  \/ \E d \in Devices : EditSource(d)
  \/ \E s \in Syncs : ApplyOne(s)

\* Every step of the server and its clients changes the operations of a device as said.
LEMMA OwnStep ==
  ASSUME SyncTypes, SyncTypes', CursorInv, KeysInv, AckInv, OwnInv, SyncNext
  PROVE  OwnChange /\ Grown /\ LocalChange /\ SenderChange /\ LogChange
<1>1. OutboxChange /\ ItemsChange /\ TransactionChange /\ SenderChange /\ LogChange
  BY OutboxStep, ItemsStep, TransactionStep, LogRowsStep
<1>2. Grown
  BY LogStep DEF Grown
<1>3. log \in Seq(LogRow) /\ log' \in Seq(LogRow)
  BY DEF SyncTypes
<1>4. OwnChange
  BY <1>1, <1>2, <1>3, OpsOfStep, HeldStep, FreshIs DEF OwnChange
<1>5. LocalChange
  <2>1. CASE \E d \in Devices, e \in Entities, op \in {"create", "update", "delete"} : Edit(d, e, op)
    BY <2>1 DEF LocalChange
  <2>2. CASE \E s \in Syncs : ApplyOne(s)
    BY <2>2 DEF LocalChange
  <2>3. CASE \E s \in Syncs : StartSync(s) \/ Acknowledge(s) \/ EndPush(s) \/ AdvanceCursor(s)
    BY <2>3 DEF LocalChange, StartSync, Acknowledge, EndPush, AdvanceCursor, syncHistory, deviceVars
  <2>4. CASE \E s \in Syncs : Abandon(s) \/ ReceivePush(s) \/ PullPage(s)
    BY <2>4 DEF LocalChange, Abandon, ReceivePush, PullPage, syncHistory, deviceVars
  <2>5. CASE (\E m \in late : ReceiveLate(m)) \/ ApplyOperation \/ CommitPush \/ RollbackPush
    BY <2>5 DEF LocalChange, ReceiveLate, ApplyOperation, CommitPush, RollbackPush, syncHistory, deviceVars
  <2>6. CASE \E d \in Devices : EditSource(d)
    BY <2>6 DEF LocalChange
  <2> QED
    BY <2>1, <2>2, <2>3, <2>4, <2>5, <2>6 DEF SyncNext
<1> QED
  BY <1>1, <1>2, <1>4, <1>5

\* So does a crash, which adds nothing.
LEMMA OwnCrash ==
  ASSUME SyncTypes, SyncTypes', CursorInv, AckInv, OwnInv, Crash
  PROVE  /\ OwnChange /\ Grown /\ SenderChange /\ LogChange
         /\ UNCHANGED <<row, log, written, local, editors, aside, seen, keys, cursor, overlap>>
         /\ Rows' = row /\ Log' = log /\ Keys' = written
         /\ \A s \in Syncs : sync'[s] = sync[s] \/ sync'[s] = IdleSync
<1>1. /\ UNCHANGED <<row, log, clock, local, outbox, cursor, late, keys, editors, aside, written, acked, seen, overlap>>
      /\ push' = NoOne /\ sync' = [s \in Syncs |-> IF sync[s].pc \in {"push", "pull"} THEN IdleSync ELSE sync[s]]
  BY DEF Crash, deviceVars, syncHistory
<1>2. \A s \in Syncs : sync'[s] = sync[s] \/ sync'[s] = IdleSync
  BY <1>1
<1>3. Todo' = <<>> /\ Rows' = row /\ Log' = log /\ Keys' = written
  BY <1>1 DEF Todo, Rows, Log, Keys
<1>4. OutboxChange /\ ItemsChange /\ TransactionChange /\ SenderChange
  BY <1>1, <1>2, <1>3 DEF OutboxChange, ItemsChange, TransactionChange, SenderChange, IdleSync
<1>5. LogChange
  <2>1. \A i \in DOMAIN log : i \in DOMAIN Log /\ log[i] = Log[i]
    BY LoggedIs
  <2> QED
    BY <1>3, <2>1 DEF LogChange
<1>6. log \in Seq(LogRow) /\ Grown
  BY <1>1 DEF SyncTypes, Grown
<1>7. OwnChange
  BY <1>1, <1>4, <1>5, <1>6, OpsOfStep, HeldStep, FreshIs DEF OwnChange
<1> QED
  BY <1>1, <1>2, <1>3, <1>4, <1>5, <1>6, <1>7

\* The log has what was accepted after the step, too.
LEMMA AcceptedStep ==
  ASSUME SyncTypes, SyncTypes', CursorInv, OwnInv, SyncNext, Grown
  PROVE  /\ \A k \in written' : \E i \in DOMAIN log' : log'[i].key = k
         /\ \A k \in Keys' : \E i \in DOMAIN Log' : Log'[i].key = k
<1>1. Log \in Seq(LogRow)
  BY LogType
<1>2. CASE UNCHANGED <<row, written, log, Rows, Keys, Log>>
  BY <1>2 DEF OwnInv
<1>3. CASE UNCHANGED <<row, written, log>> /\ Rows' = row /\ Keys' = written /\ Log' = log
  BY <1>3 DEF OwnInv
<1>4. CASE row' = Rows /\ written' = Keys /\ log' = Log /\ UNCHANGED <<Rows, Keys, Log>>
  BY <1>4 DEF OwnInv
<1>5. CASE UNCHANGED <<row, written, log>> /\ ApplyOperation
  <2> DEFINE o == Head(Todo)
             x == Entry(push.dev, o, clock')
  <2>1. (Log' = Log /\ Keys' = Keys) \/ (Log' = Append(Log, x) /\ Keys' = Keys \union {o.key})
    BY <1>5, PushApplied
  <2>2. x.key = o.key
    BY DEF Entry
  <2> HIDE DEF x, o
  <2>3. /\ \A i \in DOMAIN Log : i \in DOMAIN Append(Log, x) /\ Append(Log, x)[i] = Log[i]
        /\ \E i \in DOMAIN Append(Log, x) : Append(Log, x)[i] = x
    BY <1>1
  <2>4. \A k \in Keys' : \E i \in DOMAIN Log' : Log'[i].key = k
    BY <2>1, <2>2, <2>3 DEF OwnInv
  <2> QED
    BY <1>5, <2>4 DEF OwnInv
<1> QED
  BY <1>2, <1>3, <1>4, <1>5, ServerStep DEF ServerChange

\* A key keeps naming one operation of one device.
LEMMA OwnInvStep ==
  ASSUME SyncTypes, SyncTypes', OwnInv, OwnChange, SenderChange, LogChange, keys <= keys',
         \A k \in written' : \E i \in DOMAIN log' : log'[i].key = k,
         \A k \in Keys' : \E i \in DOMAIN Log' : Log'[i].key = k
  PROVE  OwnInv'
<1>1. keys \in Nat /\ keys' \in Nat
  BY DEF SyncTypes
<1>2. \A d \in Devices : \A o \in OpsOf(d) : o.key \in Nat /\ o.key <= keys
  BY OpsOfType DEF OwnInv, Change
<1>3. ASSUME NEW d \in Devices, NEW o \in OpsOf(d)'
      PROVE  o.key <= keys'
  <2>1. o \in OpsOf(d) \/ o.key = keys'
    BY FreshIs DEF OwnChange
  <2> QED
    BY <1>1, <1>2, <2>1
<1>4. ASSUME NEW c \in Devices, NEW d \in Devices, NEW o \in OpsOf(c)', NEW p \in OpsOf(d)', o.key = p.key
      PROVE  c = d /\ o = p
  <2>1. CASE o \in OpsOf(c) /\ p \in OpsOf(d)
    BY <1>4, <2>1 DEF OwnInv
  <2>2. CASE Fresh(c, o) /\ Fresh(d, p)
    BY <2>2, QueuedOnce DEF Fresh
  <2>3. (o \in OpsOf(c) => o.key <= keys /\ o.key \in Nat) /\ (p \in OpsOf(d) => p.key <= keys /\ p.key \in Nat)
    BY <1>2
  <2>4. (Fresh(c, o) => o.key = keys + 1) /\ (Fresh(d, p) => p.key = keys + 1)
    BY FreshIs
  <2> QED
    BY <1>1, <1>4, <2>1, <2>2, <2>3, <2>4 DEF OwnChange
<1>5. \A s \in Syncs : DeviceOf[s] \in Syncing
  BY DEF Syncing
<1>6. \A i \in DOMAIN Log' : Log'[i].dev \in Syncing
  BY DEF OwnInv, LogChange
<1>7. (\A m \in late' : m.dev \in Syncing) /\ (push' # NoOne => push'.dev \in Syncing)
  BY <1>5 DEF OwnInv, SenderChange
<1> QED
  BY <1>3, <1>4, <1>6, <1>7 DEF OwnInv, Logged

-----------------------------------------------------------------------------
(* Entities that one device edits *)

\* No device but the one that created it has edited e, and all of its edits can reach
\* the server.
Sole(e) == editors[e] \subseteq {Home[e]} /\ Fit(e) /\ e \notin aside

\* Who creates an entity has edited it; until then there is nothing of it.
EditorsInv ==
  \A e \in Entities :
    /\ IsFiniteSet(editors[e])
    /\ editors[e] # {} => Home[e] \in editors[e]
    /\ editors[e] = {} => (\A o \in AllOps : o.ent # e) /\ \A d \in Devices : local[d][e] = Absent

\* The other devices only echo deletes, and those are newer than any edit; the
\* creating device shows its newest edit, and has still to send it or has sent it.
Told(e) ==
  /\ \A d \in Devices \ {Home[e]} : \A o \in OpsOf(d) : o.ent = e => o.op = "delete"
  /\ \A o, p \in AllOps : o.ent = e /\ p.ent = e /\ o.op = "delete" /\ p.op # "delete" => p.key < o.key
  /\ (\E o \in AllOps : o.ent = e /\ o.op = "delete") => local[Home[e]][e] = Absent
  /\ local[Home[e]][e] # Absent =>
       /\ \A o \in AllOps : o.ent = e => o.key <= local[Home[e]][e]
       /\ \E o \in OpsOf(Home[e]) : Held(Home[e], o) /\ o.ent = e /\ o.key = local[Home[e]][e]
  /\ local[Home[e]][e] = Absent => \E o \in OpsOf(Home[e]) : Held(Home[e], o) /\ o.ent = e /\ o.op = "delete"
  /\ \E o \in OpsOf(Home[e]) : Held(Home[e], o) /\ o.ent = e /\ o.op = "create"
SoleInv == \A e \in Entities : Sole(e) /\ editors[e] # {} => Told(e)

\* What is held is an operation of its device.
LEMMA HeldIs ==
  \A d \in Devices : \A o : SyncTypes /\ CursorInv /\ Held(d, o) => o \in OpsOf(d)
<1> SUFFICES ASSUME NEW d \in Devices, NEW o, SyncTypes, CursorInv, Held(d, o)
             PROVE  o \in OpsOf(d)
  OBVIOUS
<1>1. CASE \E i \in DOMAIN outbox[d] : outbox[d][i] = o
  BY <1>1, OpsOfAre DEF OpsOfShape
<1>2. CASE \E i \in DOMAIN log : log[i].dev = d /\ Logged(log, i) = o
  BY <1>2, LoggedIs
<1> QED
  BY <1>1, <1>2 DEF Held

\* The operations of all devices, before and after a step that changes them.
LEMMA AllOpsStep ==
  ASSUME SyncTypes, SyncTypes', CursorInv', OwnChange
  PROVE  /\ \A o \in AllOps : o \in Change
         /\ \A o \in AllOps' : o \in Change /\ (o \in AllOps \/ \E d \in Devices : Fresh(d, o))
         /\ \A d \in Devices : \A o : Held(d, o) /\ ~Refused(o) => Held(d, o)' /\ o \in OpsOf(d)'
<1>1. (SyncTypes => \A d \in Devices : OpsOf(d) \subseteq Change)'
  BY OpsOfType, PTL
<1>2. (\A d \in Devices : \A o : SyncTypes /\ CursorInv /\ Held(d, o) => o \in OpsOf(d))'
  BY HeldIs, PTL
<1>3. \A o \in AllOps : o \in Change
  BY OpsOfType DEF AllOps
<1>4. ASSUME NEW o \in AllOps'
      PROVE  o \in Change /\ (o \in AllOps \/ \E d \in Devices : Fresh(d, o))
  <2>1. PICK d \in Devices : o \in OpsOf(d)'
    BY DEF AllOps
  <2>2. o \in Change
    BY <1>1, <2>1
  <2>3. o \in OpsOf(d) \/ Fresh(d, o)
    BY <2>1 DEF OwnChange
  <2> QED
    BY <2>2, <2>3 DEF AllOps
<1>5. \A d \in Devices : \A o : Held(d, o) /\ ~Refused(o) => Held(d, o)' /\ o \in OpsOf(d)'
  BY <1>2 DEF OwnChange
<1> QED
  BY <1>3, <1>4, <1>5

\* Keys are numbers given out before.
LEMMA OpsKeys ==
  ASSUME SyncTypes, OwnInv
  PROVE  keys \in Nat /\ \A o \in AllOps : o \in Change /\ o.key \in Nat /\ o.key <= keys
<1>1. \A d \in Devices : \A o \in OpsOf(d) : o \in Change /\ o.key <= keys
  BY OpsOfType DEF OwnInv
<1>2. \A o \in Change : o.key \in Nat
  BY DEF Change
<1>3. \A o \in AllOps : \E d \in Devices : o \in OpsOf(d)
  BY DEF AllOps
<1> QED
  BY <1>1, <1>2, <1>3 DEF SyncTypes

\* Told survives a step that keeps what the creating device shows, and adds only
\* deletes of what it no longer shows.
LEMMA ToldKept ==
  ASSUME SyncTypes, SyncTypes', CursorInv', OwnInv, OwnChange, NEW e \in Entities, Fit(e), Told(e),
         local'[Home[e]][e] = local[Home[e]][e],
         \A d \in Devices : \A o : Fresh(d, o) /\ o.ent = e => o.op = "delete" /\ local[Home[e]][e] = Absent
  PROVE  Told(e)'
<1> DEFINE h == Home[e]
<1>1. h \in Devices
  BY SyncAssumption
<1> HIDE DEF h
<1>2. /\ \A o \in AllOps' : o \in AllOps \/ \E d \in Devices : Fresh(d, o)
      /\ \A o : Held(h, o) /\ o.ent = e => Held(h, o)' /\ o \in OpsOf(h)'
  BY <1>1, AllOpsStep DEF Refused
<1>3. keys \in Nat /\ \A o \in AllOps : o.key \in Nat /\ o.key <= keys
  BY OpsKeys
<1>4. \A d \in Devices : \A o : Fresh(d, o) => o.key = keys + 1
  BY FreshIs
<1>5. /\ \A d \in Devices \ {h} : \A o \in OpsOf(d) : o.ent = e => o.op = "delete"
      /\ \A o, p \in AllOps : o.ent = e /\ p.ent = e /\ o.op = "delete" /\ p.op # "delete" => p.key < o.key
      /\ (\E o \in AllOps : o.ent = e /\ o.op = "delete") => local[h][e] = Absent
      /\ local[h][e] # Absent => /\ \A o \in AllOps : o.ent = e => o.key <= local[h][e]
                                 /\ \E o \in OpsOf(h) : Held(h, o) /\ o.ent = e /\ o.key = local[h][e]
      /\ local[h][e] = Absent => \E o \in OpsOf(h) : Held(h, o) /\ o.ent = e /\ o.op = "delete"
      /\ \E o \in OpsOf(h) : Held(h, o) /\ o.ent = e /\ o.op = "create"
  BY DEF Told, h
<1>6. local'[h][e] = local[h][e]
  BY DEF h
<1>7. ASSUME NEW d \in Devices \ {h}, NEW o \in OpsOf(d)', o.ent = e
      PROVE  o.op = "delete"
  BY <1>5, <1>7 DEF OwnChange
<1>8. ASSUME NEW o \in AllOps', NEW p \in AllOps', o.ent = e, p.ent = e, o.op = "delete", p.op # "delete"
      PROVE  p.key < o.key
  <2>1. p \in AllOps
    BY <1>2, <1>8
  <2>2. CASE o \in AllOps
    BY <1>5, <1>8, <2>1, <2>2
  <2>3. CASE \E d \in Devices : Fresh(d, o)
    BY <1>3, <1>4, <2>1, <2>3
  <2> QED
    BY <1>2, <2>2, <2>3
<1>9. ASSUME NEW o \in AllOps', o.ent = e, o.op = "delete"
      PROVE  local'[h][e] = Absent
  BY <1>2, <1>5, <1>6, <1>9 DEF h
<1>10. ASSUME local'[h][e] # Absent
       PROVE  /\ \A o \in AllOps' : o.ent = e => o.key <= local'[h][e]
              /\ \E o \in OpsOf(h)' : Held(h, o)' /\ o.ent = e /\ o.key = local'[h][e]
  BY <1>2, <1>5, <1>6, <1>10 DEF h
<1>11. local'[h][e] = Absent => \E o \in OpsOf(h)' : Held(h, o)' /\ o.ent = e /\ o.op = "delete"
  BY <1>2, <1>5, <1>6
<1>12. \E o \in OpsOf(h)' : Held(h, o)' /\ o.ent = e /\ o.op = "create"
  BY <1>2, <1>5
<1> QED
  BY <1>7, <1>8, <1>9, <1>10, <1>11, <1>12 DEF Told, h

\* What the creating device edits, it shows and has still to send.
LEMMA ToldEdit ==
  ASSUME SyncTypes, SyncTypes', CursorInv', OwnInv, OwnChange, EditorsInv, SoleInv,
         NEW e \in Entities, NEW op \in {"create", "update", "delete"}, Edit(Home[e], e, op), Sole(e)
  PROVE  Told(e)'
<1> DEFINE h == Home[e]
<1> PICK x : x = [key |-> keys + 1, ent |-> e, op |-> op]
  OBVIOUS
<1>1. h \in Devices
  BY SyncAssumption
<1>2. keys \in Nat /\ \A o \in AllOps : o.key \in Nat /\ o.key <= keys
  BY OpsKeys
<1>3. Queued(h, e, op)
  BY DEF Edit, Queued, serverVars
<1>4. Fresh(h, x) /\ x.key = keys + 1 /\ x.ent = e /\ x.op = op
  BY <1>3 DEF Fresh
<1>5. local'[h][e] = IF op = "delete" THEN Absent ELSE keys + 1
  BY <1>1 DEF Edit, SyncTypes
<1>6. \A d \in Devices : \A o : Fresh(d, o) => d = h /\ o = x
  BY <1>1, <1>3, QueuedOnce DEF Fresh
<1> HIDE DEF h
<1>7. Held(h, x)' /\ x \in OpsOf(h)'
  BY <1>1, <1>4, FreshIs
<1>8. /\ \A o \in AllOps' : o \in AllOps \/ o = x
      /\ \A d \in Devices : \A o \in OpsOf(d)' : o \in OpsOf(d) \/ (d = h /\ o = x)
      /\ \A o : Held(h, o) /\ o.ent = e => Held(h, o)' /\ o \in OpsOf(h)'
  <2>1. \A o \in AllOps' : o \in AllOps \/ o = x
    BY <1>6, AllOpsStep
  <2>2. \A d \in Devices : \A o \in OpsOf(d)' : o \in OpsOf(d) \/ (d = h /\ o = x)
    BY <1>6 DEF OwnChange
  <2>3. \A o : Held(h, o) /\ o.ent = e => Held(h, o)' /\ o \in OpsOf(h)'
    BY <1>1, AllOpsStep DEF Refused, Sole
  <2> QED
    BY <2>1, <2>2, <2>3
<1>9. CASE op = "create"
  <2>1. \A o \in AllOps : o.ent # e
    BY <1>9 DEF Edit, EditorsInv
  <2>2. \A d \in Devices : \A o \in OpsOf(d) : o.ent # e
    BY <2>1 DEF AllOps
  <2>3. local'[h][e] = keys + 1 /\ local'[h][e] # Absent
    BY <1>2, <1>5, <1>9 DEF Absent
  <2>4. \A o \in AllOps' : o.ent = e => o = x
    BY <1>8, <2>1
  <2>5. x.op = "create" /\ x.key <= local'[h][e]
    BY <1>2, <1>4, <1>9, <2>3
  <2>6. \A d \in Devices \ {h} : \A o \in OpsOf(d)' : o.ent = e => o.op = "delete"
    BY <1>8, <2>2
  <2> QED
    BY <1>4, <1>7, <2>3, <2>4, <2>5, <2>6 DEF Told, h
<1>10. CASE op # "create"
  <2>1. local[h][e] # Absent
    BY <1>10 DEF Edit, h
  <2>2. Told(e)
    BY <1>1, <2>1 DEF EditorsInv, SoleInv
  <2>3. /\ \A d \in Devices \ {h} : \A o \in OpsOf(d) : o.ent = e => o.op = "delete"
        /\ \A o \in AllOps : o.ent = e => o.op # "delete"
        /\ \E o \in OpsOf(h) : Held(h, o) /\ o.ent = e /\ o.op = "create"
    BY <2>1, <2>2 DEF Told, h
  <2>4. \E o \in OpsOf(h)' : Held(h, o)' /\ o.ent = e /\ o.op = "create"
    BY <1>8, <2>3
  <2>5. \A d \in Devices \ {h} : \A o \in OpsOf(d)' : o.ent = e => o.op = "delete"
    BY <1>8, <2>3
  <2>6. CASE op = "delete"
    <3>1. local'[h][e] = Absent
      BY <1>5, <2>6
    <3>2. \A o, p \in AllOps' : o.ent = e /\ p.ent = e /\ o.op = "delete" /\ p.op # "delete" => p.key < o.key
      BY <1>2, <1>4, <1>8, <2>3, <2>6
    <3> QED
      BY <1>4, <1>7, <2>4, <2>5, <2>6, <3>1, <3>2 DEF Told, h
  <2>7. CASE op = "update"
    <3>1. local'[h][e] = keys + 1 /\ local'[h][e] # Absent
      BY <1>2, <1>5, <2>7 DEF Absent
    <3>2. \A o \in AllOps' : o.ent = e => o.op # "delete" /\ o.key <= local'[h][e]
      BY <1>2, <1>4, <1>8, <2>3, <2>7, <3>1
    <3> QED
      BY <1>4, <1>7, <2>4, <2>5, <3>1, <3>2 DEF Told, h
  <2> QED
    BY <1>10, <2>6, <2>7
<1> QED
  BY <1>9, <1>10

\* What an edit changes.
LEMMA EditIs ==
  ASSUME SyncTypes, NEW d \in Devices, NEW f \in Entities, NEW op \in {"create", "update", "delete"}, Edit(d, f, op)
  PROVE  /\ \A c \in Devices : \A o : Fresh(c, o) => c = d /\ o.ent = f
         /\ \A c \in Devices, e \in Entities : (c # d \/ e # f) => local'[c][e] = local[c][e]
         /\ \A e \in Entities : e # f => editors'[e] = editors[e]
         /\ editors'[f] = editors[f] \union {d} /\ seen' = seen
         /\ UNCHANGED <<row, log, written, cursor, sync, overlap, aside>>
<1>1. Queued(d, f, op)
  BY DEF Edit, Queued, serverVars
<1>2. \A c \in Devices : \A o : Fresh(c, o) => c = d /\ o.ent = f
  BY <1>1, QueuedOnce DEF Fresh
<1>3. local \in [Devices -> [Entities -> Nat]] /\ editors \in [Entities -> SUBSET Devices]
  BY DEF SyncTypes
<1> QED
  BY <1>2, <1>3 DEF Edit, serverVars

\* What the client does with the row it takes out of a page.
LEMMA ApplyIs ==
  ASSUME SyncTypes, CursorInv, NEW s \in Syncs, ApplyOne(s), NEW i, i = FirstIn(sync[s].page)
  PROVE  /\ i \in sync[s].page /\ i \in DOMAIN log /\ \A j \in sync[s].page : i <= j
         /\ \A c \in Devices : \A o :
              Fresh(c, o) => c = DeviceOf[s] /\ log[i].op = "delete" /\ o.ent = log[i].ent /\ o.op = "delete"
         /\ log[i].op = "delete" => \E o : Fresh(DeviceOf[s], o) /\ o.op = "delete" /\ o.ent = log[i].ent
         /\ \A c \in Devices, e \in Entities :
              local'[c][e] = IF c = DeviceOf[s] /\ e = log[i].ent
                             THEN IF log[i].op = "delete" THEN Absent ELSE log[i].key
                             ELSE local[c][e]
         /\ editors' = editors /\ seen' = [seen EXCEPT ![DeviceOf[s]] = @ \union {i}]
         /\ UNCHANGED <<row, log, written, cursor, overlap, aside>>
<1> DEFINE d == DeviceOf[s]
<1>1. d \in Devices
  BY SyncAssumption
<1>2. sync[s].page \in SUBSET DOMAIN log /\ sync[s].page # {}
  BY DEF ApplyOne, SyncTypes
<1>3. i \in sync[s].page /\ \A j \in sync[s].page : i <= j
  <2>1. sync[s].page \subseteq Nat
    BY <1>2 DEF SyncTypes
  <2>2. PICK m \in sync[s].page : \A k \in sync[s].page : m <= k
    BY <1>2, <2>1, Least
  <2>3. \A j \in sync[s].page \ {m} : Before(m, j)
    BY <1>2, <2>1, <2>2, BeforeIsLess
  <2>4. i \in sync[s].page /\ \A j \in sync[s].page \ {i} : Before(i, j)
    BY <2>2, <2>3 DEF FirstIn
  <2> QED
    BY <1>2, <2>1, <2>4, BeforeIsLess
<1>4. log[i] \in LogRow
  BY <1>2, <1>3, LogType
<1>5. local \in [Devices -> [Entities -> Nat]] /\ keys \in Nat
  BY DEF SyncTypes
<1>8. editors' = editors /\ seen' = [seen EXCEPT ![d] = @ \union {i}] /\ UNCHANGED <<row, log, written, cursor, overlap, aside>>
  BY DEF ApplyOne, serverVars
<1>6. CASE log[i].op = "delete"
  <2>1. Enqueue(d, log[i].ent, "delete") /\ UNCHANGED <<push, row, log, written, editors>>
        /\ local' = [local EXCEPT ![d][log[i].ent] = Absent]
    BY <1>6 DEF ApplyOne, serverVars
  <2>2. Queued(d, log[i].ent, "delete") /\ log[i].ent \in Entities
    BY <1>2, <1>3, <1>4, <1>6, <2>1 DEF Queued, LogRow
  <2>3. \A c \in Devices : \A o : Fresh(c, o) => c = d /\ o.ent = log[i].ent /\ o.op = "delete"
    BY <1>1, <2>2, QueuedOnce DEF Fresh
  <2>4. \E o : Fresh(d, o) /\ o.op = "delete" /\ o.ent = log[i].ent
    <3> DEFINE x == [key |-> keys + 1, ent |-> log[i].ent, op |-> "delete"]
    <3>1. Fresh(d, x) /\ x.op = "delete" /\ x.ent = log[i].ent
      BY <2>2 DEF Fresh
    <3> QED
      BY <3>1
  <2>5. \A c \in Devices, e \in Entities :
          local'[c][e] = IF c = d /\ e = log[i].ent THEN Absent ELSE local[c][e]
    BY <1>1, <1>5, <2>1, <2>2
  <2> QED
    BY <1>2, <1>3, <1>6, <1>8, <2>3, <2>4, <2>5
<1>7. CASE log[i].op # "delete"
  <2>1. UNCHANGED <<push, row, log, written, editors, keys>> /\ local' = [local EXCEPT ![d][log[i].ent] = log[i].key]
    BY <1>7 DEF ApplyOne, serverVars
  <2>2. \A c \in Devices : \A o : ~Fresh(c, o)
    BY <1>5, <2>1, FreshIs
  <2>3. log[i].ent \in Entities
    BY <1>4 DEF LogRow
  <2> QED
    BY <1>1, <1>2, <1>3, <1>5, <1>7, <1>8, <2>1, <2>2, <2>3
<1> QED
  BY <1>6, <1>7

\* A page is of rows of other devices past the sync's position, and goes on without a
\* gap to the last of them.
PageInv ==
  \A s \in Syncs : sync[s].pc = "apply" =>
    /\ \A i \in sync[s].page : log[i].dev # DeviceOf[s] /\ i > sync[s].at[2]
    /\ \A i \in sync[s].page, j \in DOMAIN log :
         i < j /\ j <= sync[s].next[2] /\ log[j].dev # DeviceOf[s] => j \in sync[s].page

\* Nothing is queued by a step that keeps the keys.
LEMMA NothingFresh ==
  ASSUME SyncTypes, keys' = keys
  PROVE  \A d \in Devices : \A o : ~Fresh(d, o)
<1>1. keys \in Nat
  BY DEF SyncTypes
<1> QED
  BY <1>1, FreshIs

\* Nor by a change of a source aside of the outbox, which alters no record of an
\* entity that only its device edits.
LEMMA AsideQueues ==
  ASSUME SyncTypes, NEW d \in Devices, EditSource(d)
  PROVE  /\ \A c \in Devices : \A o : ~Fresh(c, o)
         /\ \A e \in Entities : Sole(e)' => Sole(e) /\ \A c \in Devices : local'[c][e] = local[c][e]
<1>1. outbox' = outbox /\ outbox \in [Devices -> Seq(Operation)]
  BY AsideIs DEF SyncTypes
<1>2. ASSUME NEW c \in Devices, NEW o, Fresh(c, o)
      PROVE  FALSE
  <2>1. PICK e \in Entities, op \in {"create", "update", "delete"} :
          Enqueue(c, e, op) /\ o = [key |-> keys + 1, ent |-> e, op |-> op]
    BY <1>2 DEF Fresh, Queued
  <2>2. o \in Operation
    <3>1. keys \in Nat /\ keys < MaxKeys /\ MaxKeys \in Nat
      BY <2>1, SyncAssumption DEF Enqueue, SyncTypes
    <3>2. keys + 1 \in 1..MaxKeys
      BY <3>1
    <3> QED
      BY <2>1, <3>2 DEF Operation
  <2>3. outbox' = [outbox EXCEPT ![c] = Append(outbox[c], o)]
    BY <2>1 DEF Enqueue
  <2>4. outbox[c] = Append(outbox[c], o) /\ outbox[c] \in Seq(Operation)
    BY <1>1, <2>3
  <2>5. Len(Append(outbox[c], o)) = Len(outbox[c]) + 1 /\ Len(outbox[c]) \in Nat
    BY <2>2, <2>4
  <2> QED
    BY <2>4, <2>5
<1>3. ASSUME NEW e \in Entities, Sole(e)'
      PROVE  Sole(e) /\ \A c \in Devices : local'[c][e] = local[c][e]
  BY <1>3, AsideIs DEF Sole
<1> QED
  BY <1>2, <1>3

\* There is nothing of an entity before it is created.
LEMMA EditorsStep ==
  ASSUME SyncTypes, SyncTypes', CursorInv, CursorInv', OwnChange, LocalChange, EditorsInv
  PROVE  EditorsInv'
<1> SUFFICES ASSUME NEW e \in Entities
             PROVE  /\ IsFiniteSet(editors'[e])
                    /\ editors'[e] # {} => Home[e] \in editors'[e]
                    /\ editors'[e] = {} => (\A o \in AllOps' : o.ent # e) /\ \A d \in Devices : local'[d][e] = Absent
  BY DEF EditorsInv
<1>1. /\ IsFiniteSet(editors[e])
      /\ editors[e] # {} => Home[e] \in editors[e]
      /\ editors[e] = {} => (\A o \in AllOps : o.ent # e) /\ \A d \in Devices : local[d][e] = Absent
  BY DEF EditorsInv
<1>2. \A o \in AllOps' : o \in AllOps \/ \E d \in Devices : Fresh(d, o)
  BY AllOpsStep
<1>3. CASE UNCHANGED <<local, editors, aside, seen, keys>>
  BY <1>1, <1>2, <1>3, NothingFresh
<1>4. ASSUME NEW d \in Devices, NEW f \in Entities, NEW op \in {"create", "update", "delete"}, Edit(d, f, op)
      PROVE  /\ IsFiniteSet(editors'[e])
             /\ editors'[e] # {} => Home[e] \in editors'[e]
             /\ editors'[e] = {} => (\A o \in AllOps' : o.ent # e) /\ \A c \in Devices : local'[c][e] = Absent
  <2>1. CASE f = e
    <3>1. editors'[e] = editors[e] \union {d}
      BY <1>4, <2>1, EditIs
    <3>2. IsFiniteSet(editors'[e])
      BY <1>1, <3>1, FS_AddElement
    <3>3. d = Home[e] \/ editors[e] # {}
      BY <1>1, <1>4, <2>1 DEF Edit
    <3> QED
      BY <1>1, <3>1, <3>2, <3>3
  <2>2. CASE f # e
    <3>1. editors'[e] = editors[e] /\ \A c \in Devices : local'[c][e] = local[c][e]
      BY <1>4, <2>2, EditIs
    <3>2. \A c \in Devices : \A o : Fresh(c, o) => o.ent # e
      BY <1>4, <2>2, EditIs
    <3> QED
      BY <1>1, <1>2, <3>1, <3>2
  <2> QED
    BY <2>1, <2>2
<1>5. ASSUME NEW s \in Syncs, ApplyOne(s)
      PROVE  /\ IsFiniteSet(editors'[e])
             /\ editors'[e] # {} => Home[e] \in editors'[e]
             /\ editors'[e] = {} => (\A o \in AllOps' : o.ent # e) /\ \A c \in Devices : local'[c][e] = Absent
  <2>1. PICK i : i = FirstIn(sync[s].page)
    OBVIOUS
  <2>2. /\ i \in DOMAIN log /\ editors' = editors
        /\ \A c \in Devices : \A o : Fresh(c, o) => o.ent = log[i].ent
        /\ \A c \in Devices, f \in Entities : f # log[i].ent => local'[c][f] = local[c][f]
    BY <1>5, <2>1, ApplyIs
  <2>3. editors[e] = {} => log[i].ent # e
    BY <1>1, <2>2, LoggedIs
  <2> QED
    BY <1>1, <1>2, <2>2, <2>3
<1>6. ASSUME NEW d \in Devices, EditSource(d)
      PROVE  /\ IsFiniteSet(editors'[e])
             /\ editors'[e] # {} => Home[e] \in editors'[e]
             /\ editors'[e] = {} => (\A o \in AllOps' : o.ent # e) /\ \A c \in Devices : local'[c][e] = Absent
  <2>1. editors' = editors /\ \A c \in Devices : local'[c][e] # Absent => local[c][e] # Absent
    BY <1>6, AsideIs
  <2>2. \A o \in AllOps' : o \in AllOps
    BY <1>2, <1>6, AsideQueues
  <2> QED
    BY <1>1, <2>1, <2>2
<1> QED
  BY <1>3, <1>4, <1>5, <1>6 DEF LocalChange

\* An entity that one device edits is told by it.
LEMMA SoleStep ==
  ASSUME SyncTypes, SyncTypes', CursorInv, CursorInv', OwnInv, OwnChange, LocalChange, EditorsInv, SoleInv, PageInv
  PROVE  SoleInv'
<1> SUFFICES ASSUME NEW e \in Entities, Sole(e)', editors'[e] # {}
             PROVE  Told(e)'
  BY DEF SoleInv
<1> DEFINE h == Home[e]
<1>1. h \in Devices
  BY SyncAssumption
<1>2. CASE UNCHANGED <<local, editors, aside, seen, keys>>
  <2>1. Told(e)
    BY <1>2 DEF SoleInv, Sole
  <2> QED
    BY <1>2, <2>1, NothingFresh, ToldKept DEF Sole
<1>3. ASSUME NEW d \in Devices, NEW f \in Entities, NEW op \in {"create", "update", "delete"}, Edit(d, f, op)
      PROVE  Told(e)'
  <2>1. CASE f = e
    <3>1. editors'[e] = editors[e] \union {d}
      BY <1>3, <2>1, EditIs
    <3>2. d = Home[e] /\ Sole(e)
      BY <1>3, <2>1, <3>1, EditIs DEF Sole
    <3> QED
      BY <1>3, <2>1, <3>2, ToldEdit
  <2>2. CASE f # e
    <3>1. editors'[e] = editors[e] /\ local'[h][e] = local[h][e] /\ aside' = aside
      BY <1>1, <1>3, <2>2, EditIs
    <3>2. \A c \in Devices : \A o : Fresh(c, o) => o.ent # e
      BY <1>3, <2>2, EditIs
    <3>3. Told(e)
      BY <3>1 DEF SoleInv, Sole
    <3> QED
      BY <3>1, <3>2, <3>3, ToldKept DEF Sole
  <2> QED
    BY <2>1, <2>2
<1>4. ASSUME NEW s \in Syncs, ApplyOne(s)
      PROVE  Told(e)'
  <2>1. PICK i : i = FirstIn(sync[s].page)
    OBVIOUS
  <2>2. /\ i \in sync[s].page /\ i \in DOMAIN log /\ editors' = editors /\ aside' = aside
        /\ \A c \in Devices : \A o : Fresh(c, o) => log[i].op = "delete" /\ o.ent = log[i].ent /\ o.op = "delete"
        /\ local'[h][e] = IF h = DeviceOf[s] /\ e = log[i].ent
                          THEN IF log[i].op = "delete" THEN Absent ELSE log[i].key
                          ELSE local[h][e]
    BY <1>1, <1>4, <2>1, ApplyIs
  <2>3. Told(e)
    BY <2>2 DEF SoleInv, Sole
  <2>4. log[i].dev # DeviceOf[s] /\ log[i].dev \in Devices
    BY <1>4, <2>2, LoggedIs DEF PageInv, ApplyOne
  <2>5. log[i].ent = e /\ log[i].op = "delete" => local[h][e] = Absent
    BY <2>2, <2>3, LoggedIs DEF Told
  <2>6. log[i].ent = e /\ log[i].op # "delete" => log[i].dev = h
    <3>1. /\ Logged(log, i) \in OpsOf(log[i].dev) /\ Logged(log, i).ent = log[i].ent
          /\ Logged(log, i).op = log[i].op
      BY <2>2, LoggedIs
    <3> QED
      BY <2>3, <2>4, <3>1 DEF Told
  <2>7. local'[h][e] = local[h][e]
    BY <2>2, <2>4, <2>5, <2>6
  <2>8. \A c \in Devices : \A o : Fresh(c, o) /\ o.ent = e => o.op = "delete" /\ local[h][e] = Absent
    BY <2>2, <2>5
  <2> QED
    BY <2>3, <2>7, <2>8, ToldKept DEF Sole
<1>5. ASSUME NEW d \in Devices, EditSource(d)
      PROVE  Told(e)'
  <2>1. Sole(e) /\ editors[e] # {} /\ local'[h][e] = local[h][e] /\ \A c \in Devices : \A o : ~Fresh(c, o)
    BY <1>1, <1>5, AsideIs, AsideQueues
  <2>2. Told(e) /\ Fit(e)
    BY <2>1 DEF SoleInv, Sole
  <2> QED
    BY <2>1, <2>2, ToldKept
<1> QED
  BY <1>2, <1>3, <1>4, <1>5 DEF LocalChange

-----------------------------------------------------------------------------
(* What the log tells of the rows *)

\* The last row of a log for e.
NewestIn(l, e, i) == i \in DOMAIN l /\ l[i].ent = e /\ \A j \in DOMAIN l : j > i => l[j].ent # e

\* A record is what the last row of the log for it wrote; one that was created and is
\* gone was deleted.
TellsOf(rows, l) ==
  \A e \in Entities :
    /\ rows[e] # Absent => \E i \in DOMAIN l : NewestIn(l, e, i) /\ l[i].op # "delete" /\ l[i].key = LastEdit(rows[e])
    /\ rows[e] = Absent =>
         \A i \in DOMAIN l : l[i].ent = e /\ l[i].op = "create" => \E j \in DOMAIN l : l[j].ent = e /\ l[j].op = "delete"
TellsInv == TellsOf(row, log) /\ TellsOf(Rows, Log)

\* An accepted operation and its row of the log go together.
LEMMA TellsAppend ==
  ASSUME NEW l \in Seq(LogRow), NEW rows \in [Entities -> Nat], NEW o \in Operation, TellsOf(rows, l), Accepts(rows, o),
         NEW x, x.ent = o.ent, x.op = o.op, x.key = o.key,
         NEW m, m = Append(l, x), NEW w, w = Wrote(rows, o)
  PROVE  TellsOf(w, m)
<1>1. /\ Len(l) \in Nat /\ DOMAIN l = 1..Len(l) /\ DOMAIN m = 1..(Len(l) + 1)
      /\ \A i \in DOMAIN l : i \in DOMAIN m /\ m[i] = l[i]
      /\ m[Len(l) + 1] = x
  OBVIOUS
<1>2. o.ent \in Entities /\ o.op \in {"create", "update", "delete"} /\ o.key \in Nat /\ o.key # Absent
      /\ o.key \in 1..MaxKeys
  BY SyncAssumption DEF Operation, Absent
<1>3. /\ \A e \in Entities : e # o.ent => w[e] = rows[e]
      /\ o.op = "create" => w[o.ent] = o.key
      /\ o.op = "update" => IF rows[o.ent] = Absent THEN w[o.ent] = Absent ELSE w[o.ent] \in {o.key, Mixed(o.key)}
      /\ o.op = "delete" => w[o.ent] = Absent
  BY <1>2 DEF Wrote
<1> SUFFICES ASSUME NEW e \in Entities
             PROVE  /\ w[e] # Absent => \E i \in DOMAIN m : NewestIn(m, e, i) /\ m[i].op # "delete" /\ m[i].key = LastEdit(w[e])
                    /\ w[e] = Absent =>
                         \A i \in DOMAIN m : m[i].ent = e /\ m[i].op = "create" =>
                           \E j \in DOMAIN m : m[j].ent = e /\ m[j].op = "delete"
  BY DEF TellsOf
<1>4. /\ rows[e] # Absent => \E i \in DOMAIN l : NewestIn(l, e, i) /\ l[i].op # "delete" /\ l[i].key = LastEdit(rows[e])
      /\ rows[e] = Absent =>
           \A i \in DOMAIN l : l[i].ent = e /\ l[i].op = "create" => \E j \in DOMAIN l : l[j].ent = e /\ l[j].op = "delete"
  BY DEF TellsOf
<1>5. \A i \in DOMAIN m : (i \in DOMAIN l /\ m[i] = l[i]) \/ (i = Len(l) + 1 /\ m[i] = x)
  BY <1>1
<1>6. Len(l) + 1 \in DOMAIN m
  BY <1>1
<1>7. CASE e # o.ent
  <2>1. \A i : NewestIn(l, e, i) => NewestIn(m, e, i)
    BY <1>1, <1>5, <1>7 DEF NewestIn
  <2>2. w[e] = rows[e]
    BY <1>3, <1>7
  <2>3. w[e] # Absent => \E i \in DOMAIN m : NewestIn(m, e, i) /\ m[i].op # "delete" /\ m[i].key = LastEdit(w[e])
    BY <1>1, <1>4, <2>1, <2>2
  <2>4. w[e] = Absent =>
          \A i \in DOMAIN m : m[i].ent = e /\ m[i].op = "create" => \E j \in DOMAIN m : m[j].ent = e /\ m[j].op = "delete"
    BY <1>1, <1>4, <1>5, <1>7, <2>2
  <2> QED
    BY <2>3, <2>4
<1>8. CASE e = o.ent
  <2>1. NewestIn(m, e, Len(l) + 1)
    BY <1>1, <1>5, <1>6, <1>8 DEF NewestIn
  <2>2. w[e] # Absent => o.op # "delete" /\ o.key = LastEdit(w[e])
    BY <1>2, <1>3, <1>8, LastEditIs
  <2>3. w[e] # Absent => \E i \in DOMAIN m : NewestIn(m, e, i) /\ m[i].op # "delete" /\ m[i].key = LastEdit(w[e])
    BY <1>1, <1>6, <2>1, <2>2
  <2>4. CASE o.op = "delete"
    <3>1. m[Len(l) + 1].ent = e /\ m[Len(l) + 1].op = "delete"
      BY <1>1, <1>8, <2>4
    <3> QED
      BY <1>6, <2>3, <3>1
  <2>5. CASE o.op # "delete"
    <3>1. w[e] = Absent => o.op = "update" /\ rows[e] = Absent
      BY <1>2, <1>3, <1>8, <2>5, LastEditIs
    <3>2. ASSUME w[e] = Absent, NEW i \in DOMAIN m, m[i].ent = e, m[i].op = "create"
          PROVE  \E j \in DOMAIN m : m[j].ent = e /\ m[j].op = "delete"
      <4>1. i \in DOMAIN l /\ m[i] = l[i]
        BY <1>5, <3>1, <3>2
      <4> QED
        BY <1>1, <1>4, <3>1, <3>2, <4>1
    <3> QED
      BY <2>3, <3>2
  <2> QED
    BY <2>4, <2>5
<1> QED
  BY <1>7, <1>8

\* The log tells of the rows after every step of the server.
LEMMA TellsStep ==
  ASSUME SyncTypes, TellsInv, SyncNext
  PROVE  TellsInv'
<1>1. CASE UNCHANGED <<row, written, log, Rows, Keys, Log>>
  BY <1>1 DEF TellsInv, TellsOf, NewestIn
<1>2. CASE UNCHANGED <<row, written, log>> /\ Rows' = row /\ Keys' = written /\ Log' = log
  BY <1>2 DEF TellsInv, TellsOf, NewestIn
<1>3. CASE row' = Rows /\ written' = Keys /\ log' = Log /\ UNCHANGED <<Rows, Keys, Log>>
  BY <1>3 DEF TellsInv, TellsOf, NewestIn
<1>4. CASE UNCHANGED <<row, written, log>> /\ ApplyOperation
  <2>1. Log \in Seq(LogRow)
    BY LogType
  <2>2. CASE ~Accepts(Rows, Head(Todo)) /\ Rows' = Rows /\ Log' = Log
    BY <1>4, <2>2 DEF TellsInv, TellsOf, NewestIn
  <2>3. CASE /\ Accepts(Rows, Head(Todo)) /\ Rows' = Wrote(Rows, Head(Todo))
             /\ Log' = Append(Log, Entry(push.dev, Head(Todo), clock'))
    <3>1. Rows \in [Entities -> Nat] /\ Head(Todo) \in Operation
      BY <1>4, PushApplied
    <3>2. PICK x : x = Entry(push.dev, Head(Todo), clock')
      OBVIOUS
    <3>3. x.ent = Head(Todo).ent /\ x.op = Head(Todo).op /\ x.key = Head(Todo).key
      BY <3>2 DEF Entry
    <3>4. TellsOf(Rows', Log')
      BY <2>1, <2>3, <3>1, <3>2, <3>3, TellsAppend DEF TellsInv
    <3> QED
      BY <1>4, <3>4 DEF TellsInv, TellsOf, NewestIn
  <2> QED
    BY <1>4, <2>2, <2>3, PushApplied
<1> QED
  BY <1>1, <1>2, <1>3, <1>4, ServerStep DEF ServerChange

-----------------------------------------------------------------------------
(* Echoes *)

\* What a device applied is in the log, and it queued a newer delete for each delete.
EchoInv ==
  \A d \in Devices :
    /\ seen[d] \subseteq DOMAIN log
    /\ \A i \in seen[d] : log[i].op = "delete" =>
         \E o \in OpsOf(d) : Held(d, o) /\ o.op = "delete" /\ o.key > log[i].key

\* A device that applies a delete queues one.
LEMMA EchoStep ==
  ASSUME SyncTypes, SyncTypes', CursorInv, CursorInv', OwnInv, OwnChange, Grown, LocalChange, EchoInv
  PROVE  EchoInv'
<1>1. log \in Seq(LogRow) /\ log' \in Seq(LogRow) /\ seen \in [Devices -> SUBSET Nat] /\ keys \in Nat
  BY DEF SyncTypes
<1>2. DOMAIN log \subseteq DOMAIN log' /\ \A i \in DOMAIN log : log'[i] = log[i]
  <2>1. Len(log) \in Nat /\ Len(log') \in Nat /\ DOMAIN log = 1..Len(log) /\ DOMAIN log' = 1..Len(log')
    BY <1>1
  <2> QED
    BY <2>1 DEF Grown
<1>3. \A d \in Devices : \A o : Held(d, o) /\ o.op = "delete" => Held(d, o)' /\ o \in OpsOf(d)'
  BY AllOpsStep DEF Refused
<1> DEFINE Echoed(d, i) == i \in DOMAIN log' /\ (log'[i].op = "delete" =>
             \E o \in OpsOf(d)' : Held(d, o)' /\ o.op = "delete" /\ o.key > log'[i].key)
<1>4. \A d \in Devices : \A i \in seen[d] : Echoed(d, i)
  BY <1>2, <1>3 DEF EchoInv
<1>5. SUFFICES \A d \in Devices : \A i \in seen'[d] : Echoed(d, i)
  BY DEF EchoInv
<1>6. CASE seen' = seen
  BY <1>4, <1>6
<1>7. ASSUME NEW s \in Syncs, ApplyOne(s)
      PROVE  \A d \in Devices : \A i \in seen'[d] : Echoed(d, i)
  <2>1. PICK i : i = FirstIn(sync[s].page)
    OBVIOUS
  <2>2. /\ i \in DOMAIN log /\ seen' = [seen EXCEPT ![DeviceOf[s]] = @ \union {i}] /\ DeviceOf[s] \in Devices
        /\ log[i].op = "delete" => \E o : Fresh(DeviceOf[s], o) /\ o.op = "delete" /\ o.ent = log[i].ent
    BY <1>7, <2>1, ApplyIs, SyncAssumption
  <2>3. \A d \in Devices : \A j \in seen'[d] : j \in seen[d] \/ (d = DeviceOf[s] /\ j = i)
    BY <1>1, <2>2
  <2>4. log[i].key \in Nat /\ log[i].key <= keys
    BY <2>2, LoggedIs, OpsKeys
  <2>5. Echoed(DeviceOf[s], i)
    <3>1. CASE log[i].op = "delete"
      <4>1. PICK o : Fresh(DeviceOf[s], o) /\ o.op = "delete"
        BY <2>2, <3>1
      <4>2. Held(DeviceOf[s], o)' /\ o \in OpsOf(DeviceOf[s])' /\ o.key = keys + 1
        BY <2>2, <4>1, FreshIs
      <4>3. o.key > log'[i].key
        BY <1>1, <1>2, <2>2, <2>4, <4>2
      <4> QED
        BY <1>2, <2>2, <4>1, <4>2, <4>3
    <3>2. CASE log[i].op # "delete"
      BY <1>2, <2>2, <3>2
    <3> QED
      BY <3>1, <3>2
  <2> HIDE DEF Echoed
  <2> QED
    BY <1>4, <2>3, <2>5
<1>8. ASSUME NEW d \in Devices, NEW f \in Entities, NEW op \in {"create", "update", "delete"}, Edit(d, f, op)
      PROVE  seen' = seen
  BY <1>8, EditIs
<1>9. ASSUME NEW d \in Devices, EditSource(d)
      PROVE  seen' = seen
  BY <1>9, AsideIs
<1> QED
  BY <1>6, <1>7, <1>8, <1>9 DEF LocalChange

-----------------------------------------------------------------------------
(* Pages and positions *)

\* What a step does to a sync and to the cursors.
TurnOf(t) ==
  \/ sync'[t] = sync[t] \/ sync'[t] = IdleSync
  \/ StartSync(t) /\ sync[t].pc = "idle" /\ sync'[t].pc # "apply" /\ sync'[t].at = cursor[DeviceOf[t]]
  \/ sync[t].pc \in {"push", "ack"} /\ sync'[t].pc = "ack"
  \/ sync[t].pc = "ack" /\ sync'[t].pc = "pull" /\ sync'[t].at = cursor[DeviceOf[t]]
  \/ /\ ApplyOne(t) /\ sync[t].pc = "apply" /\ sync'[t].pc = "apply"
     /\ sync'[t].page = sync[t].page \ {FirstIn(sync[t].page)}
     /\ sync'[t].at = sync[t].at /\ sync'[t].next = sync[t].next
  \/ AdvanceCursor(t) /\ sync[t].pc = "apply" /\ sync'[t].pc = "pull" /\ sync'[t].at = sync[t].next
  \/ /\ PullPage(t) /\ sync[t].pc = "pull" /\ sync'[t].pc = "apply" /\ sync'[t].at = sync[t].at
     /\ Changes(DeviceOf[t], sync[t].at) # {}
     /\ sync'[t].page = FirstPage(Changes(DeviceOf[t], sync[t].at))
     /\ sync'[t].next[2] = LastIn(FirstPage(Changes(DeviceOf[t], sync[t].at)))
CursorTurn ==
  \/ cursor' = cursor
  \/ \E s \in Syncs : /\ AdvanceCursor(s) /\ sync[s].pc = "apply" /\ sync[s].page = {}
                      /\ cursor' = [cursor EXCEPT ![DeviceOf[s]] = sync[s].next]
                      /\ sync'[s] = IdleSync \/ (sync'[s].pc = "pull" /\ sync'[s].at = sync[s].next)
                      /\ \A t \in Syncs : t # s => sync'[t] = sync[t]
OverlapTurn ==
  /\ overlap \subseteq overlap'
  /\ \A s, t \in Syncs :
       StartSync(s) /\ s # t => /\ sync'[t] = sync[t]
                                /\ DeviceOf[t] = DeviceOf[s] /\ sync[t].pc # "idle" => DeviceOf[s] \in overlap'

\* Every step is a turn of at most one sync.
LEMMA TurnStep ==
  ASSUME SyncTypes, AckInv, SyncNext
  PROVE  \A t \in Syncs : TurnOf(t)
<1>1. sync \in [Syncs -> Call]
  BY DEF SyncTypes
<1>2. ASSUME NEW s \in Syncs, NEW v, sync' = [sync EXCEPT ![s] = v], sync'[s] = v => TurnOf(s)
      PROVE  \A t \in Syncs : TurnOf(t)
  <2>1. \A t \in Syncs : t # s => sync'[t] = sync[t]
    BY <1>1, <1>2
  <2>2. sync'[s] = v
    BY <1>1, <1>2
  <2>3. \A t \in Syncs : t # s => TurnOf(t)
    BY <2>1 DEF TurnOf
  <2> QED
    BY <1>2, <2>2, <2>3
<1>3. CASE UNCHANGED sync
  BY <1>3 DEF TurnOf
<1>4. ASSUME NEW s \in Syncs, sync' = [sync EXCEPT ![s] = IdleSync]
      PROVE  \A t \in Syncs : TurnOf(t)
  <2>1. PICK v : v = IdleSync
    OBVIOUS
  <2>2. sync'[s] = v => TurnOf(s)
    BY <2>1 DEF TurnOf
  <2> QED
    BY <1>2, <1>4, <2>1, <2>2
<1>5. ASSUME NEW d \in Devices, NEW e \in Entities, NEW op \in {"create", "update", "delete"}, Edit(d, e, op)
      PROVE  \A t \in Syncs : TurnOf(t)
  BY <1>3, <1>5 DEF Edit
<1>6. ASSUME NEW s \in Syncs, StartSync(s)
      PROVE  \A t \in Syncs : TurnOf(t)
  <2> DEFINE pc == IF outbox[DeviceOf[s]] = <<>> THEN "pull" ELSE "push"
             v == [pc |-> pc, items |-> Pending(DeviceOf[s]), ok |-> <<>>, at |-> cursor[DeviceOf[s]], page |-> {},
                   next |-> <<0, 0>>, more |-> FALSE]
  <2>1. sync' = [sync EXCEPT ![s] = v] /\ sync[s].pc = "idle" /\ v.pc # "apply" /\ v.at = cursor[DeviceOf[s]]
    BY <1>6 DEF StartSync
  <2> HIDE DEF v
  <2>2. sync'[s] = v => TurnOf(s)
    BY <1>6, <2>1 DEF TurnOf
  <2> QED
    BY <1>2, <2>1, <2>2
<1>7. ASSUME NEW s \in Syncs, Acknowledge(s)
      PROVE  \A t \in Syncs : TurnOf(t)
  <2> DEFINE v == [sync[s] EXCEPT !.ok = Tail(sync[s].ok)]
  <2>1. sync' = [sync EXCEPT ![s] = v] /\ sync[s].pc = "ack"
    BY <1>1, <1>7 DEF Acknowledge
  <2>2. v.pc = "ack"
    BY <1>1, <2>1 DEF Call
  <2> HIDE DEF v
  <2>3. sync'[s] = v => TurnOf(s)
    BY <2>1, <2>2 DEF TurnOf
  <2> QED
    BY <1>2, <2>1, <2>3
<1>8. ASSUME NEW s \in Syncs, EndPush(s)
      PROVE  \A t \in Syncs : TurnOf(t)
  <2> DEFINE v == [sync[s] EXCEPT !.pc = "pull", !.at = cursor[DeviceOf[s]]]
  <2>1. sync' = [sync EXCEPT ![s] = v] /\ sync[s].pc = "ack"
    BY <1>1, <1>8 DEF EndPush
  <2>2. v.pc = "pull" /\ v.at = cursor[DeviceOf[s]]
    BY <1>1 DEF Call
  <2> HIDE DEF v
  <2>3. sync'[s] = v => TurnOf(s)
    BY <2>1, <2>2 DEF TurnOf
  <2> QED
    BY <1>2, <2>1, <2>3
<1>9. ASSUME NEW s \in Syncs, ApplyOne(s)
      PROVE  \A t \in Syncs : TurnOf(t)
  <2> DEFINE v == [sync[s] EXCEPT !.page = sync[s].page \ {FirstIn(sync[s].page)}]
  <2>1. sync' = [sync EXCEPT ![s] = v] /\ sync[s].pc = "apply"
    BY <1>1, <1>9 DEF ApplyOne
  <2>2. /\ v.pc = "apply" /\ v.page = sync[s].page \ {FirstIn(sync[s].page)}
        /\ v.at = sync[s].at /\ v.next = sync[s].next
    BY <1>1, <2>1 DEF Call
  <2> HIDE DEF v
  <2>3. sync'[s] = v => TurnOf(s)
    BY <1>9, <2>1, <2>2 DEF TurnOf
  <2> QED
    BY <1>2, <2>1, <2>3
<1>10. ASSUME NEW s \in Syncs, AdvanceCursor(s)
       PROVE  \A t \in Syncs : TurnOf(t)
  <2>1. CASE sync[s].more
    <3> DEFINE v == [sync[s] EXCEPT !.pc = "pull", !.at = sync[s].next]
    <3>1. sync' = [sync EXCEPT ![s] = v] /\ sync[s].pc = "apply"
      BY <1>1, <1>10, <2>1 DEF AdvanceCursor
    <3>2. v.pc = "pull" /\ v.at = sync[s].next
      BY <1>1 DEF Call
    <3> HIDE DEF v
    <3>3. sync'[s] = v => TurnOf(s)
      BY <1>10, <3>1, <3>2 DEF TurnOf
    <3> QED
      BY <1>2, <3>1, <3>3
  <2>2. CASE ~sync[s].more
    BY <1>1, <1>4, <1>10, <2>2 DEF AdvanceCursor
  <2> QED
    BY <2>1, <2>2
<1>11. ASSUME NEW s \in Syncs, Abandon(s)
       PROVE  \A t \in Syncs : TurnOf(t)
  BY <1>4, <1>11 DEF Abandon
<1>12. ASSUME NEW s \in Syncs, PullPage(s)
       PROVE  \A t \in Syncs : TurnOf(t)
  <2> DEFINE all == Changes(DeviceOf[s], sync[s].at)
             page == FirstPage(all)
             last == LastIn(page)
             more == all # page
             next == <<log[last].at, last>>
             v == [sync[s] EXCEPT !.pc = "apply", !.page = page, !.more = more, !.next = next]
  <2>1. sync' = [sync EXCEPT ![s] = IdleSync] \/ (all # {} /\ sync' = [sync EXCEPT ![s] = v])
    BY <1>1, <1>12 DEF PullPage
  <2>2. sync[s].pc = "pull" /\ next[2] = last
    BY <1>12 DEF PullPage
  <2>3. PICK nx : nx = next
    OBVIOUS
  <2>4. nx[2] = last
    BY <2>2, <2>3
  <2> HIDE DEF all, page, last, more, next
  <2>5. v.pc = "apply" /\ v.page = page /\ v.at = sync[s].at /\ v.next = nx
    BY <1>1, <2>3 DEF Call
  <2> HIDE DEF v
  <2>6. all # {} /\ sync'[s] = v => TurnOf(s)
    BY <1>12, <2>2, <2>4, <2>5 DEF TurnOf, all, page, last
  <2> QED
    BY <1>2, <1>4, <2>1, <2>6
<1>13. CASE CommitPush
  <2>1. CASE push.from \in Syncs
    <3> PICK s \in Syncs : s = push.from
      BY <2>1
    <3> DEFINE v == [sync[s] EXCEPT !.pc = "ack", !.ok = push.ok]
    <3>1. sync' = [sync EXCEPT ![s] = v]
      BY <1>1, <1>13, <2>1 DEF CommitPush
    <3>2. v.pc = "ack" /\ sync[s].pc = "push"
      BY <1>1, <1>13 DEF Call, AckInv, Awaits, CommitPush
    <3> HIDE DEF v
    <3>3. sync'[s] = v => TurnOf(s)
      BY <3>2 DEF TurnOf
    <3> QED
      BY <1>2, <3>1, <3>3
  <2>2. CASE push.from \notin Syncs
    BY <1>3, <1>13, <2>2 DEF CommitPush
  <2> QED
    BY <2>1, <2>2
<1>14. CASE RollbackPush
  BY <1>3, <1>4, <1>14 DEF RollbackPush
<1>15. CASE (\E s \in Syncs : ReceivePush(s)) \/ (\E m \in late : ReceiveLate(m)) \/ ApplyOperation
  BY <1>3, <1>15 DEF ReceivePush, ReceiveLate, ApplyOperation
<1>16. ASSUME NEW d \in Devices, EditSource(d)
       PROVE  \A t \in Syncs : TurnOf(t)
  BY <1>3, <1>16, AsideIs
<1> QED
  BY <1>5, <1>6, <1>7, <1>8, <1>9, <1>10, <1>11, <1>12, <1>13, <1>14, <1>15, <1>16 DEF SyncNext

\* Only the end of a page moves a cursor; a second sync of a device is noted.
LEMMA CursorTurns ==
  ASSUME SyncTypes, SyncNext
  PROVE  CursorTurn /\ OverlapTurn
<1>1. sync \in [Syncs -> Call]
  BY DEF SyncTypes
<1>2. CursorTurn
  <2>1. ASSUME NEW s \in Syncs, AdvanceCursor(s)
        PROVE  CursorTurn
    <3>1. sync[s].pc = "apply" /\ sync[s].page = {} /\ cursor' = [cursor EXCEPT ![DeviceOf[s]] = sync[s].next]
      BY <2>1 DEF AdvanceCursor
    <3>2. \A t \in Syncs : t # s => sync'[t] = sync[t]
      BY <1>1, <2>1 DEF AdvanceCursor
    <3>3. CASE sync[s].more
      <4> DEFINE v == [sync[s] EXCEPT !.pc = "pull", !.at = sync[s].next]
      <4>1. sync' = [sync EXCEPT ![s] = v]
        BY <1>1, <2>1, <3>3 DEF AdvanceCursor
      <4>2. v.pc = "pull" /\ v.at = sync[s].next
        BY <1>1 DEF Call
      <4> HIDE DEF v
      <4>3. sync'[s] = v
        BY <1>1, <4>1
      <4> QED
        BY <2>1, <3>1, <3>2, <4>2, <4>3 DEF CursorTurn
    <3>4. CASE ~sync[s].more
      <4>1. sync'[s] = IdleSync
        BY <1>1, <2>1, <3>4 DEF AdvanceCursor
      <4> QED
        BY <2>1, <3>1, <3>2, <4>1 DEF CursorTurn
    <3> QED
      BY <3>3, <3>4
  <2>2. (\E s \in Syncs : AdvanceCursor(s)) \/ cursor' = cursor
    BY DEF SyncNext, Edit, EditSource, StartSync, Acknowledge, EndPush, ApplyOne, Abandon, ReceivePush, PullPage,
           ReceiveLate, ApplyOperation, CommitPush, RollbackPush, deviceVars
  <2> QED
    BY <2>1, <2>2 DEF CursorTurn
<1>3. overlap \subseteq overlap'
  BY DEF SyncNext, Edit, EditSource, StartSync, Acknowledge, EndPush, ApplyOne, AdvanceCursor, Abandon, ReceivePush, PullPage,
         ReceiveLate, ApplyOperation, CommitPush, RollbackPush, syncHistory
<1>4. ASSUME NEW s \in Syncs, NEW t \in Syncs, StartSync(s), s # t
      PROVE  /\ sync'[t] = sync[t]
             /\ DeviceOf[t] = DeviceOf[s] /\ sync[t].pc # "idle" => DeviceOf[s] \in overlap'
  BY <1>1, <1>4 DEF StartSync
<1> QED
  BY <1>2, <1>3, <1>4 DEF OverlapTurn

\* So does a crash.
LEMMA CrashTurns ==
  ASSUME SyncTypes, CursorInv, AckInv, OwnInv, SyncTypes', Crash
  PROVE  (\A t \in Syncs : TurnOf(t)) /\ CursorTurn /\ OverlapTurn /\ LocalChange
<1>1. /\ UNCHANGED <<local, editors, aside, seen, keys, cursor, overlap>>
      /\ \A s \in Syncs : sync'[s] = sync[s] \/ sync'[s] = IdleSync
  BY OwnCrash
<1>2. \A s \in Syncs : ~StartSync(s)
  <2>1. ASSUME NEW s \in Syncs, StartSync(s)
        PROVE  FALSE
    <3>1. sync[s].pc = "idle" /\ sync'[s].pc # "idle"
      BY <2>1 DEF StartSync, SyncTypes
    <3> QED
      BY <1>1, <3>1 DEF IdleSync
  <2> QED
    BY <2>1
<1> QED
  BY <1>1, <1>2 DEF TurnOf, CursorTurn, OverlapTurn, LocalChange

\* A device with one sync at a time pulls from its cursor.
StepwiseInv ==
  /\ \A s, t \in Syncs :
       s # t /\ DeviceOf[s] = DeviceOf[t] /\ sync[s].pc # "idle" /\ sync[t].pc # "idle" => DeviceOf[s] \in overlap
  /\ \A s \in Syncs :
       DeviceOf[s] \notin overlap /\ sync[s].pc \in {"pull", "apply"} => sync[s].at = cursor[DeviceOf[s]]

\* It does so until it runs two at once.
LEMMA StepwiseStep ==
  ASSUME SyncTypes, StepwiseInv, \A t \in Syncs : TurnOf(t), CursorTurn, OverlapTurn
  PROVE  StepwiseInv'
<1>1. IdleSync.pc = "idle"
  BY DEF IdleSync
<1>2. \A s \in Syncs : sync[s].pc = "idle" /\ sync'[s].pc # "idle" => StartSync(s)
  BY <1>1 DEF TurnOf
<1>3. /\ overlap \subseteq overlap' /\ \A s \in Syncs : DeviceOf[s] \in Devices
      /\ cursor \in [Devices -> Nat \X Nat]
  BY SyncAssumption DEF OverlapTurn, SyncTypes
<1>4. ASSUME NEW s \in Syncs, NEW t \in Syncs, s # t, DeviceOf[s] = DeviceOf[t],
             sync'[s].pc # "idle", sync'[t].pc # "idle"
      PROVE  DeviceOf[s] \in overlap'
  <2>1. CASE sync[s].pc # "idle" /\ sync[t].pc # "idle"
    BY <1>3, <1>4, <2>1 DEF StepwiseInv
  <2>2. CASE sync[s].pc = "idle"
    BY <1>2, <1>4, <2>2 DEF OverlapTurn
  <2>3. CASE sync[t].pc = "idle"
    BY <1>2, <1>4, <2>3 DEF OverlapTurn
  <2> QED
    BY <2>1, <2>2, <2>3
<1>5. ASSUME NEW t \in Syncs, DeviceOf[t] \notin overlap', sync'[t].pc \in {"pull", "apply"}
      PROVE  sync'[t].at = cursor'[DeviceOf[t]]
  <2> DEFINE d == DeviceOf[t]
  <2>1. d \notin overlap /\ (sync[t].pc \in {"pull", "apply"} => sync[t].at = cursor[d])
    BY <1>3, <1>5 DEF StepwiseInv
  <2>2. CASE cursor'[d] = cursor[d]
    <3>1. AdvanceCursor(t) => cursor'[d] = sync[t].next
      BY <1>3 DEF AdvanceCursor
    <3> QED
      BY <1>1, <1>5, <2>1, <2>2, <3>1 DEF TurnOf
  <2>3. CASE cursor'[d] # cursor[d]
    <3>1. PICK s \in Syncs : /\ sync[s].pc = "apply" /\ cursor' = [cursor EXCEPT ![DeviceOf[s]] = sync[s].next]
                             /\ sync'[s] = IdleSync \/ (sync'[s].pc = "pull" /\ sync'[s].at = sync[s].next)
                             /\ \A u \in Syncs : u # s => sync'[u] = sync[u]
      BY <2>3 DEF CursorTurn
    <3>2. DeviceOf[s] = d
      BY <1>3, <2>3, <3>1
    <3>3. s = t
      BY <1>5, <2>1, <3>1, <3>2 DEF StepwiseInv
    <3> QED
      BY <1>1, <1>3, <1>5, <3>1, <3>3
  <2> QED
    BY <2>2, <2>3
<1> QED
  BY <1>4, <1>5 DEF StepwiseInv

\* A page goes on without a gap as it is applied, and while the log gets longer.
LEMMA PageStep ==
  ASSUME SyncTypes, SyncTypes', CursorInv, PageInv, Grown, \A t \in Syncs : TurnOf(t)
  PROVE  PageInv'
<1> SUFFICES ASSUME NEW t \in Syncs, sync'[t].pc = "apply"
             PROVE  /\ \A i \in sync'[t].page : log'[i].dev # DeviceOf[t] /\ i > sync'[t].at[2]
                    /\ \A i \in sync'[t].page, j \in DOMAIN log' :
                         i < j /\ j <= sync'[t].next[2] /\ log'[j].dev # DeviceOf[t] => j \in sync'[t].page
  BY DEF PageInv
<1>1. /\ sync[t] \in Call /\ sync[t].next \in Nat \X Nat /\ sync[t].page \in SUBSET DOMAIN log
      /\ Marks(sync[t].next) /\ log \in Seq(LogRow)
  BY DEF SyncTypes, Call, CursorInv
<1>2. /\ \A i \in DOMAIN log : log'[i] = log[i] /\ i \in Nat
      /\ \A j \in DOMAIN log' : j <= sync[t].next[2] => j \in DOMAIN log
  BY <1>1, MarksSurvive DEF Grown
<1>3. CASE sync'[t] = sync[t]
  BY <1>1, <1>2, <1>3 DEF PageInv
<1>4. CASE /\ ApplyOne(t) /\ sync[t].pc = "apply"
           /\ sync'[t].page = sync[t].page \ {FirstIn(sync[t].page)}
           /\ sync'[t].at = sync[t].at /\ sync'[t].next = sync[t].next
  <2>1. PICK f : f = FirstIn(sync[t].page)
    OBVIOUS
  <2>2. f \in Nat /\ \A j \in sync[t].page : f <= j
    BY <1>1, <1>2, <1>4, <2>1, ApplyIs
  <2> QED
    BY <1>1, <1>2, <1>4, <2>1, <2>2 DEF PageInv
<1>5. CASE /\ PullPage(t) /\ sync'[t].at = sync[t].at
           /\ Changes(DeviceOf[t], sync[t].at) # {}
           /\ sync'[t].page = FirstPage(Changes(DeviceOf[t], sync[t].at))
           /\ sync'[t].next[2] = LastIn(FirstPage(Changes(DeviceOf[t], sync[t].at)))
  <2>1. PICK all : all = Changes(DeviceOf[t], sync[t].at)
    OBVIOUS
  <2>2. all = {i \in DOMAIN log : log[i].dev # DeviceOf[t] /\ i > sync[t].at[2]}
    BY <2>1, PastMark
  <2>3. PICK page : page = FirstPage(all)
    OBVIOUS
  <2>4. page \subseteq all /\ page # {} /\ \A i \in all, j \in page : i <= j => i \in page
    BY <1>5, <2>1, <2>2, <2>3, PageHolds DEF FirstPage
  <2>5. LastIn(page) \in page
    BY <2>2, <2>4, LastInIsLast
  <2>6. log' = log
    BY <1>5 DEF PullPage, serverVars
  <2>7. sync[t].at[2] \in Nat
    BY <1>1 DEF Call
  <2>8. sync'[t].page = page /\ sync'[t].next[2] = LastIn(page) /\ sync'[t].at = sync[t].at
    BY <1>5, <2>1, <2>3
  <2>9. ASSUME NEW i \in page, NEW j \in DOMAIN log, i < j, j <= LastIn(page), log[j].dev # DeviceOf[t]
        PROVE  j \in page
    <3>1. j \in all
      BY <1>2, <2>2, <2>4, <2>7, <2>9
    <3> QED
      BY <2>4, <2>5, <2>9, <3>1
  <2> QED
    BY <2>2, <2>4, <2>6, <2>8, <2>9
<1> QED
  BY <1>3, <1>4, <1>5 DEF TurnOf, IdleSync

-----------------------------------------------------------------------------
(* Copies *)

\* An entity that another device edits, and that nobody deleted yet.
Copied(d, e) == Sole(e) /\ d # Home[e] /\ \A i \in DOMAIN log : log[i].ent = e => log[i].op # "delete"

\* The copy of it is what the last row of the log wrote, or that row is still to come.
CopyInv ==
  \A d \in Devices \ overlap, e \in Entities : Copied(d, e) =>
    \A i \in DOMAIN log : NewestIn(log, e, i) =>
      /\ i > cursor[d][2] \/ local[d][e] = log[i].key
      /\ \A s \in Syncs : DeviceOf[s] = d /\ sync[s].pc = "apply" =>
           i > sync[s].next[2] \/ i \in sync[s].page \/ local[d][e] = log[i].key

\* What one device edits, the log has from it, but for deletes.
LEMMA SoleRow ==
  ASSUME SyncTypes, CursorInv, EditorsInv, SoleInv, NEW e \in Entities, Sole(e),
         NEW i \in DOMAIN log, log[i].ent = e, log[i].op # "delete"
  PROVE  log[i].dev = Home[e] /\ Told(e)
<1>1. /\ log[i].dev \in Devices /\ Logged(log, i) \in OpsOf(log[i].dev) /\ Logged(log, i) \in AllOps
      /\ Logged(log, i).ent = e /\ Logged(log, i).op # "delete"
  BY LoggedIs
<1>2. editors[e] # {}
  BY <1>1 DEF EditorsInv
<1>3. Told(e)
  BY <1>2 DEF SoleInv
<1> QED
  BY <1>1, <1>3 DEF Told

\* A copy is brought up to date row by row, and the cursor waits for it.
LEMMA CopyStep ==
  ASSUME SyncTypes, SyncTypes', CursorInv, CursorInv', EditorsInv, SoleInv, PageInv, StepwiseInv, CopyInv,
         Grown, LocalChange, \A t \in Syncs : TurnOf(t), CursorTurn, OverlapTurn
  PROVE  CopyInv'
<1> SUFFICES ASSUME NEW d \in Devices, d \notin overlap', NEW e \in Entities, Copied(d, e)',
                    NEW i \in DOMAIN log', NewestIn(log', e, i)
             PROVE  /\ i > cursor'[d][2] \/ local'[d][e] = log'[i].key
                    /\ \A t \in Syncs : DeviceOf[t] = d /\ sync'[t].pc = "apply" =>
                         i > sync'[t].next[2] \/ i \in sync'[t].page \/ local'[d][e] = log'[i].key
  BY DEF CopyInv, NewestIn
<1>1. /\ log \in Seq(LogRow) /\ log' \in Seq(LogRow) /\ cursor \in [Devices -> Nat \X Nat] /\ sync \in [Syncs -> Call]
      /\ \A s \in Syncs : DeviceOf[s] \in Devices /\ sync[s].next \in Nat \X Nat /\ sync[s].page \in SUBSET DOMAIN log
  BY SyncAssumption DEF SyncTypes, Call
<1>2. /\ DOMAIN log \subseteq DOMAIN log' /\ \A j \in DOMAIN log : log'[j] = log[j]
      /\ DOMAIN log = 1..Len(log) /\ Len(log) \in Nat /\ i \in Nat
      /\ i \notin DOMAIN log => i > Len(log)
  <2>1. Len(log) \in Nat /\ Len(log') \in Nat /\ DOMAIN log = 1..Len(log) /\ DOMAIN log' = 1..Len(log')
    BY <1>1
  <2> QED
    BY <2>1 DEF Grown
<1>3. d \notin overlap
  BY DEF OverlapTurn
<1>4. \A f \in Entities : editors[f] \subseteq editors'[f]
  <2>1. ASSUME NEW c \in Devices, NEW f \in Entities, NEW op \in {"create", "update", "delete"}, Edit(c, f, op)
        PROVE  \A g \in Entities : editors[g] \subseteq editors'[g]
    BY <2>1, EditIs
  <2>2. ASSUME NEW s \in Syncs, ApplyOne(s)
        PROVE  editors' = editors
    BY <2>2 DEF ApplyOne
  <2>3. ASSUME NEW c \in Devices, EditSource(c)
        PROVE  editors' = editors
    BY <2>3, AsideIs
  <2> QED
    BY <2>1, <2>2, <2>3 DEF LocalChange
<1>10. e \in aside => e \in aside'
  <2>1. ASSUME NEW c \in Devices, NEW f \in Entities, NEW op \in {"create", "update", "delete"}, Edit(c, f, op)
        PROVE  aside' = aside
    BY <2>1, EditIs
  <2>2. ASSUME NEW s \in Syncs, ApplyOne(s)
        PROVE  aside' = aside
    BY <2>2 DEF ApplyOne
  <2>3. ASSUME NEW c \in Devices, EditSource(c)
        PROVE  aside \cap Entities \subseteq aside'
    BY <2>3, AsideIs
  <2> QED
    BY <2>1, <2>2, <2>3 DEF LocalChange
<1>5. Sole(e) /\ d # Home[e] /\ Copied(d, e) /\ \A j \in DOMAIN log : log[j].ent = e => log[j].op # "delete"
  BY <1>2, <1>4, <1>10 DEF Copied, Sole
<1>6. cursor[d][2] <= Len(log) /\ \A s \in Syncs : sync[s].next[2] <= Len(log)
  <2>1. Marks(cursor[d]) /\ \A s \in Syncs : Marks(sync[s].next)
    BY DEF CursorInv
  <2> QED
    BY <1>2, <2>1 DEF Marks
<1>7. cursor'[d] = cursor[d] \/ \E s \in Syncs : DeviceOf[s] = d /\ sync[s].pc = "apply" /\ sync[s].page = {}
                                                  /\ cursor'[d] = sync[s].next
  BY <1>1 DEF CursorTurn
<1>8. CASE i \notin DOMAIN log
  <2>1. cursor'[d][2] <= Len(log) /\ cursor'[d][2] \in Nat
    <3>1. cursor'[d] \in Nat \X Nat
      BY DEF SyncTypes
    <3> QED
      BY <1>6, <1>7, <3>1
  <2>2. ASSUME NEW t \in Syncs, sync'[t].pc = "apply"
        PROVE  i > sync'[t].next[2]
    <3>1. PullPage(t) => i \in DOMAIN log
      BY DEF PullPage, serverVars
    <3>2. sync'[t].next = sync[t].next
      BY <1>8, <2>2, <3>1 DEF TurnOf, IdleSync
    <3>3. sync[t].next[2] <= Len(log) /\ sync[t].next[2] \in Nat
      BY <1>1, <1>6
    <3> QED
      BY <1>2, <1>8, <3>2, <3>3
  <2> QED
    BY <1>2, <1>8, <2>1, <2>2
<1>9. CASE i \in DOMAIN log
  <2>1. NewestIn(log, e, i) /\ log'[i] = log[i] /\ log[i].ent = e /\ log[i].op # "delete"
    BY <1>2, <1>5, <1>9 DEF NewestIn
  <2>2. log[i].dev # d
    BY <1>5, <1>9, <2>1, SoleRow
  <2>3. /\ i > cursor[d][2] \/ local[d][e] = log[i].key
        /\ \A s \in Syncs : DeviceOf[s] = d /\ sync[s].pc = "apply" =>
             i > sync[s].next[2] \/ i \in sync[s].page \/ local[d][e] = log[i].key
    BY <1>3, <1>5, <1>9, <2>1 DEF CopyInv
  <2>4. ASSUME NEW s \in Syncs, ApplyOne(s), DeviceOf[s] = d, log[FirstIn(sync[s].page)].ent = e
        PROVE  /\ i > cursor'[d][2] \/ local'[d][e] = log'[i].key
               /\ \A t \in Syncs : DeviceOf[t] = d /\ sync'[t].pc = "apply" =>
                    i > sync'[t].next[2] \/ i \in sync'[t].page \/ local'[d][e] = log'[i].key
    <3>1. PICK r : r = FirstIn(sync[s].page)
      OBVIOUS
    <3>2. /\ r \in sync[s].page /\ r \in DOMAIN log /\ r \in Nat /\ log[r].ent = e /\ sync[s].pc = "apply"
          /\ log' = log /\ cursor' = cursor /\ local'[d][e] = log[r].key
      <4>1. /\ r \in sync[s].page /\ r \in DOMAIN log /\ log' = log /\ cursor' = cursor
            /\ local'[d][e] = IF log[r].op = "delete" THEN Absent ELSE log[r].key
        BY <2>4, <3>1, ApplyIs
      <4>2. log[r].ent = e /\ log[r].op # "delete"
        BY <1>5, <2>4, <3>1, <4>1
      <4>3. sync[s].pc = "apply"
        BY <2>4 DEF ApplyOne
      <4> QED
        BY <1>2, <4>1, <4>2, <4>3
    <3>3. r <= i
      BY <1>2, <2>1, <3>2 DEF NewestIn
    <3>4. CASE r = i
      BY <2>1, <3>2, <3>4
    <3>5. CASE r < i
      <4>1. r > cursor[d][2]
        BY <1>3, <2>4, <3>2 DEF PageInv, StepwiseInv
      <4>2. i > cursor'[d][2]
        <5>1. cursor[d][2] \in Nat
          BY <1>1
        <5> QED
          BY <1>2, <3>2, <3>5, <4>1, <5>1
      <4>3. ASSUME NEW t \in Syncs, DeviceOf[t] = d, sync'[t].pc = "apply"
            PROVE  i > sync'[t].next[2] \/ i \in sync'[t].page
        <5>1. sync[t].pc # "idle"
          BY <4>3 DEF TurnOf, IdleSync
        <5>2. t = s
          BY <1>3, <2>4, <3>2, <4>3, <5>1 DEF StepwiseInv
        <5>3. sync'[s].next = sync[s].next /\ sync[s].page \ {r} \subseteq sync'[s].page
          BY <3>1, <3>2, <4>3, <5>2 DEF TurnOf, IdleSync
        <5>4. i <= sync[s].next[2] => i \in sync[s].page
          BY <1>9, <2>2, <2>4, <3>2, <3>5 DEF PageInv
        <5>5. sync[s].next[2] \in Nat
          BY <1>1
        <5> QED
          BY <1>2, <3>5, <5>2, <5>3, <5>4, <5>5
      <4> QED
        BY <4>2, <4>3
    <3> QED
      BY <1>2, <3>2, <3>3, <3>4, <3>5
  <2>5. ASSUME ~\E s \in Syncs : ApplyOne(s) /\ DeviceOf[s] = d /\ log[FirstIn(sync[s].page)].ent = e
        PROVE  /\ i > cursor'[d][2] \/ local'[d][e] = log'[i].key
               /\ \A t \in Syncs : DeviceOf[t] = d /\ sync'[t].pc = "apply" =>
                    i > sync'[t].next[2] \/ i \in sync'[t].page \/ local'[d][e] = log'[i].key
    <3>1. local'[d][e] = local[d][e]
      <4>1. ASSUME NEW c \in Devices, NEW f \in Entities, NEW op \in {"create", "update", "delete"}, Edit(c, f, op)
            PROVE  local'[d][e] = local[d][e]
        <5>1. c = d /\ f = e => d \in editors'[e]
          BY <4>1, EditIs
        <5>2. ~(c = d /\ f = e)
          BY <1>5, <5>1 DEF Copied, Sole
        <5> QED
          BY <4>1, <5>2, EditIs
      <4>2. ASSUME NEW s \in Syncs, ApplyOne(s)
            PROVE  local'[d][e] = local[d][e]
        <5>1. PICK r : r = FirstIn(sync[s].page)
          OBVIOUS
        <5>2. ~(d = DeviceOf[s] /\ e = log[r].ent)
          BY <2>5, <4>2, <5>1
        <5> QED
          BY <4>2, <5>1, <5>2, ApplyIs
      <4>3. ASSUME NEW c \in Devices, EditSource(c)
            PROVE  local'[d][e] = local[d][e]
        BY <4>3, AsideQueues DEF Copied
      <4> QED
        BY <4>1, <4>2, <4>3 DEF LocalChange
    <3>2. i > cursor'[d][2] \/ local'[d][e] = log'[i].key
      BY <1>7, <2>1, <2>3, <3>1
    <3>3. ASSUME NEW t \in Syncs, DeviceOf[t] = d, sync'[t].pc = "apply"
          PROVE  i > sync'[t].next[2] \/ i \in sync'[t].page \/ local'[d][e] = log'[i].key
      <4>1. CASE sync'[t] = sync[t]
        BY <2>1, <2>3, <3>1, <3>3, <4>1
      <4>2. CASE /\ ApplyOne(t) /\ sync[t].pc = "apply"
                 /\ sync'[t].page = sync[t].page \ {FirstIn(sync[t].page)}
                 /\ sync'[t].next = sync[t].next
        <5>1. i # FirstIn(sync[t].page)
          BY <2>1, <2>5, <3>3, <4>2
        <5> QED
          BY <2>1, <2>3, <3>1, <3>3, <4>2, <5>1
      <4>3. CASE /\ PullPage(t) /\ sync[t].pc = "pull"
                 /\ Changes(DeviceOf[t], sync[t].at) # {}
                 /\ sync'[t].page = FirstPage(Changes(DeviceOf[t], sync[t].at))
                 /\ sync'[t].next[2] = LastIn(FirstPage(Changes(DeviceOf[t], sync[t].at)))
        <5>1. PICK all : all = Changes(d, sync[t].at)
          OBVIOUS
        <5>2. all = {j \in DOMAIN log : log[j].dev # d /\ j > sync[t].at[2]} /\ sync[t].at = cursor[d]
          BY <1>3, <3>3, <4>3, <5>1, PastMark DEF StepwiseInv
        <5>3. PICK page : page = FirstPage(all)
          OBVIOUS
        <5>4. page \subseteq all /\ page # {} /\ \A k \in all, j \in page : k <= j => k \in page
          BY <3>3, <4>3, <5>1, <5>2, <5>3, PageHolds DEF FirstPage
        <5>5. LastIn(page) \in page /\ LastIn(page) \in Nat
          BY <1>2, <5>2, <5>4, LastInIsLast
        <5>6. sync'[t].page = page /\ sync'[t].next[2] = LastIn(page)
          BY <3>3, <4>3, <5>1, <5>3
        <5>7. i > cursor[d][2] => i \in all
          BY <1>9, <2>2, <5>2
        <5>8. i \in all => i > LastIn(page) \/ i \in page
          BY <1>2, <5>4, <5>5
        <5> QED
          BY <2>1, <2>3, <3>1, <5>6, <5>7, <5>8
      <4> QED
        BY <3>3, <4>1, <4>2, <4>3 DEF TurnOf, IdleSync
    <3> QED
      BY <3>2, <3>3
  <2> QED
    BY <2>4, <2>5
<1> QED
  BY <1>8, <1>9

-----------------------------------------------------------------------------
(* Agreement *)

AgreeInv ==
  /\ OwnInv /\ EditorsInv /\ SoleInv /\ TellsInv /\ EchoInv /\ StepwiseInv /\ PageInv /\ CopyInv

\* Every step keeps it.
LEMMA AgreeStep ==
  ASSUME SyncInv, SyncInv', AgreeInv, [ReaderNext]_readerVars
  PROVE  AgreeInv'
<1>1. /\ SyncTypes /\ CursorInv /\ KeysInv /\ AckInv /\ SyncTypes' /\ CursorInv'
      /\ OwnInv /\ EditorsInv /\ SoleInv /\ TellsInv /\ EchoInv /\ StepwiseInv /\ PageInv /\ CopyInv
  BY DEF SyncInv, AgreeInv
<1>2. ASSUME OwnChange, Grown, LocalChange, \A t \in Syncs : TurnOf(t), CursorTurn, OverlapTurn, OwnInv', TellsInv'
      PROVE  AgreeInv'
  <2>1. EditorsInv' /\ SoleInv'
    BY <1>1, <1>2, EditorsStep, SoleStep
  <2>2. EchoInv'
    BY <1>1, <1>2, EchoStep
  <2>3. StepwiseInv' /\ PageInv'
    BY <1>1, <1>2, StepwiseStep, PageStep
  <2>4. CopyInv'
    BY <1>1, <1>2, CopyStep
  <2> QED
    BY <1>2, <2>1, <2>2, <2>3, <2>4 DEF AgreeInv
<1>3. CASE SyncNext
  <2>1. OwnChange /\ Grown /\ LocalChange /\ SenderChange /\ LogChange
    BY <1>1, <1>3, OwnStep
  <2>2. (\A t \in Syncs : TurnOf(t)) /\ CursorTurn /\ OverlapTurn
    BY <1>1, <1>3, TurnStep, CursorTurns
  <2>3. keys <= keys'
    BY <1>1, <1>3, CountersStep
  <2>4. /\ \A k \in written' : \E i \in DOMAIN log' : log'[i].key = k
        /\ \A k \in Keys' : \E i \in DOMAIN Log' : Log'[i].key = k
    BY <1>1, <1>3, <2>1, AcceptedStep
  <2>5. OwnInv'
    BY <1>1, <2>1, <2>3, <2>4, OwnInvStep
  <2>6. TellsInv'
    BY <1>1, <1>3, TellsStep
  <2> QED
    BY <1>2, <2>1, <2>2, <2>5, <2>6
<1>4. CASE Crash
  <2>1. /\ OwnChange /\ Grown /\ SenderChange /\ LogChange
        /\ UNCHANGED <<row, log, written, keys>> /\ Rows' = row /\ Log' = log /\ Keys' = written
    BY <1>1, <1>4, OwnCrash
  <2>2. (\A t \in Syncs : TurnOf(t)) /\ CursorTurn /\ OverlapTurn /\ LocalChange
    BY <1>1, <1>4, CrashTurns
  <2>3. keys <= keys'
    BY <1>1, <2>1 DEF SyncTypes
  <2>4. /\ \A k \in written' : \E i \in DOMAIN log' : log'[i].key = k
        /\ \A k \in Keys' : \E i \in DOMAIN Log' : Log'[i].key = k
    BY <1>1, <2>1 DEF OwnInv
  <2>5. OwnInv'
    BY <1>1, <2>1, <2>3, <2>4, OwnInvStep
  <2>6. TellsInv'
    BY <1>1, <2>1 DEF TellsInv, TellsOf, NewestIn
  <2> QED
    BY <1>2, <2>1, <2>2, <2>5, <2>6
<1>5. CASE UNCHANGED syncVars
  <2>1. UNCHANGED <<row, log, clock, push, local, outbox, cursor, sync, late, keys, editors, aside, written, acked, seen, overlap>>
    BY <1>5 DEF syncVars, serverVars, deviceVars, syncHistory
  <2>2. UNCHANGED <<Todo, Rows, Log, Keys>>
    BY <2>1, PushKept
  <2>3. \A d : OpsOf(d)' = OpsOf(d)
    BY <2>1, <2>2 DEF OpsOf, Logged
  <2>4. AllOps' = AllOps /\ \A d, o : Held(d, o)' <=> Held(d, o)
    BY <2>1, <2>3 DEF AllOps, Held, Logged
  <2>5. OwnInv'
    BY <1>1, <2>1, <2>2, <2>3 DEF OwnInv
  <2>6. EditorsInv'
    BY <1>1, <2>1, <2>4 DEF EditorsInv
  <2>7. SoleInv'
    BY <1>1, <2>1, <2>3, <2>4 DEF SoleInv, Sole, Told
  <2>8. TellsInv'
    BY <1>1, <2>1, <2>2 DEF TellsInv, TellsOf, NewestIn
  <2>9. EchoInv'
    BY <1>1, <2>1, <2>3, <2>4 DEF EchoInv
  <2>10. StepwiseInv' /\ PageInv'
    BY <1>1, <2>1 DEF StepwiseInv, PageInv
  <2>11. CopyInv'
    BY <1>1, <2>1 DEF CopyInv, Copied, Sole, NewestIn
  <2> QED
    BY <2>5, <2>6, <2>7, <2>8, <2>9, <2>10, <2>11 DEF AgreeInv
<1>6. SyncNext \/ Crash \/ UNCHANGED syncVars
  BY DEF ReaderNext, CrashInRegister, CrashInStore, readerVars
<1> QED
  BY <1>3, <1>4, <1>5, <1>6

\* It holds to begin with, as there is nothing yet.
LEMMA AgreeStart ==
  ASSUME SyncInit
  PROVE  AgreeInv
<1>1. /\ row = [e \in Entities |-> Absent] /\ log = <<>> /\ push = NoOne
      /\ local = [d \in Devices |-> [e \in Entities |-> Absent]]
      /\ outbox = [d \in Devices |-> <<>>] /\ cursor = [d \in Devices |-> <<0, 0>>]
      /\ sync = [s \in Syncs |-> IdleSync] /\ late = {} /\ keys = 0
      /\ editors = [e \in Entities |-> {}] /\ written = {} /\ seen = [d \in Devices |-> {}]
  BY DEF SyncInit
<1>2. Todo = <<>> /\ Rows = row /\ Log = <<>> /\ Keys = {}
  BY <1>1 DEF Todo, Rows, Log, Keys
<1>3. IdleSync.items = <<>> /\ IdleSync.pc = "idle"
  BY DEF IdleSync
<1>4. \A d \in Devices : OpsOf(d) = {}
  <2>1. ASSUME NEW d \in Devices, NEW o \in OpsOf(d)
        PROVE  FALSE
    BY <1>1, <1>2, <1>3, <2>1, OpsOfAre DEF OpsOfShape
  <2> QED
    BY <2>1
<1>5. AllOps = {}
  BY <1>4 DEF AllOps
<1>6. OwnInv
  BY <1>1, <1>2, <1>4 DEF OwnInv
<1>7. EditorsInv
  BY <1>1, <1>5, FS_EmptySet DEF EditorsInv
<1>8. SoleInv
  BY <1>1 DEF SoleInv
<1>9. TellsInv
  BY <1>1, <1>2 DEF TellsInv, TellsOf
<1>10. EchoInv
  BY <1>1 DEF EchoInv
<1>11. StepwiseInv /\ PageInv /\ CopyInv
  BY <1>1, <1>3 DEF StepwiseInv, PageInv, CopyInv
<1> QED
  BY <1>6, <1>7, <1>8, <1>9, <1>10, <1>11 DEF AgreeInv

\* The inductive invariant of agreement.
THEOREM AgreeInvariance == ReaderSpec => []AgreeInv
<1>1. ReaderInit => AgreeInv
  BY AgreeStart DEF ReaderInit
<1>2. SyncInv /\ SyncInv' /\ AgreeInv /\ [ReaderNext]_readerVars => AgreeInv'
  BY AgreeStep
<1> QED
  BY <1>1, <1>2, SyncInvariance, PTL DEF ReaderSpec

\* A device that has pulled to the end has applied every row of the others.
LEMMA QuietSeen ==
  ASSUME SyncTypes, CursorInv, Quiet, NEW d \in Syncing, NEW i \in DOMAIN log, log[i].dev # d
  PROVE  d \in Devices /\ i <= cursor[d][2] /\ i \in seen[d]
<1>1. d \in Devices
  BY SyncAssumption DEF Syncing
<1>2. cursor[d] \in Nat \X Nat /\ Marks(cursor[d]) /\ Covers(d, cursor[d], seen[d]) /\ i \in Nat /\ log[i] \in LogRow
  BY <1>1, LogType DEF SyncTypes, CursorInv
<1>3. i > cursor[d][2] => log[i].at >= cursor[d][1]
  <2>1. CASE cursor[d] = <<0, 0>>
    BY <1>2, <2>1 DEF LogRow
  <2>2. CASE cursor[d][2] \in DOMAIN log /\ cursor[d][1] = log[cursor[d][2]].at
    <3>1. log[cursor[d][2]] \in LogRow
      BY <2>2, LogType
    <3>2. i > cursor[d][2] => log[cursor[d][2]].at <= log[i].at
      BY <1>2, <2>2, LogOrdered
    <3> QED
      BY <1>2, <2>2, <3>1, <3>2 DEF LogRow
  <2> QED
    BY <1>2, <2>1, <2>2 DEF Marks
<1>4. i <= cursor[d][2]
  BY <1>2, <1>3 DEF Quiet, Changes
<1> QED
  BY <1>1, <1>2, <1>4 DEF Covers

\* Deletes never come to rest between two devices: while the log has one, some device
\* has another to send or to pull.
DeletesNeverRest ==
  Quiet /\ (\E c, d \in Syncing : c # d) => \A i \in DOMAIN log : log[i].op # "delete"

\* The newest delete of the log was of one device, and the others answered it.
LEMMA NewestIsAnswered ==
  ASSUME SyncInv, AgreeInv
  PROVE  DeletesNeverRest
<1> SUFFICES ASSUME Quiet, NEW c \in Syncing, NEW d \in Syncing, c # d, NEW i \in DOMAIN log, log[i].op = "delete"
             PROVE  FALSE
  BY DEF DeletesNeverRest
<1>1. SyncTypes /\ CursorInv /\ OwnInv /\ EchoInv
  BY DEF SyncInv, AgreeInv
<1> DEFINE K == {log[j].key : j \in {k \in DOMAIN log : log[k].op = "delete"}}
<1>2. K # {}
  OBVIOUS
<1>3. keys \in Nat /\ K \subseteq 0..keys
  <2>1. keys \in Nat /\ \A j \in DOMAIN log : log[j].key \in Nat /\ log[j].key <= keys
    BY <1>1, LoggedIs, OpsKeys
  <2> QED
    BY <2>1
<1>4. PICK m \in K : \A k \in K : k <= m
  <2> HIDE DEF K
  <2> QED
    BY <1>2, <1>3, Greatest
<1>5. PICK j \in DOMAIN log : log[j].op = "delete" /\ log[j].key = m
  BY <1>4
<1>6. PICK b \in Syncing : log[j].dev # b
  OBVIOUS
<1>7. b \in Devices /\ j \in seen[b]
  BY <1>1, <1>6, QuietSeen
<1>8. PICK o \in OpsOf(b) : Held(b, o) /\ o.op = "delete" /\ o.key > log[j].key
  BY <1>1, <1>5, <1>7 DEF EchoInv
<1>9. outbox[b] = <<>>
  BY <1>7 DEF Quiet
<1>10. PICK k \in DOMAIN log : Logged(log, k) = o
  BY <1>8, <1>9 DEF Held
<1>11. log[k].op = "delete" /\ log[k].key > m
  BY <1>5, <1>8, <1>10 DEF Logged
<1>12. log[k].key \in K
  BY <1>11
<1>13. log[k].key <= m /\ m \in Nat /\ log[k].key \in Nat
  BY <1>3, <1>4, <1>12
<1> QED
  BY <1>11, <1>13

\* DeletesNeverRest: every pulled delete is answered by a delete of the device's own, so
\* that two devices exchange a delete for as long as they sync.
THEOREM DeletesAreExchanged == ReaderSpec => []DeletesNeverRest
BY NewestIsAnswered, SyncInvariance, AgreeInvariance, PTL

\* The row of an entity that one device edited is what it shows, once all is sent.
LEMMA HomeAgrees ==
  ASSUME SyncInv, AgreeInv, Quiet, NEW e \in Entities, Sole(e), editors[e] # {}, LastIsNewest(e)
  PROVE  /\ local[Home[e]][e] = LastEdit(row[e])
         /\ row[e] = Absent => \E i \in DOMAIN log : log[i].ent = e /\ log[i].op = "delete"
         /\ row[e] # Absent =>
              /\ \A i \in DOMAIN log : log[i].ent = e => log[i].op # "delete"
              /\ \E i \in DOMAIN log : NewestIn(log, e, i) /\ log[i].key = LastEdit(row[e])
<1> DEFINE h == Home[e]
<1>1. SyncTypes /\ CursorInv /\ OwnInv /\ SoleInv /\ TellsInv /\ h \in Devices
  BY SyncAssumption DEF SyncInv, AgreeInv
<1> HIDE DEF h
<1>2. /\ \A o, p \in AllOps : o.ent = e /\ p.ent = e /\ o.op = "delete" /\ p.op # "delete" => p.key < o.key
      /\ (\E o \in AllOps : o.ent = e /\ o.op = "delete") => local[h][e] = Absent
      /\ local[h][e] # Absent => /\ \A o \in AllOps : o.ent = e => o.key <= local[h][e]
                                 /\ \E o \in OpsOf(h) : Held(h, o) /\ o.ent = e /\ o.key = local[h][e]
      /\ local[h][e] = Absent => \E o \in OpsOf(h) : Held(h, o) /\ o.ent = e /\ o.op = "delete"
      /\ \E o \in OpsOf(h) : Held(h, o) /\ o.ent = e /\ o.op = "create"
  BY <1>1 DEF SoleInv, Told, h
<1>3. \A o : Held(h, o) => \E i \in DOMAIN log : Logged(log, i) = o
  BY <1>1 DEF Quiet, Held
<1>4. \A i \in DOMAIN log : /\ Logged(log, i) \in AllOps /\ Logged(log, i).key = log[i].key /\ log[i].key \in Nat
                            /\ Logged(log, i).ent = log[i].ent /\ Logged(log, i).op = log[i].op /\ i \in Nat
  BY <1>1, LoggedIs, LogType DEF LogRow
<1>5. PICK c \in DOMAIN log : log[c].ent = e /\ log[c].op = "create"
  BY <1>2, <1>3 DEF Logged
<1>6. ASSUME NEW i \in DOMAIN log, NewestIn(log, e, i), NEW j \in DOMAIN log, log[j].ent = e
      PROVE  log[j].key <= log[i].key
  <2> DEFINE of == {k \in DOMAIN log : log[k].ent = e}
  <2>1. i \in of /\ \A k \in of : k <= i
    BY <1>4, <1>6 DEF NewestIn
  <2>2. Max(of) = i
    <3>1. Max(of) \in of /\ \A k \in of : k <= Max(of)
      BY <2>1 DEF Max
    <3>2. i <= Max(of) /\ Max(of) <= i /\ i \in Nat /\ Max(of) \in Nat
      <4> HIDE DEF of
      <4>1. of \subseteq Nat
        BY <1>4 DEF of
      <4> QED
        BY <2>1, <3>1, <4>1
    <3> QED
      BY <3>2
  <2> QED
    BY <1>6, <2>1, <2>2 DEF LastIsNewest
<1>7. CASE row[e] = Absent
  <2>1. PICK i \in DOMAIN log : log[i].ent = e /\ log[i].op = "delete"
    BY <1>1, <1>5, <1>7 DEF TellsInv, TellsOf
  <2>2. local[h][e] = Absent
    BY <1>2, <1>4, <2>1
  <2> QED
    BY <1>7, <2>1, <2>2, LastEditIs DEF h
<1>8. CASE row[e] # Absent
  <2>1. PICK i \in DOMAIN log : NewestIn(log, e, i) /\ log[i].op # "delete" /\ log[i].key = LastEdit(row[e])
    BY <1>1, <1>8 DEF TellsInv, TellsOf
  <2>2. log[i].ent = e
    BY <2>1 DEF NewestIn
  <2>3. ASSUME NEW j \in DOMAIN log, log[j].ent = e, log[j].op = "delete"
        PROVE  FALSE
    <3>1. log[i].key < log[j].key
      BY <1>2, <1>4, <2>1, <2>2, <2>3
    <3>2. log[j].key <= log[i].key
      BY <1>6, <2>1, <2>3
    <3> QED
      BY <1>4, <3>1, <3>2
  <2>4. local[h][e] # Absent
    <3>1. ASSUME NEW o, Held(h, o), o.ent = e, o.op = "delete"
          PROVE  FALSE
      BY <1>3, <2>3, <3>1 DEF Logged
    <3> QED
      BY <1>2, <3>1
  <2>5. PICK j \in DOMAIN log : log[j].ent = e /\ log[j].key = local[h][e]
    BY <1>2, <1>3, <2>4 DEF Logged
  <2>6. log[j].key <= log[i].key
    BY <1>6, <2>1, <2>5
  <2>7. log[i].key <= local[h][e]
    BY <1>2, <1>4, <2>2, <2>4
  <2>8. local[h][e] = LastEdit(row[e])
    BY <1>4, <2>1, <2>5, <2>6, <2>7
  <2> QED
    BY <1>8, <2>1, <2>3, <2>8 DEF h
<1> QED
  BY <1>7, <1>8

\* QuietAgree: once every outbox is empty and every syncing device has pulled to the
\* end, an entity that one device edits is the same edit on the server and on all of
\* them, unless the server refuses its record, its source was changed aside of the
\* outbox, an abandoned push overtook a newer one or a device ran two syncs at once.
THEOREM QuietDevicesAgree == ReaderSpec => []QuietAgree
<1>1. ASSUME SyncInv, AgreeInv, Quiet, overlap = {}, NEW e \in Entities, Cardinality(editors[e]) < 2, LastIsNewest(e),
             Fit(e), e \notin aside, NEW d \in Syncing
      PROVE  local[d][e] = LastEdit(row[e])
  <2>1. /\ SyncTypes /\ CursorInv /\ OwnInv /\ EditorsInv /\ SoleInv /\ TellsInv /\ EchoInv /\ CopyInv
        /\ d \in Devices
    BY <1>1, SyncAssumption DEF SyncInv, AgreeInv, Syncing
  <2>2. CASE editors[e] = {}
    <3>1. (\A o \in AllOps : o.ent # e) /\ local[d][e] = Absent
      BY <2>1, <2>2 DEF EditorsInv
    <3>2. \A i \in DOMAIN log : log[i].ent # e
      BY <2>1, <3>1, LoggedIs
    <3>3. row[e] = Absent
      BY <2>1, <3>2 DEF TellsInv, TellsOf, NewestIn
    <3> QED
      BY <3>1, <3>3, LastEditIs
  <2>3. CASE editors[e] # {}
    <3>1. IsFiniteSet(editors[e]) /\ Home[e] \in editors[e]
      BY <2>1, <2>3 DEF EditorsInv
    <3>2. Sole(e)
      <4>1. ASSUME NEW x \in editors[e], x # Home[e]
            PROVE  FALSE
        <5> DEFINE P == {x, Home[e]}
        <5>1. Cardinality(P) = 2 /\ IsFiniteSet(P)
          <6>1. Cardinality({Home[e]}) = 1 /\ IsFiniteSet({Home[e]})
            BY FS_Singleton
          <6>2. P = {Home[e]} \union {x} /\ x \notin {Home[e]}
            BY <4>1
          <6>3. /\ IsFiniteSet({Home[e]} \union {x})
                /\ Cardinality({Home[e]} \union {x}) =
                     IF x \in {Home[e]} THEN Cardinality({Home[e]}) ELSE Cardinality({Home[e]}) + 1
            BY <6>1, FS_AddElement, Zenon
          <6> HIDE DEF P
          <6> QED
            BY <6>1, <6>2, <6>3
        <5>2. P \subseteq editors[e]
          BY <3>1
        <5> HIDE DEF P
        <5>3. Cardinality(P) <= Cardinality(editors[e]) /\ Cardinality(editors[e]) \in Nat
          BY <3>1, <5>2, FS_Subset, FS_CardinalityType
        <5> QED
          BY <1>1, <5>1, <5>3
      <4> QED
        BY <1>1, <4>1 DEF Sole
    <3>3. /\ local[Home[e]][e] = LastEdit(row[e])
          /\ row[e] = Absent => \E i \in DOMAIN log : log[i].ent = e /\ log[i].op = "delete"
          /\ row[e] # Absent =>
               /\ \A i \in DOMAIN log : log[i].ent = e => log[i].op # "delete"
               /\ \E i \in DOMAIN log : NewestIn(log, e, i) /\ log[i].key = LastEdit(row[e])
      BY <1>1, <2>3, <3>2, HomeAgrees
    <3>4. CASE d = Home[e]
      BY <3>3, <3>4
    <3>5. CASE d # Home[e] /\ row[e] # Absent
      <4>1. PICK i \in DOMAIN log : NewestIn(log, e, i) /\ log[i].key = LastEdit(row[e])
        BY <3>3, <3>5
      <4>2. log[i].dev = Home[e]
        BY <2>1, <3>2, <3>3, <3>5, <4>1, SoleRow DEF NewestIn
      <4>3. i <= cursor[d][2]
        BY <1>1, <2>1, <3>5, <4>2, QuietSeen
      <4>4. i > cursor[d][2] \/ local[d][e] = log[i].key
        BY <1>1, <2>1, <3>2, <3>3, <3>5, <4>1 DEF CopyInv, Copied
      <4>5. log \in Seq(LogRow) /\ cursor[d] \in Nat \X Nat
        BY <2>1 DEF SyncTypes
      <4>6. i \in Nat /\ cursor[d][2] \in Nat
        BY <4>5
      <4> QED
        BY <4>1, <4>3, <4>4, <4>6
    <3>6. CASE d # Home[e] /\ row[e] = Absent
      <4>1. PICK i \in DOMAIN log : log[i].ent = e /\ log[i].op = "delete"
        BY <3>3, <3>6
      <4>2. PICK o \in OpsOf(Home[e]) : Held(Home[e], o)
        BY <2>1, <2>3, <3>2 DEF SoleInv, Told
      <4>3. Home[e] \in Devices
        BY SyncAssumption
      <4>4. \E j \in DOMAIN log : log[j].dev = Home[e]
        BY <1>1, <4>2, <4>3 DEF Held, Quiet
      <4>5. Home[e] \in Syncing
        BY <2>1, <4>4, LoggedIs DEF OwnInv
      <4> QED
        BY <1>1, <3>6, <4>1, <4>5, NewestIsAnswered DEF DeletesNeverRest
    <3> QED
      BY <3>4, <3>5, <3>6
  <2> QED
    BY <2>2, <2>3
<1>2. SyncInv /\ AgreeInv => QuietAgree
  BY <1>1 DEF QuietAgree
<1> QED
  BY <1>2, SyncInvariance, AgreeInvariance, PTL

=============================================================================
