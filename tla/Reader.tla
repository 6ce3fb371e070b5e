------------------------------- MODULE Reader -------------------------------
(***************************************************************************)
(* The reader API (reader/router.py, reader/service.py, reader/importer.py)*)
(* on the database that ReaderSchema opens and ReaderSync writes: pairing  *)
(* of devices, questions to the AI, and the import of a reading session    *)
(* into the vault.  The routes are coroutines on one event loop, so what   *)
(* a handler does between two awaits meets only the thread that approves a *)
(* pairing code, a commit that fails and a crash of the process between    *)
(* two commits.  The database is opened by one request, before the others; *)
(* get_reader_service takes no lock, and two first requests that open it   *)
(* at the same time are not modelled.                                      *)
(***************************************************************************)
EXTENDS ReaderSchema, ReaderSync

CONSTANTS
  Paired,       \* devices that are registered to begin with
  Codes,        \* pairing codes that may be issued
  Asks,         \* questions under way
  Threads,      \* conversation ids that a client assigned itself
  MaxActivity,  \* bound: edits, questions and pairing codes together ...
  Weight        \* ... where a question or a code counts as so many edits

ASSUME ReaderAssumption ==
  /\ Paired \subseteq Devices
  /\ MaxActivity \in Nat /\ Weight \in Nat

VARIABLES
  code,       \* pairing_tokens
  approver,   \* the code that approve_pairing_token has checked and will mark
  registered, \* rows of devices
  bearers,    \* rows of reader_access_tokens
  ask,        \* each question: its step and locals
  thread,     \* reader_conversations with their reader_messages
  asked,      \* the weight of the questions and codes so far
  document,   \* the imported document of each session, or NoDocument
  torn        \* history: questions and devices whose commits were cut short

serviceVars == <<code, approver, registered, bearers, ask, thread, asked, document,
                 torn>>
readerVars == <<schemaVars, syncVars, serviceVars>>

None == "none"
NoThread == [owner |-> None, linked |-> FALSE, messages |-> <<>>]
IdleAsk == [pc |-> "idle", dev |-> None, scope |-> None, id |-> None, new |-> FALSE, hits |-> {}]
NoCode == [for |-> None, approved |-> FALSE, used |-> FALSE, expired |-> FALSE]
NoDocument == [threads |-> {}, written |-> FALSE]

ReaderInit ==
  /\ SchemaInit /\ SyncInit
  /\ code = [c \in Codes |-> NoCode] /\ approver = None
  /\ registered = Paired /\ bearers = Paired
  /\ ask = [a \in Asks |-> IdleAsk] /\ asked = 0
  /\ thread = [t \in Threads \union Asks |-> NoThread]
  /\ document = [e \in Entities |-> NoDocument]
  /\ torn = {}

\* get_reader_service has opened the database.
Serving == opening[1] = "open"
\* get_device_id_from_token: the bearer token names the device.
Authenticated(d) == d \in bearers
Active == asked + Weight + keys <= MaxActivity

-----------------------------------------------------------------------------
(* Pairing *)

CreateCode(c, d) ==
  /\ Active /\ code[c] = NoCode
  /\ code' = [code EXCEPT ![c].for = d] /\ asked' = asked + Weight
  /\ UNCHANGED <<approver, registered, bearers, ask, thread, document, torn>>

Expire(c) ==
  /\ code[c].for # None /\ ~code[c].expired
  /\ code' = [code EXCEPT ![c].expired = TRUE]
  /\ UNCHANGED <<approver, registered, bearers, ask, thread, asked, document, torn>>

\* approve_pairing_token runs on a thread of its own: it reads the row, and then
\* marks it if nobody has approved or used it since.
CheckCode(c) ==
  /\ approver = None
  /\ code[c].for # None /\ ~code[c].used /\ ~code[c].expired
  /\ approver' = c
  /\ UNCHANGED <<code, registered, bearers, ask, thread, asked, document, torn>>

MarkApproved ==
  /\ approver # None
  /\ code' = [code EXCEPT ![approver].approved = @ \/ ~code[approver].used]
  /\ approver' = None
  /\ UNCHANGED <<registered, bearers, ask, thread, asked, document, torn>>

\* verify_and_register_device: the device and the use of its code are one commit.
MayRegister(d, c) ==
  /\ code[c].for = d /\ code[c].approved /\ ~code[c].used /\ ~code[c].expired
  /\ d \notin registered

Registers(d, c) ==
  /\ MayRegister(d, c)
  /\ registered' = registered \union {d}
  /\ code' = [code EXCEPT ![c].used = TRUE]

\* store_access_token: a commit of its own, which may fail after the first.
StoreAccessToken(d) == bearers' = bearers \union {d}

RegisterDevice(d, c) ==
  /\ Registers(d, c)
  /\ StoreAccessToken(d)
  /\ UNCHANGED <<approver, ask, thread, asked, document, torn>>

FailRegister(d, c) ==
  /\ Registers(d, c)
  /\ torn' = torn \union {d}
  /\ UNCHANGED <<approver, bearers, ask, thread, asked, document>>

-----------------------------------------------------------------------------
(* Questions *)

\* get_conversation_messages: a name nobody has used is a new conversation; that
\* of another device is refused.
MayContinue(d, id) == thread[id].owner \in {None, d}

\* ask: the device, then the history of a conversation the client names.
StartAsk(a, d, id, scope) ==
  /\ Active /\ ask[a].pc = "idle" /\ Authenticated(d)
  /\ id \in Threads \union {a} /\ MayContinue(d, id)
  /\ id = a => thread[id] = NoThread
  /\ ask' = [ask EXCEPT ![a] = [pc |-> "gather", dev |-> d, scope |-> scope, id |-> id,
                                new |-> thread[id].owner = None, hits |-> {}]]
  /\ asked' = asked + Weight
  /\ UNCHANGED <<code, approver, registered, bearers, thread, document, torn>>

\* search_reader_entities: the rows there are, whichever hold the terms.
Searchable == {e \in Entities : row[e] # Absent}

\* search and _knowledge_matches: the exact query, then its terms, at most five
\* hits.  The web is asked for three.  Either may find nothing.
Matches(scope) ==
  CASE scope = "my_knowledge" -> SUBSET Searchable
    [] scope = "web" -> SUBSET {"page"}
    [] scope = "current_content" -> {{}}

GatherEvidence(a) ==
  /\ ask[a].pc = "gather"
  /\ \E hits \in Matches(ask[a].scope) :
       ask' = [ask EXCEPT ![a].hits = hits,
                          ![a].pc = IF ask[a].scope # "current_content" /\ hits = {} THEN "store" ELSE "chat"]
  /\ UNCHANGED <<code, approver, registered, bearers, thread, asked, document, torn>>

\* What the first n of the three commits leave: the conversation (attached to the
\* source if the server has it), the question, the answer.
Committed(a, n) ==
  LET q == ask[a]
      t == IF q.new THEN [owner |-> q.dev, linked |-> row[Source] # Absent, messages |-> <<>>]
           ELSE thread[q.id]
      said == SubSeq(<<<<"user", a>>, <<"assistant", a>>>>, 1, n - 1)
  IN  [thread EXCEPT ![q.id] = [t EXCEPT !.messages = @ \o said]]

\* Mutant: the question is stored before the model is asked.
FailAskMut(a) ==
  /\ ask[a].pc \in {"gather", "chat"}
  /\ ask' = [ask EXCEPT ![a] = IdleAsk]
  /\ thread' = IF ask[a].new => thread[ask[a].id].owner = None THEN Committed(a, 2) ELSE thread
  /\ UNCHANGED <<code, approver, registered, bearers, asked, document, torn>>

\* The model answers; or it fails, answers nothing, or cites no page it was given,
\* and the question ends with an error and no trace.
Chat(a) ==
  /\ ask[a].pc = "chat"
  /\ ask' = [ask EXCEPT ![a].pc = "store"]
  /\ UNCHANGED <<code, approver, registered, bearers, thread, asked, document, torn>>

FailAsk(a) ==
  /\ ask[a].pc \in {"gather", "chat"}
  /\ ask' = [ask EXCEPT ![a] = IdleAsk]
  /\ UNCHANGED <<code, approver, registered, bearers, thread, asked, document, torn>>

Stores(a) == ask[a].pc = "store" /\ (ask[a].new => thread[ask[a].id].owner = None)

StoreAnswer(a) ==
  /\ Stores(a)
  /\ thread' = Committed(a, 3)
  /\ ask' = [ask EXCEPT ![a] = [IdleAsk EXCEPT !.pc = "answered"]]
  /\ UNCHANGED <<code, approver, registered, bearers, asked, document, torn>>

\* Another question created the conversation meanwhile: the INSERT fails and the
\* answer is lost.
StoreRefused(a) ==
  /\ ask[a].pc = "store" /\ ~Stores(a)
  /\ ask' = [ask EXCEPT ![a] = IdleAsk]
  /\ UNCHANGED <<code, approver, registered, bearers, thread, asked, document, torn>>

\* The second or the third commit fails: what the first n left stays.
FailStore(a, n) ==
  /\ Stores(a) /\ (n = 1 => ask[a].new)
  /\ thread' = Committed(a, n) /\ torn' = torn \union {a}
  /\ ask' = [ask EXCEPT ![a] = IdleAsk]
  /\ UNCHANGED <<code, approver, registered, bearers, asked, document>>

-----------------------------------------------------------------------------
(* Import *)

\* get_session_with_data: beside the session its highlights, its notes and the
\* conversations of its source on its device.
SessionThreads(e) == {t \in DOMAIN thread : thread[t].linked /\ thread[t].owner = Home[e]}

\* _generate_markdown: what of them the document shows.
Document(e) == [written |-> TRUE, threads |-> SessionThreads(e)]

\* import_session: create_bytes refuses a path that is taken.  The path is made of
\* the month a session started in and the title of its source: the sessions of the one source, all of one month, share it.
SamePath(e, f) == e # Source /\ f # Source

ImportSession(e) ==
  /\ e # Source /\ row[e] # Absent /\ Authenticated(Home[e])
  /\ ~\E f \in Entities : SamePath(e, f) /\ document[f].written
  /\ document' = [document EXCEPT ![e] = Document(e)]
  /\ UNCHANGED <<code, approver, registered, bearers, ask, thread, asked, torn>>

-----------------------------------------------------------------------------
(* A crash: every call under way ends; a push is rolled back *)

Crash ==
  /\ faults < MaxFaults /\ faults' = faults + 1
  /\ push' = NoOne
  /\ sync' = [s \in Syncs |-> IF sync[s].pc \in {"push", "pull"} THEN IdleSync ELSE sync[s]]
  /\ ask' = [a \in Asks |-> IF ask[a].pc = "answered" THEN ask[a] ELSE IdleAsk]
  /\ approver' = None
  /\ UNCHANGED <<row, log, clock, deviceVars, late, keys, syncHistory, asked, document, schemaVars>>

CrashInRegister(d, c) ==
  /\ Registers(d, c) /\ torn' = torn \union {d} /\ Crash
  /\ UNCHANGED <<bearers, thread>>

CrashInStore(a, n) ==
  /\ Stores(a) /\ (n = 1 => ask[a].new)
  /\ thread' = Committed(a, n) /\ torn' = torn \union {a} /\ Crash
  /\ UNCHANGED <<code, registered, bearers>>

Serve ==
  \/ \E c \in Codes, d \in Devices : CreateCode(c, d) \/ RegisterDevice(d, c) \/ FailRegister(d, c)
  \/ \E c \in Codes : Expire(c) \/ CheckCode(c)
  \/ MarkApproved
  \/ \E a \in Asks, d \in Devices, id \in Threads \union Asks,
        scope \in {"current_content", "my_knowledge", "web"} : StartAsk(a, d, id, scope)
  \/ \E a \in Asks : \/ GatherEvidence(a) \/ Chat(a) \/ FailAsk(a)
                     \/ StoreAnswer(a) \/ StoreRefused(a) \/ \E n \in {1, 2} : FailStore(a, n)
  \/ \E e \in Entities : ImportSession(e)

\* One request opens the database before the others are served.  A later opening
\* finds it converged and leaves it alone.
ReaderNext ==
  \/ ~Serving /\ SchemaNext /\ UNCHANGED <<syncVars, serviceVars>>
  \/ /\ Serving /\ UNCHANGED schemaVars
     /\ \/ SyncNext /\ asked + keys' <= MaxActivity /\ UNCHANGED serviceVars
        \/ Serve /\ UNCHANGED syncVars
  \/ /\ Serving
     /\ \/ \E d \in Devices, c \in Codes : CrashInRegister(d, c)
        \/ \E a \in Asks, n \in {1, 2} : CrashInStore(a, n)

ReaderSpec == ReaderInit /\ [][ReaderNext]_readerVars

(***************************************************************************)
(* Properties                                                              *)
(***************************************************************************)
ReaderTypeOK ==
  /\ SchemaTypeOK /\ SyncTypeOK
  /\ approver \in Codes \union {None} /\ bearers \subseteq registered
  /\ \A a \in Asks : ask[a].pc \in {"idle", "gather", "chat", "store", "answered"}
  /\ \A t \in DOMAIN thread : thread[t].owner \in Devices \union {None}

\* The history that later questions are answered from consists of questions each
\* followed by its own answer, however questions to one conversation overlap,
\* fail or lose the race to create it; only a crash or a failure between its
\* commits leaves a question alone.
AnswersFollow ==
  \A t \in DOMAIN thread : \A i \in DOMAIN thread[t].messages :
    LET m == thread[t].messages[i] IN
    m[1] = "user" /\ m[2] \notin torn =>
      i < Len(thread[t].messages) /\ thread[t].messages[i + 1] = <<"assistant", m[2]>>
=============================================================================
