---------------------------- MODULE HandlerContext ----------------------------
(***************************************************************************)
(* One invocation of a handler made by buildHandler (src/handler-context): *)
(* build the context, turn the event into messages, run the business logic *)
(* of all messages at once, hand the results to every store, and answer.   *)
(* Whatever can reject (a config fetch, an S3 fetch, the type guard, the   *)
(* business logic, a store) does so nondeterministically.                  *)
(***************************************************************************)
EXTENDS Integers, FiniteSets

CONSTANTS
  Records,       \* records of the event
  Objects,       \* S3 objects an S3 notification may refer to
  NoObject,      \* "no object": the message is the body of the record itself
  Destinations,  \* destinations of the handler's outputs
  MaxOut,        \* bound: outgoing messages one business logic call returns
  SliceSize      \* BATCH_SIZE of output-messages.ts (1000 there)

ASSUME ConstantsAssumption ==
  /\ Records # {}
  /\ NoObject \notin Objects
  /\ MaxOut \in Nat
  /\ SliceSize \in Nat \ {0}
  /\ IsFiniteSet(Records) /\ IsFiniteSet(Objects)

VARIABLES
  source,      \* what invoked the handler
  allowed,     \* options.withBatchItemFailures
  body,        \* what each record's body is
  refs,        \* objects each S3 notification refers to
  phase,       \* how far the handler has come
  fetching,    \* records whose objects are still to be fetched
  fetched,     \* records whose objects were asked for
  incoming,    \* incoming messages made so far
  failed,      \* failedIds of all steps together
  anonymous,   \* a message without an ID failed in this step
  running,     \* messages whose business logic has not settled
  processed,   \* messages whose business logic has resolved
  unsent,      \* outgoing messages no slice has taken yet
  calls,       \* store calls of the current slice that have not settled
  outgoing,    \* all outgoing messages
  stored       \* store calls that have resolved

eventVars  == <<source, allowed, body, refs>>
parseVars  == <<fetching, fetched, incoming>>
logicVars  == <<running, processed, outgoing>>
outputVars == <<unsent, calls, stored>>
vars == <<eventVars, phase, parseVars, failed, anonymous, logicVars, outputVars>>

\* "scheduled", "direct": an event without Records, with or without an id of its own.
Sources  == {"sqs", "s3", "scheduled", "direct"}
Whole    == {"scheduled", "direct"}
Bodies   == {"invalid json", "s3 event", "plain"}
Phases   == {"start", "fetch", "validate", "logic", "output", "returned", "threw"}
Finished == {"returned", "threw"}

Message   == [rec : Records, obj : Objects \cup {NoObject}]
Outgoing  == [msg : Message, n : 1..MaxOut]
StoreCall == Outgoing \X Destinations

Itself(r) == [rec |-> r, obj |-> NoObject]
MutRefersBare(r) == refs[r]
Refers(r) == {[rec |-> r, obj |-> o] : o \in refs[r]}

\* A message's ID is its record's messageId or the event's own id; S3 records have none.
HasId == source \in {"sqs", "scheduled"}

----------------------------------------------------------------------------
Init ==
  /\ source \in Sources
  /\ allowed \in BOOLEAN
  /\ body \in [Records -> Bodies]
  /\ refs \in [Records -> SUBSET Objects]
  \* An S3 event is its records, one object each; any other event is one record.
  /\ source = "s3" => \A r \in Records : body[r] = "s3 event" /\ Cardinality(refs[r]) = 1
  /\ source \in Whole => \A r \in Records : body[r] = "plain"
  /\ \A r \in Records : body[r] # "s3 event" => refs[r] = {}
  /\ phase = "start"
  /\ fetching = {} /\ fetched = {} /\ incoming = {}
  /\ failed = {} /\ anonymous = FALSE
  /\ running = {} /\ processed = {} /\ outgoing = {}
  /\ unsent = {} /\ calls = {} /\ stored = {}

Throw == phase' = "threw"

\* buildContext: a config file is missing, or an environment variable is not set.
BuildContextFails ==
  /\ phase = "start"
  /\ Throw
  /\ UNCHANGED <<eventVars, parseVars, failed, anonymous, logicVars, outputVars>>

Parsed == {r \in Records : body[r] # "invalid json"}

\* SQSMessageIncludesS3EventRecord
AllAreS3Events == \A r \in Parsed : body[r] = "s3 event"

\* makeSQSMessages: the bodies that are not JSON fail. Objects are fetched only
\* if every other body of the batch is an S3 event, otherwise bodies go on as they are.
ParseSqs ==
  /\ phase = "start"
  /\ source = "sqs"
  /\ failed' = Records \ Parsed
  /\ fetching' = IF AllAreS3Events THEN Parsed ELSE {}
  /\ incoming' = IF AllAreS3Events THEN {} ELSE {Itself(r) : r \in Parsed}
  /\ phase' = IF AllAreS3Events THEN "fetch" ELSE "validate"
  /\ UNCHANGED <<eventVars, fetched, anonymous, logicVars, outputVars>>

ParseS3 ==
  /\ phase = "start"
  /\ source = "s3"
  /\ fetching' = Records
  /\ phase' = "fetch"
  /\ UNCHANGED <<eventVars, fetched, incoming, failed, anonymous, logicVars, outputVars>>

\* An event of neither kind is itself the only message.
ParseDirect ==
  /\ phase = "start"
  /\ source \in Whole
  /\ \E r \in Records : incoming' = {Itself(r)}
  /\ phase' = "validate"
  /\ UNCHANGED <<eventVars, fetching, fetched, failed, anonymous, logicVars, outputVars>>

\* makeS3Messages for one record: it resolves only if every object was found.
FetchObjects(r) ==
  /\ phase = "fetch"
  /\ r \in fetching
  /\ fetching' = fetching \ {r}
  /\ fetched' = fetched \cup {r}
  /\ incoming' = incoming \cup Refers(r)
  /\ UNCHANGED <<eventVars, phase, failed, anonymous, logicVars, outputVars>>

\* Some object was not found: the record fails, or without an ID the handler throws.
FetchFails(r) ==
  /\ phase = "fetch"
  /\ r \in fetching
  /\ refs[r] # {}
  /\ fetching' = fetching \ {r}
  /\ fetched' = fetched \cup {r}
  /\ IF HasId THEN failed' = failed \cup {r} /\ UNCHANGED phase
              ELSE Throw /\ UNCHANGED failed
  /\ UNCHANGED <<eventVars, incoming, anonymous, logicVars, outputVars>>

FetchEnds ==
  /\ phase = "fetch"
  /\ fetching = {}
  /\ phase' = "validate"
  /\ UNCHANGED <<eventVars, parseVars, failed, anonymous, logicVars, outputVars>>

\* A raw S3 notification is never what a type guard of this repository accepts.
Conforming == {m \in incoming : m.obj = NoObject => body[m.rec] # "s3 event"}

\* validateIncomingMessages, then the failuresAllowed check of makeIncomingMessages.
Validate ==
  /\ phase = "validate"
  /\ \E good \in SUBSET Conforming :
       LET bad == incoming \ good IN
       IF bad # {} /\ ~HasId
       THEN Throw /\ UNCHANGED <<failed, incoming, running>>
       ELSE /\ failed' = failed \cup {m.rec : m \in bad}
            /\ IF ~allowed /\ failed' # {}
               THEN Throw /\ UNCHANGED <<incoming, running>>
               ELSE phase' = "logic" /\ incoming' = good /\ running' = good
  /\ UNCHANGED <<eventVars, fetching, fetched, anonymous, processed, outgoing, outputVars>>

\* The business logic of m resolves with any number of outgoing messages.
LogicResolves(m) ==
  /\ phase = "logic"
  /\ m \in running
  /\ running' = running \ {m}
  /\ processed' = processed \cup {m}
  /\ \E k \in 0..MaxOut : outgoing' = outgoing \cup {[msg |-> m, n |-> i] : i \in 1..k}
  /\ UNCHANGED <<eventVars, phase, parseVars, failed, anonymous, outputVars>>

MutFailForgets(r) == UNCHANGED <<failed, anonymous>>
Fail(r) ==
  /\ failed' = IF HasId THEN failed \cup {r} ELSE failed
  /\ anonymous' = (anonymous \/ ~HasId)

LogicFails(m) ==
  /\ phase = "logic"
  /\ m \in running
  /\ running' = running \ {m}
  /\ Fail(m.rec)
  /\ UNCHANGED <<eventVars, phase, parseVars, processed, outgoing, outputVars>>

\* A step throws if a message without an ID failed, or if no failure is allowed.
MutThrowOnAnyFailure == anonymous \/ failed # {}
MutThrowOnAnonymousOnly == anonymous
MustThrow == anonymous \/ (~allowed /\ failed # {})

\* All business logic has settled: throw, or start to send.
LogicEnds ==
  /\ phase = "logic"
  /\ running = {}
  /\ IF MustThrow THEN Throw /\ UNCHANGED unsent
                  ELSE phase' = "output" /\ unsent' = outgoing
  /\ UNCHANGED <<eventVars, parseVars, failed, anonymous, logicVars, calls, stored>>

\* outputMessages takes the next slice, once the previous one has settled.
MutTakeSliceStays ==
  /\ phase = "output" /\ calls = {} /\ unsent # {}
  /\ \E o \in unsent : calls' = {o} \X Destinations
  /\ UNCHANGED <<eventVars, phase, parseVars, failed, anonymous, logicVars, unsent, stored>>
TakeSlice ==
  /\ phase = "output"
  /\ calls = {}
  /\ unsent # {}
  /\ \E slice \in SUBSET unsent :
       /\ \/ Cardinality(slice) = SliceSize
          \/ slice = unsent /\ Cardinality(slice) < SliceSize
       /\ unsent' = unsent \ slice
       /\ calls' = slice \X Destinations
  /\ UNCHANGED <<eventVars, phase, parseVars, failed, anonymous, logicVars, stored>>

StoreResolves(c) ==
  /\ phase = "output"
  /\ c \in calls
  /\ calls' = calls \ {c}
  /\ stored' = stored \cup {c}
  /\ UNCHANGED <<eventVars, phase, parseVars, failed, anonymous, logicVars, unsent>>

StoreFails(c) ==
  /\ phase = "output"
  /\ c \in calls
  /\ calls' = calls \ {c}
  /\ Fail(c[1].msg.rec)
  /\ UNCHANGED <<eventVars, phase, parseVars, logicVars, unsent, stored>>

\* Everything has settled: throw, or answer with the failed IDs (or with nothing).
OutputEnds ==
  /\ phase = "output"
  /\ unsent = {} /\ calls = {}
  /\ phase' = IF MustThrow THEN "threw" ELSE "returned"
  /\ UNCHANGED <<eventVars, parseVars, failed, anonymous, logicVars, outputVars>>

MakeMessages ==
  \/ ParseSqs \/ ParseS3 \/ ParseDirect
  \/ \E r \in Records : FetchObjects(r) \/ FetchFails(r)
  \/ FetchEnds
  \/ Validate

RunLogic ==
  \/ \E m \in running : LogicResolves(m) \/ LogicFails(m)
  \/ LogicEnds

Output ==
  \/ TakeSlice
  \/ \E c \in calls : StoreResolves(c) \/ StoreFails(c)
  \/ OutputEnds

Next == BuildContextFails \/ MakeMessages \/ RunLogic \/ Output

\* Every promise the handler awaits settles, one way or the other.
Spec == Init /\ [][Next]_vars /\ WF_vars(Next)

----------------------------------------------------------------------------
TypeOK ==
  /\ source \in Sources /\ allowed \in BOOLEAN
  /\ body \in [Records -> Bodies] /\ refs \in [Records -> SUBSET Objects]
  /\ phase \in Phases
  /\ fetching \subseteq Records /\ fetched \subseteq Records
  /\ incoming \subseteq Message
  /\ failed \subseteq Records /\ anonymous \in BOOLEAN
  /\ running \subseteq Message /\ processed \subseteq Message
  /\ outgoing \subseteq Outgoing /\ unsent \subseteq Outgoing
  /\ calls \subseteq StoreCall /\ stored \subseteq StoreCall

\* The messages a record stands for.
Expected(r) == IF source \notin Whole /\ body[r] = "s3 event" THEN Refers(r) ELSE {Itself(r)}

\* All of a record's work is done: every message of it was processed and all
\* that came of it has reached every destination.
Done(r) ==
  /\ Expected(r) \subseteq processed
  /\ \A o \in outgoing, d \in Destinations : o.msg.rec = r => <<o, d>> \in stored

\* The records the invocation works on: an event without Records is one message.
Worked == IF source \in Whole THEN {m.rec : m \in incoming} ELSE Records

\* The IDs in the returned batchItemFailures, build-handler.ts:50-57.
Reported == IF allowed THEN failed ELSE {}

\* When the handler returns, each record of the event either has all its work
\* done or is among the reported failures: what the caller deletes from the
\* queue has been dealt with (build-handler.ts:24-57).
EveryRecordAnswered ==
  phase = "returned" => \A r \in Worked : r \in Reported \/ Done(r)

\* With withBatchItemFailures a handler whose messages have IDs never throws once
\* its context is built: failures are reported instead (README of handler-context).
SqsFailuresAreReported ==
  phase = "threw" /\ allowed /\ HasId => incoming = {} /\ fetched = {} /\ failed = {}

\* Without it, a business logic failure keeps every store from being called, for
\* the other messages too (README of handler-context: "preventing any remaining
\* steps from running").
FailurePreventsOutput ==
  ~allowed /\ phase \in {"logic", "output"} \cup Finished /\ ~(incoming \subseteq processed \cup running)
    => stored = {} /\ calls = {}

\* The invocation comes to an end: the slices of outputMessages run out and every
\* path leads to an answer or to a throw.
Finishes == <>(phase \in Finished)

\* Who is reported failed failed on its own account: an S3 notification only after
\* its objects were asked for. README of handler-context: failing records are
\* returned "allowing any remaining records to run".
OwnFailuresOnly ==
  phase = "returned" /\ source = "sqs" =>
    \A r \in Reported : body[r] = "s3 event" => r \in fetched
=============================================================================
