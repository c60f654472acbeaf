-------------------------- MODULE HandlerContextProofs --------------------------
(***************************************************************************)
(* Proofs about HandlerContext for any event, handler and slice size.      *)
(***************************************************************************)
EXTENDS HandlerContext, TLAPS

\* While messages are made, a record is to be fetched, has failed, has all its messages,
\* or is an S3 event in a mixed batch, whose message the type guard will refuse.
MakingAccounts ==
  /\ source = "s3" => \A r \in Records : body[r] = "s3 event"
  /\ \A r \in fetching : source \notin Whole /\ body[r] = "s3 event"
  /\ phase = "fetch" =>
       source \notin Whole /\ \A r \in Records : r \in fetching \cup failed \/ Expected(r) \subseteq incoming
  /\ phase = "validate" =>
       \A r \in Worked : \/ r \in failed \/ Expected(r) \subseteq incoming
                         \/ Itself(r) \in incoming \ Conforming

\* Then every message of a record that has not failed is to be processed or was.
LogicAccounts ==
  /\ phase \in {"logic", "output", "returned"} =>
       \A r \in Worked : r \in failed \/ Expected(r) \subseteq incoming
  /\ phase = "logic" =>
       \A m \in incoming : m \in running \cup processed \/ m.rec \in failed \/ anonymous
  /\ phase \in {"output", "returned"} =>
       \A m \in incoming : m \in processed \/ m.rec \in failed

\* And what it resolved with is to be sent, is being stored, or was.
OutputAccounts ==
  /\ phase \in {"output", "returned"} =>
       \A o \in outgoing, d \in Destinations :
         \/ o \in unsent \/ <<o, d>> \in calls \cup stored
         \/ o.msg.rec \in failed \/ anonymous
  /\ phase = "returned" => unsent = {} /\ calls = {} /\ ~MustThrow

IInv == TypeOK /\ MakingAccounts /\ LogicAccounts /\ OutputAccounts

USE ConstantsAssumption DEF Sources, Whole, Bodies, Phases, Finished

LEMMA MessageTyped ==
  ASSUME TypeOK, NEW r \in Records PROVE Itself(r) \in Message /\ Refers(r) \subseteq Message
<1>1. refs[r] \subseteq Objects
  BY DEF TypeOK
<1>2. \A o \in Objects \cup {NoObject} : [rec |-> r, obj |-> o] \in Message
  BY DEF Message
<1> QED
  BY <1>1, <1>2 DEF Itself, Refers

LEMMA TypeInit == Init => TypeOK
  BY DEF Init, TypeOK

LEMMA MakingTyped ==
  ASSUME TypeOK, MakeMessages PROVE TypeOK'
<1> USE DEF eventVars, parseVars, logicVars, outputVars
<1>1. CASE ParseSqs
  BY <1>1, MessageTyped DEF ParseSqs, Parsed, TypeOK
<1>2. CASE ParseS3
  BY <1>2 DEF ParseS3, TypeOK
<1>3. CASE ParseDirect
  BY <1>3, MessageTyped DEF ParseDirect, TypeOK
<1>4. ASSUME NEW r \in Records, FetchObjects(r) PROVE TypeOK'
  BY <1>4, MessageTyped DEF FetchObjects, TypeOK
<1>5. ASSUME NEW r \in Records, FetchFails(r) PROVE TypeOK'
  BY <1>5 DEF FetchFails, Throw, TypeOK
<1>6. CASE FetchEnds
  BY <1>6 DEF FetchEnds, TypeOK
<1>7. CASE Validate
  <2>1. \A m \in incoming : m.rec \in Records
    BY DEF TypeOK, Message
  <2>2. failed' \subseteq Records
    <3>1. PICK good \in SUBSET Conforming :
            failed' = failed \/ failed' = failed \cup {m.rec : m \in incoming \ good}
      BY <1>7 DEF Validate
    <3>2. {m.rec : m \in incoming \ good} \subseteq Records
      BY <2>1
    <3>3. failed \subseteq Records
      BY DEF TypeOK
    <3> QED
      BY <3>1, <3>2, <3>3
  <2>3. incoming' \subseteq Message /\ running' \subseteq Message /\ phase' \in Phases
    BY <1>7 DEF Validate, Conforming, Throw, TypeOK
  <2> QED
    BY <1>7, <2>2, <2>3 DEF Validate, TypeOK
<1> QED
  BY <1>1, <1>2, <1>3, <1>4, <1>5, <1>6, <1>7 DEF MakeMessages

LEMMA TypeStep == TypeOK /\ [Next]_vars => TypeOK'
<1> SUFFICES ASSUME TypeOK, [Next]_vars PROVE TypeOK'
  OBVIOUS
<1> USE DEF eventVars, parseVars, logicVars, outputVars
<1>1. CASE BuildContextFails
  BY <1>1 DEF BuildContextFails, Throw, TypeOK
<1>2. CASE MakeMessages
  BY <1>2, MakingTyped
<1>3. ASSUME NEW m \in running, LogicResolves(m) PROVE TypeOK'
  <2>1. m \in Message
    BY DEF TypeOK
  <2>2. PICK k \in 0..MaxOut : outgoing' = outgoing \cup {[msg |-> m, n |-> i] : i \in 1..k}
    BY <1>3 DEF LogicResolves
  <2>3. {[msg |-> m, n |-> i] : i \in 1..k} \subseteq Outgoing
    BY <2>1 DEF Outgoing
  <2>4. outgoing' \subseteq Outgoing
    BY <2>2, <2>3 DEF TypeOK
  <2> QED
    BY <1>3, <2>1, <2>4 DEF LogicResolves, TypeOK
<1>4. ASSUME NEW m \in running, LogicFails(m) PROVE TypeOK'
  <2>1. m.rec \in Records
    BY DEF TypeOK, Message
  <2> QED
    BY <1>4, <2>1 DEF LogicFails, Fail, HasId, TypeOK
<1>5. CASE LogicEnds
  BY <1>5 DEF LogicEnds, Throw, TypeOK
<1>6. CASE TakeSlice
  BY <1>6 DEF TakeSlice, StoreCall, TypeOK
<1>7. ASSUME NEW c \in calls, StoreResolves(c) PROVE TypeOK'
  BY <1>7 DEF StoreResolves, TypeOK
<1>8. ASSUME NEW c \in calls, StoreFails(c) PROVE TypeOK'
  <2>1. c[1].msg.rec \in Records
    BY DEF TypeOK, StoreCall, Outgoing, Message
  <2> QED
    BY <1>8, <2>1 DEF StoreFails, Fail, HasId, TypeOK
<1>9. CASE OutputEnds
  BY <1>9 DEF OutputEnds, TypeOK
<1>10. CASE UNCHANGED vars
  BY <1>10 DEF vars, TypeOK
<1> QED
  BY <1>1, <1>2, <1>3, <1>4, <1>5, <1>6, <1>7, <1>8, <1>9, <1>10 DEF Next, RunLogic, Output


LEMMA Expectation ==
  ASSUME NEW r \in Records, NEW m \in Expected(r) PROVE m.rec = r
<1>1. \A o \in refs[r] : [rec |-> r, obj |-> o].rec = r
  OBVIOUS
<1>2. [rec |-> r, obj |-> NoObject].rec = r
  OBVIOUS
<1> QED
  BY <1>1, <1>2 DEF Expected, Refers, Itself

LEMMA MakingAccountsStep ==
  ASSUME TypeOK, MakingAccounts, MakeMessages PROVE MakingAccounts'
<1> USE DEF MakingAccounts, Expected, Refers, Itself, eventVars
<1>1. CASE ParseSqs
  <2>1. CASE AllAreS3Events
    BY <1>1, <2>1 DEF ParseSqs, AllAreS3Events, Parsed
  <2>2. CASE ~AllAreS3Events
    <3>1. /\ fetching' = {} /\ phase' = "validate" /\ failed' = Records \ Parsed
          /\ incoming' = {Itself(r) : r \in Parsed} /\ UNCHANGED eventVars /\ source = "sqs"
      BY <1>1, <2>2 DEF ParseSqs
    <3>2. \A r \in Parsed : Itself(r) \in incoming' /\ Itself(r).obj = NoObject /\ Itself(r).rec = r
      BY <3>1
    <3> QED
      BY <3>1, <3>2 DEF Parsed, Worked, Conforming
  <2> QED
    BY <2>1, <2>2
<1>2. CASE ParseS3
  BY <1>2 DEF ParseS3
<1>3. CASE ParseDirect
  <2>1. PICK r \in Records : incoming' = {Itself(r)}
    BY <1>3 DEF ParseDirect
  <2>2. source' = source /\ body' = body /\ fetching' = fetching /\ phase' = "validate"
        /\ source \in Whole
    BY <1>3 DEF ParseDirect
  <2>3. Worked' = {r}
    <3>1. Itself(r).rec = r
      OBVIOUS
    <3>2. Worked' = {m.rec : m \in incoming'}
      BY <2>2 DEF Worked
    <3> HIDE DEF Itself
    <3> QED
      BY <2>1, <3>1, <3>2
  <2>4. Expected(r)' = {Itself(r)}
    BY <2>2
  <2> QED
    BY <2>1, <2>2, <2>3, <2>4
<1>4. ASSUME NEW r \in Records, FetchObjects(r) PROVE MakingAccounts'
  BY <1>4 DEF FetchObjects
<1>5. ASSUME NEW r \in Records, FetchFails(r) PROVE MakingAccounts'
  BY <1>5 DEF FetchFails, Throw
<1>6. CASE FetchEnds
  BY <1>6 DEF FetchEnds, Worked, parseVars
<1>7. CASE Validate
  BY <1>7 DEF Validate, Throw
<1> QED
  BY <1>1, <1>2, <1>3, <1>4, <1>5, <1>6, <1>7 DEF MakeMessages

\* The type guard gives every record it takes a message from an ID among failedIds.
LEMMA ValidateAccounts ==
  ASSUME TypeOK, MakingAccounts, Validate PROVE LogicAccounts'
<1>1. CASE phase' = "threw"
  BY <1>1 DEF LogicAccounts
<1>2. CASE phase' # "threw"
  <2>1. PICK good \in SUBSET Conforming :
          /\ failed' = failed \cup {m.rec : m \in incoming \ good}
          /\ phase' = "logic" /\ incoming' = good /\ running' = good
    BY <1>2 DEF Validate, Throw
  <2>2. phase = "validate" /\ UNCHANGED <<source, body, refs>>
    BY DEF Validate, eventVars
  <2>3. good \subseteq incoming
    BY DEF Conforming
  <2>4. Worked' \subseteq Worked /\ \A r \in Records : Expected(r)' = Expected(r)
    BY <2>1, <2>2, <2>3 DEF Worked, Expected, Refers, Itself
  <2>5. Worked \subseteq Records
    BY DEF Worked, TypeOK, Message
  <2>6. ASSUME NEW r \in Worked PROVE r \in failed' \/ Expected(r) \subseteq good
    <3>1. CASE Expected(r) \subseteq incoming
      BY <2>1, <2>5, <3>1, Expectation
    <3>2. CASE Itself(r) \in incoming \ Conforming
      <4>1. Itself(r).rec = r
        BY DEF Itself
      <4> QED
        BY <2>1, <3>2, <4>1
    <3> QED
      BY <2>1, <2>2, <3>1, <3>2 DEF MakingAccounts
  <2> QED
    BY <2>1, <2>4, <2>5, <2>6 DEF LogicAccounts
<1> QED
  BY <1>1, <1>2

LEMMA MakeMessagesStep ==
  ASSUME IInv, MakeMessages PROVE IInv'
<1>1. TypeOK' /\ MakingAccounts'
  BY MakingTyped, MakingAccountsStep DEF IInv
<1>2. LogicAccounts'
  <2>1. CASE Validate
    BY <2>1, ValidateAccounts DEF IInv
  <2>2. CASE ~Validate
    BY <2>2 DEF MakeMessages, ParseSqs, ParseS3, ParseDirect, FetchObjects, FetchFails, FetchEnds,
                Throw, LogicAccounts
  <2> QED
    BY <2>1, <2>2
<1>3. OutputAccounts'
  BY DEF MakeMessages, ParseSqs, ParseS3, ParseDirect, FetchObjects, FetchFails, FetchEnds,
         Validate, Throw, OutputAccounts
<1> QED
  BY <1>1, <1>2, <1>3 DEF IInv

LEMMA LaterMaking ==
  ASSUME MakingAccounts, RunLogic \/ Output PROVE MakingAccounts'
<1>1. /\ phase' \notin {"fetch", "validate"}
      /\ fetching' = fetching /\ source' = source /\ body' = body
  BY DEF RunLogic, LogicResolves, LogicFails, LogicEnds, Output, TakeSlice, StoreResolves,
         StoreFails, OutputEnds, Throw, eventVars, parseVars
<1> QED
  BY <1>1 DEF MakingAccounts

\* Neither business logic nor a store makes a message or forgets a failure.
LEMMA LaterKeeps ==
  ASSUME TypeOK, RunLogic \/ Output
  PROVE  /\ UNCHANGED <<source, body, refs, incoming>> /\ failed \subseteq failed'
         /\ Worked' = Worked /\ \A r \in Records : Expected(r)' = Expected(r)
         /\ anonymous => anonymous'
         /\ HasId' = HasId
<1>1. UNCHANGED <<source, body, refs, incoming>>
  BY DEF RunLogic, LogicResolves, LogicFails, LogicEnds, Output, TakeSlice, StoreResolves,
         StoreFails, OutputEnds, eventVars, parseVars
<1>2. failed \subseteq failed' /\ (anonymous => anonymous')
  <2>1. anonymous \in BOOLEAN
    BY DEF TypeOK
  <2>2. ASSUME NEW r, Fail(r) PROVE failed \subseteq failed' /\ (anonymous => anonymous')
    BY <2>1, <2>2 DEF Fail
  <2>3. UNCHANGED <<failed, anonymous>> \/ \E r : Fail(r)
    BY DEF RunLogic, LogicResolves, LogicFails, LogicEnds, Output, TakeSlice, StoreResolves,
           StoreFails, OutputEnds
  <2> QED
    BY <2>2, <2>3
<1> QED
  BY <1>1, <1>2 DEF Worked, Expected, Refers, Itself, HasId

LEMMA RunLogicStep ==
  ASSUME IInv, RunLogic PROVE IInv'
<1> USE DEF eventVars, parseVars, logicVars, outputVars
<1>1. TypeOK'
  BY TypeStep DEF IInv, Next
<1>2. MakingAccounts'
  BY LaterMaking DEF IInv
<1>3. LogicAccounts'
  <2>1. phase = "logic"
    BY DEF RunLogic, LogicResolves, LogicFails, LogicEnds
  <2>2. \A r \in Worked : r \in failed' \/ Expected(r) \subseteq incoming
    BY <2>1, LaterKeeps DEF IInv, LogicAccounts
  <2>3. Worked \subseteq Records
    BY DEF IInv, Worked, TypeOK, Message
  <2>4. phase' = "logic" => \A m \in incoming : m \in running' \cup processed' \/ m.rec \in failed' \/ anonymous'
    <3>1. ASSUME NEW m \in running, LogicResolves(m) PROVE <2>4!2
      BY <2>1, <3>1 DEF LogicResolves, IInv, LogicAccounts
    <3>2. ASSUME NEW m \in running, LogicFails(m) PROVE <2>4!2
      BY <2>1, <3>2 DEF LogicFails, Fail, IInv, LogicAccounts
    <3>3. CASE LogicEnds
      BY <3>3 DEF LogicEnds, Throw
    <3> QED
      BY <3>1, <3>2, <3>3 DEF RunLogic
  <2>5. phase' \in {"output", "returned"} => \A m \in incoming : m \in processed' \/ m.rec \in failed'
    <3>1. CASE LogicEnds
      BY <2>1, <3>1 DEF LogicEnds, MustThrow, Throw, IInv, LogicAccounts
    <3>2. CASE ~LogicEnds
      BY <2>1, <3>2 DEF RunLogic, LogicResolves, LogicFails
    <3> QED
      BY <3>1, <3>2
  <2> QED
    BY <2>2, <2>3, <2>4, <2>5, LaterKeeps DEF LogicAccounts, IInv
<1>4. OutputAccounts'
  <2>1. CASE LogicEnds
    BY <2>1 DEF LogicEnds, Throw, OutputAccounts
  <2>2. CASE ~LogicEnds
    BY <2>2 DEF RunLogic, LogicResolves, LogicFails, OutputAccounts
  <2> QED
    BY <2>1, <2>2
<1> QED
  BY <1>1, <1>2, <1>3, <1>4 DEF IInv

LEMMA OutputStep ==
  ASSUME IInv, Output PROVE IInv'
<1> USE DEF eventVars, parseVars, logicVars, outputVars
<1>1. TypeOK'
  BY TypeStep DEF IInv, Next
<1>2. MakingAccounts'
  BY LaterMaking DEF IInv
<1>3. phase = "output" /\ phase' \in {"output", "returned", "threw"} /\ UNCHANGED <<processed, outgoing>>
  BY DEF Output, TakeSlice, StoreResolves, StoreFails, OutputEnds
<1>4. LogicAccounts'
  <2>1. Worked \subseteq Records
    BY DEF IInv, Worked, TypeOK, Message
  <2> QED
    BY <1>3, <2>1, LaterKeeps DEF IInv, LogicAccounts
<1>5. OutputAccounts'
  <2> DEFINE Accounted(o, d) == \/ o \in unsent \/ <<o, d>> \in calls \cup stored
                                \/ o.msg.rec \in failed \/ anonymous
  <2>1. \A o \in outgoing, d \in Destinations : Accounted(o, d)
    BY <1>3 DEF IInv, OutputAccounts
  <2>2. phase' = "returned" => unsent' = {} /\ calls' = {} /\ ~MustThrow'
    <3>1. CASE OutputEnds
      BY <3>1 DEF OutputEnds, MustThrow
    <3>2. CASE ~OutputEnds
      BY <3>2 DEF Output, TakeSlice, StoreResolves, StoreFails
    <3> QED
      BY <3>1, <3>2
  <2>3. ASSUME NEW o \in outgoing, NEW d \in Destinations PROVE Accounted(o, d)'
    <3>1. CASE TakeSlice
      BY <2>1, <3>1 DEF TakeSlice
    <3>2. ASSUME NEW c \in calls, StoreResolves(c) PROVE Accounted(o, d)'
      BY <2>1, <3>2 DEF StoreResolves
    <3>3. ASSUME NEW c \in calls, StoreFails(c) PROVE Accounted(o, d)'
      <4>1. CASE c = <<o, d>>
        BY <3>3, <4>1 DEF StoreFails, Fail
      <4>2. CASE c # <<o, d>>
        BY <2>1, <3>3, <4>2 DEF StoreFails, Fail
      <4> QED
        BY <4>1, <4>2
    <3>4. CASE OutputEnds
      BY <2>1, <3>4 DEF OutputEnds
    <3> QED
      BY <3>1, <3>2, <3>3, <3>4 DEF Output
  <2> QED
    BY <1>3, <2>2, <2>3 DEF OutputAccounts
<1> QED
  BY <1>1, <1>2, <1>4, <1>5 DEF IInv

LEMMA Inductive == IInv /\ [Next]_vars => IInv'
<1> SUFFICES ASSUME IInv, [Next]_vars PROVE IInv'
  OBVIOUS
<1>1. CASE BuildContextFails
  <2>1. TypeOK'
    BY <1>1, TypeStep DEF IInv, Next
  <2> QED
    BY <1>1, <2>1 DEF BuildContextFails, Throw, eventVars, parseVars, IInv, MakingAccounts,
                      LogicAccounts, OutputAccounts
<1>2. CASE UNCHANGED vars
  <2> USE DEF vars, eventVars, parseVars, logicVars, outputVars
  <2>1. TypeOK'
    BY <1>2, TypeStep DEF IInv
  <2>2. /\ Worked' = Worked /\ Conforming' = Conforming /\ (MustThrow' <=> MustThrow)
        /\ \A r \in Records : Expected(r)' = Expected(r)
    BY <1>2 DEF Worked, Expected, Refers, Itself, Conforming, MustThrow
  <2>3. Worked \subseteq Records
    BY DEF IInv, Worked, TypeOK, Message
  <2>4. MakingAccounts'
    BY <1>2, <2>2, <2>3 DEF IInv, MakingAccounts, Itself
  <2>5. LogicAccounts'
    BY <1>2, <2>2, <2>3 DEF IInv, LogicAccounts
  <2>6. OutputAccounts'
    BY <1>2, <2>2 DEF IInv, OutputAccounts
  <2> QED
    BY <2>1, <2>4, <2>5, <2>6 DEF IInv
<1> QED
  BY <1>1, <1>2, MakeMessagesStep, RunLogicStep, OutputStep DEF Next

LEMMA Establishes == Init => IInv
  BY TypeInit DEF Init, IInv, MakingAccounts, LogicAccounts, OutputAccounts

LEMMA Answers == IInv => EveryRecordAnswered
<1> SUFFICES ASSUME IInv, phase = "returned", NEW r \in Worked
             PROVE  r \in Reported \/ Done(r)
  BY DEF EveryRecordAnswered
<1>1. unsent = {} /\ calls = {} /\ ~anonymous /\ Reported = failed
  BY DEF IInv, OutputAccounts, MustThrow, Reported
<1>2. r \in Records
  BY DEF IInv, Worked, TypeOK, Message
<1>3. CASE r \notin failed
  <2>1. Expected(r) \subseteq incoming
    BY <1>3 DEF IInv, LogicAccounts
  <2>2. Expected(r) \subseteq processed
    BY <1>2, <1>3, <2>1, Expectation DEF IInv, LogicAccounts
  <2> QED
    BY <1>1, <1>3, <2>2 DEF IInv, OutputAccounts, Done
<1> QED
  BY <1>1, <1>3

\* Every variable keeps its type (TypeOK), whatever handler and event are run.
THEOREM Typed == Spec => []TypeOK
<1>1. TypeOK /\ [Next]_vars => TypeOK'
  BY TypeStep
<1> QED
  BY TypeInit, <1>1, PTL DEF Spec

\* When a handler returns, each record has all its work done or is reported: nothing
\* the caller drops was left undone, for any number of records, objects, destinations.
THEOREM AnswersEveryRecord == Spec => []EveryRecordAnswered
  BY Establishes, Inductive, Answers, PTL DEF Spec

\* A handler whose messages have IDs never knows of an anonymous failure.
FailuresAnswered ==
  /\ phase = "start" => incoming = {} /\ fetched = {} /\ failed = {}
  /\ HasId => ~anonymous
  /\ SqsFailuresAreReported

LEMMA FailKnown == ASSUME NEW r, Fail(r), HasId, ~anonymous PROVE ~anonymous'
  BY Zenon DEF Fail

LEMMA FailuresAnsweredStep == FailuresAnswered /\ [Next]_vars => FailuresAnswered'
<1> SUFFICES ASSUME FailuresAnswered, [Next]_vars PROVE FailuresAnswered'
  OBVIOUS
<1> USE DEF FailuresAnswered, SqsFailuresAreReported, HasId
<1>1. CASE BuildContextFails
  BY <1>1 DEF BuildContextFails, Throw, eventVars, parseVars
<1>2. CASE MakeMessages
  <2>1. CASE ParseSqs \/ ParseS3 \/ ParseDirect \/ FetchEnds
    BY <2>1 DEF ParseSqs, ParseS3, ParseDirect, FetchEnds, eventVars, parseVars
  <2>2. ASSUME NEW r \in Records, FetchObjects(r) \/ FetchFails(r) PROVE FailuresAnswered'
    BY <2>2 DEF FetchObjects, FetchFails, Throw, eventVars
  <2>3. CASE Validate
    BY <2>3 DEF Validate, Throw, eventVars
  <2> QED
    BY <1>2, <2>1, <2>2, <2>3 DEF MakeMessages
<1>3. CASE RunLogic
  <2>1. ASSUME NEW m \in running, LogicResolves(m) \/ LogicFails(m) PROVE FailuresAnswered'
    <3>1. HasId => ~anonymous'
      BY <2>1, FailKnown DEF LogicResolves, LogicFails
    <3> QED
      BY <2>1, <3>1 DEF LogicResolves, LogicFails, eventVars, parseVars
  <2>2. CASE LogicEnds
    BY <2>2 DEF LogicEnds, MustThrow, Throw, eventVars, parseVars
  <2> QED
    BY <1>3, <2>1, <2>2 DEF RunLogic
<1>4. CASE Output
  <2>1. CASE TakeSlice \/ OutputEnds
    BY <2>1 DEF TakeSlice, OutputEnds, MustThrow, eventVars, parseVars
  <2>2. ASSUME NEW c \in calls, StoreResolves(c) \/ StoreFails(c) PROVE FailuresAnswered'
    <3>1. HasId => ~anonymous'
      BY <2>2, FailKnown DEF StoreResolves, StoreFails
    <3> QED
      BY <2>2, <3>1 DEF StoreResolves, StoreFails, eventVars, parseVars
  <2> QED
    BY <1>4, <2>1, <2>2 DEF Output
<1>5. CASE UNCHANGED vars
  BY <1>5 DEF vars, eventVars, parseVars
<1> QED
  BY <1>1, <1>2, <1>3, <1>4, <1>5 DEF Next

\* No store is called before the output, and the output is not begun after a failure
\* of a handler that allows none.
OutputIsWhole ==
  /\ phase \in {"start", "fetch", "validate", "logic"} => stored = {} /\ calls = {}
  /\ ~allowed /\ phase = "output" => incoming \subseteq processed
  /\ FailurePreventsOutput

LEMMA OutputIsWholeStep == IInv /\ OutputIsWhole /\ [Next]_vars => OutputIsWhole'
<1> SUFFICES ASSUME IInv, OutputIsWhole, [Next]_vars PROVE OutputIsWhole'
  OBVIOUS
<1> USE DEF OutputIsWhole, FailurePreventsOutput
<1>1. CASE BuildContextFails
  BY <1>1 DEF BuildContextFails, Throw, eventVars, parseVars, outputVars
<1>2. CASE MakeMessages
  <2>1. /\ phase \in {"start", "fetch", "validate"} /\ phase' # "output"
        /\ UNCHANGED outputVars
    BY <1>2 DEF MakeMessages, ParseSqs, ParseS3, ParseDirect, FetchObjects, FetchFails,
                FetchEnds, Validate, Throw
  <2> QED
    BY <2>1 DEF outputVars
<1>3. CASE RunLogic
  <2>1. ASSUME NEW m \in running, LogicResolves(m) \/ LogicFails(m) PROVE OutputIsWhole'
    BY <2>1 DEF LogicResolves, LogicFails, eventVars, outputVars
  <2>2. CASE LogicEnds
    <3>1. phase = "logic" /\ UNCHANGED <<allowed, incoming, processed, running, stored, calls>>
      BY <2>2 DEF LogicEnds, eventVars, parseVars, logicVars
    <3>2. CASE MustThrow
      BY <2>2, <3>1, <3>2 DEF LogicEnds, Throw
    <3>3. CASE ~MustThrow
      <4>1. ~allowed => incoming \subseteq processed
        BY <2>2, <3>3 DEF LogicEnds, MustThrow, IInv, LogicAccounts
      <4> QED
        BY <2>2, <3>1, <3>3, <4>1 DEF LogicEnds
    <3> QED
      BY <3>2, <3>3
  <2> QED
    BY <1>3, <2>1, <2>2 DEF RunLogic
<1>4. CASE Output
  <2>1. /\ phase = "output" /\ phase' \in {"output", "returned", "threw"}
        /\ UNCHANGED <<allowed, incoming, processed>>
    BY <1>4 DEF Output, TakeSlice, StoreResolves, StoreFails, OutputEnds, eventVars, parseVars, logicVars
  <2> QED
    BY <2>1
<1>5. CASE UNCHANGED vars
  BY <1>5 DEF vars, eventVars, parseVars, logicVars, outputVars
<1> QED
  BY <1>1, <1>2, <1>3, <1>4, <1>5 DEF Next

\* With batch item failures, a handler whose messages have IDs throws only if its
\* context could not be built: every later failure is reported.
THEOREM ReportsFailures == Spec => []SqsFailuresAreReported
<1>1. Init => FailuresAnswered
  BY DEF Init, FailuresAnswered, SqsFailuresAreReported
<1>2. FailuresAnswered => SqsFailuresAreReported
  BY DEF FailuresAnswered
<1> QED
  BY <1>1, <1>2, FailuresAnsweredStep, PTL DEF Spec

\* Without them, nothing is stored once the business logic of some message has failed.
THEOREM NoOutputAfterFailure == Spec => []FailurePreventsOutput
<1>1. Init => OutputIsWhole
  BY DEF Init, OutputIsWhole, FailurePreventsOutput
<1>2. OutputIsWhole => FailurePreventsOutput
  BY DEF OutputIsWhole
<1> QED
  BY <1>1, <1>2, Establishes, Inductive, OutputIsWholeStep, PTL DEF Spec
=================================================================================
