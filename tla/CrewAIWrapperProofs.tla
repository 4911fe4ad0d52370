------------------------- MODULE CrewAIWrapperProofs -------------------------
(***************************************************************************)
(* Proofs about CrewAIWrapper: types, what strict and its absence promise, *)
(* and that its receipts are the audit trail of ToolAudit, for any number  *)
(* of calls and repetitions.                                               *)
(***************************************************************************)
EXTENDS CrewAIWrapper, SequenceTheorems, TLAPS

States == [pc: {"idle", "pre", "tool", "post", "done"},
           pre: Results \cup {"none"},
           tool: {"none", "value", "toolError"},
           outcome: {"none", "value", "toolError", "IngestError", "escape"},
           attempt: 1 .. MaxRetry + 1, ran: 0 .. MaxRetry + 1]

\* What the latest attempt at call c knows of its first POST and of the tool.
CallInv(c) ==
  /\ call[c].pc \in {"idle", "pre"} =>
       call[c].pre = "none" /\ call[c].tool = "none" /\ call[c].outcome = "none"
  /\ call[c].pc = "tool" =>
       ~ Raises(call[c].pre) /\ call[c].pre \in Results /\ call[c].tool = "none"
  /\ call[c].pc = "post" => call[c].pre = "answer" /\ call[c].tool = "value"
  /\ call[c].pc = "done" /\ ~ strict /\ call[c].outcome # "escape" =>
       call[c].outcome = call[c].tool /\ call[c].tool # "none"
  /\ strict /\ call[c].tool # "none" => call[c].pre = "answer"
  /\ call[c].pre = "answer" => \E i \in DOMAIN log : log[i] = Receipt("pre", c)
  /\ call[c].ran < call[c].attempt \/ (call[c].ran = call[c].attempt /\ call[c].tool # "none")

WrapperInv == TypeOK /\ \A c \in Calls : CallInv(c)

-----------------------------------------------------------------------------
(* Types and the invariant.                                                *)

\* What is in the log stays there, at its place.
LogKept == \A i \in DOMAIN log : i \in DOMAIN log' /\ log'[i] = log[i]

LEMMA AppendToLog ==
  ASSUME log \in Seq(Receipts), NEW m \in Receipts, log' = Append(log, m)
  PROVE  /\ log' \in Seq(Receipts) /\ LogKept
         /\ DOMAIN log = 1 .. Len(log) /\ DOMAIN log' = 1 .. Len(log) + 1
         /\ Len(log) \in Nat /\ Len(log') = Len(log) + 1
         /\ log'[Len(log) + 1] = m /\ \A i \in 1 .. Len(log) : log'[i] = log[i]
BY AppendProperties, LenProperties DEF LogKept

\* The answer to a POST means that the receipt is in the log.
LEMMA PostStep ==
  ASSUME TypeOK, NEW m \in Receipts, NEW res, Post(m, res)
  PROVE  /\ log' \in Seq(Receipts) /\ transit' \subseteq Receipts /\ LogKept
         /\ res = "answer" => \E i \in DOMAIN log' : log'[i] = m
<1>1. log \in Seq(Receipts) /\ transit \subseteq Receipts
  BY DEF TypeOK
<1>2. CASE res = "answer"
  BY <1>1, <1>2, AppendToLog DEF Post
<1>3. CASE res # "answer"
  BY <1>1, <1>3 DEF Post, LogKept
<1>. QED BY <1>2, <1>3

LEMMA ReceiptType ==
  ASSUME TypeOK, NEW c \in Calls, NEW kind \in {"pre", "post"}
  PROVE  Receipt(kind, c) \in Receipts
BY DEF TypeOK, Receipt, Receipts

\* A call that is in one of its states keeps the type of them all.
LEMMA CallType ==
  ASSUME TypeOK, NEW c \in Calls, NEW s \in States, call' = [call EXCEPT ![c] = s],
         log' \in Seq(Receipts), transit' \subseteq Receipts, emitPost' = emitPost, strict' = strict
  PROVE  TypeOK'
BY DEF TypeOK, States

LEMMA WrapperStart == Init => WrapperInv
<1>. SUFFICES ASSUME Init PROVE WrapperInv
  OBVIOUS
<1>1. TypeOK
  <2>1. Fresh \in States
    BY CrewAIAssumption DEF Fresh, States
  <2>2. << >> \in Seq(Receipts) /\ {} \subseteq Receipts
    OBVIOUS
  <2>3. call \in [Calls -> States]
    BY <2>1 DEF Init
  <2>. QED BY <2>2, <2>3 DEF Init, TypeOK, States
<1>2. ASSUME NEW c \in Calls PROVE CallInv(c)
  BY DEF Init, CallInv, Fresh
<1>. QED BY <1>1, <1>2 DEF WrapperInv

\* A step of one call, after which the log holds no less, leaves the others alone.
LEMMA OtherCalls ==
  ASSUME WrapperInv, NEW c \in Calls, NEW d \in Calls \ {c},
         call'[d] = call[d], strict' = strict,
         log' \in Seq(Receipts), LogKept
  PROVE  CallInv(d)'
<1>1. CallInv(d)
  BY DEF WrapperInv
<1>2. Receipt("pre", d)' = Receipt("pre", d)
  BY DEF Receipt
<1>. QED BY <1>1, <1>2 DEF CallInv, Raises, LogKept

LEMMA WrapperPreEnds ==
  ASSUME WrapperInv, NEW c \in Calls, PreEnds(c)
  PROVE  WrapperInv'
<1>1. PICK res \in Results :
        /\ Post(Receipt("pre", c), res)
        /\ call' = [call EXCEPT ![c].pc = IF Raises(res) THEN "done" ELSE "tool",
                                ![c].pre = res,
                                ![c].outcome = IF Raises(res) THEN res ELSE @]
  BY DEF PreEnds
<1>2. TypeOK /\ CallInv(c) /\ call[c].pc = "pre" /\ emitPost' = emitPost /\ strict' = strict
  BY DEF WrapperInv, PreEnds
<1>3. /\ log' \in Seq(Receipts) /\ transit' \subseteq Receipts /\ LogKept
      /\ res = "answer" => \E i \in DOMAIN log' : log'[i] = Receipt("pre", c)
  BY <1>1, <1>2, ReceiptType, PostStep
<1>4. TypeOK'
  <2>1. call[c] \in States /\ res \in Results
    BY <1>1, <1>2 DEF TypeOK, States
  <2>. DEFINE s == [call[c] EXCEPT !.pc = IF Raises(res) THEN "done" ELSE "tool", !.pre = res,
                                   !.outcome = IF Raises(res) THEN res ELSE @]
  <2>2. s \in States
    BY <2>1 DEF States, Raises, Results
  <2>3. call' = [call EXCEPT ![c] = s]
    BY <1>1
  <2>. HIDE DEF s
  <2>. QED BY <1>2, <1>3, <2>2, <2>3, CallType
<1>5. CallInv(c)'
  <2>1. Receipt("pre", c)' = Receipt("pre", c)
    BY <1>1, <1>2 DEF Receipt, TypeOK
  <2>. QED BY <1>1, <1>2, <1>3, <2>1 DEF CallInv, TypeOK, Raises, Results
<1>6. ASSUME NEW d \in Calls \ {c} PROVE CallInv(d)'
  BY <1>1, <1>2, <1>3, OtherCalls DEF TypeOK
<1>. QED BY <1>4, <1>5, <1>6 DEF WrapperInv

LEMMA WrapperPostEnds ==
  ASSUME WrapperInv, NEW c \in Calls, PostEnds(c)
  PROVE  WrapperInv'
<1>1. PICK res \in Results :
        /\ Post(Receipt("post", c), res)
        /\ call' = [call EXCEPT ![c].pc = "done",
                                ![c].outcome = IF Raises(res) THEN res ELSE "value"]
  BY DEF PostEnds
<1>2. TypeOK /\ CallInv(c) /\ call[c].pc = "post" /\ emitPost' = emitPost /\ strict' = strict
  BY DEF WrapperInv, PostEnds
<1>3. log' \in Seq(Receipts) /\ transit' \subseteq Receipts /\ LogKept
  BY <1>1, <1>2, ReceiptType, PostStep
<1>4. TypeOK'
  <2>1. call[c] \in States /\ res \in Results
    BY <1>1, <1>2 DEF TypeOK, States
  <2>2. [call[c] EXCEPT !.pc = "done", !.outcome = IF Raises(res) THEN res ELSE "value"] \in States
    BY <2>1 DEF States, Raises, Results
  <2>. QED BY <1>1, <1>2, <1>3, <2>2, CallType
<1>5. CallInv(c)'
  <2>1. Receipt("pre", c)' = Receipt("pre", c)
    BY <1>1, <1>2 DEF Receipt, TypeOK
  <2>. QED BY <1>1, <1>2, <1>3, <2>1 DEF CallInv, TypeOK, Raises, Results, LogKept
<1>6. ASSUME NEW d \in Calls \ {c} PROVE CallInv(d)'
  BY <1>1, <1>2, <1>3, OtherCalls DEF TypeOK
<1>. QED BY <1>4, <1>5, <1>6 DEF WrapperInv

\* The steps that send nothing.
LEMMA WrapperLocal ==
  ASSUME WrapperInv, NEW c \in Calls, Start(c) \/ Tool(c) \/ Retry(c)
  PROVE  WrapperInv'
<1>1. /\ TypeOK /\ CallInv(c) /\ log' = log /\ transit' = transit
      /\ emitPost' = emitPost /\ strict' = strict
      /\ call[c].attempt \in 1 .. MaxRetry + 1 /\ call[c].ran \in 0 .. MaxRetry + 1
  BY DEF WrapperInv, Start, Tool, Retry, TypeOK
<1>2. LogKept /\ log' \in Seq(Receipts)
  BY <1>1 DEF LogKept, TypeOK
<1>3. ASSUME NEW d \in Calls \ {c} PROVE CallInv(d)'
  <2>1. call'[d] = call[d]
    BY <1>1 DEF Start, Tool, Retry, TypeOK
  <2>. QED BY <1>1, <1>2, <2>1, OtherCalls
<1>4. CASE Start(c)
  <2>1. TypeOK'
    BY <1>1, <1>4 DEF TypeOK, Start
  <2>2. CallInv(c)'
    BY <1>1, <1>4 DEF CallInv, TypeOK, Start, Receipt, Results
  <2>. QED BY <1>3, <2>1, <2>2 DEF WrapperInv
<1>5. CASE Tool(c)
  <2>1. PICK out \in {"value", "toolError"} :
          call' = [call EXCEPT ![c].pc = IF out = "value" /\ Posts(c) THEN "post" ELSE "done",
                               ![c].tool = out,
                               ![c].outcome = IF out = "value" /\ Posts(c) THEN @ ELSE out,
                               ![c].ran = @ + 1]
    BY <1>5 DEF Tool
  <2>2. call[c].pc = "tool" /\ call[c].tool = "none"
    BY <1>1, <1>5 DEF Tool, CallInv
  <2>3. call[c].ran < call[c].attempt
    BY <1>1, <2>2 DEF CallInv
  <2>4. TypeOK'
    <3>1. call[c] \in States /\ call[c].ran + 1 \in 0 .. MaxRetry + 1
      BY <1>1, <2>3, CrewAIAssumption DEF TypeOK, States
    <3>2. [call[c] EXCEPT !.pc = IF out = "value" /\ Posts(c) THEN "post" ELSE "done",
                          !.tool = out,
                          !.outcome = IF out = "value" /\ Posts(c) THEN @ ELSE out,
                          !.ran = @ + 1] \in States
      BY <3>1 DEF States
    <3>. QED BY <1>1, <1>2, <2>1, <3>2, CallType DEF TypeOK
  <2>5. CallInv(c)'
    BY <1>1, <2>1, <2>2, <2>3 DEF CallInv, TypeOK, Receipt, Results, Raises, Posts
  <2>. QED BY <1>3, <2>4, <2>5 DEF WrapperInv
<1>6. CASE Retry(c)
  <2>1. /\ call' = [call EXCEPT ![c] = [Fresh EXCEPT !.attempt = call[c].attempt + 1,
                                                     !.ran = call[c].ran]]
        /\ call[c].attempt <= MaxRetry
    BY <1>6 DEF Retry
  <2>2. TypeOK'
    <3>1. Fresh \in States
      BY CrewAIAssumption DEF Fresh, States
    <3>2. call[c].attempt + 1 \in 1 .. MaxRetry + 1
      BY <1>1, <2>1, CrewAIAssumption
    <3>3. [Fresh EXCEPT !.attempt = call[c].attempt + 1, !.ran = call[c].ran] \in States
      BY <1>1, <3>1, <3>2 DEF States
    <3>. QED BY <1>1, <1>2, <2>1, <3>3, CallType DEF TypeOK
  <2>3. CallInv(c)'
    BY <1>1, <2>1 DEF CallInv, TypeOK, Fresh, Receipt, Results
  <2>. QED BY <1>3, <2>2, <2>3 DEF WrapperInv
<1>. QED BY <1>4, <1>5, <1>6

LEMMA WrapperDelivery ==
  ASSUME WrapperInv, Delivery
  PROVE  WrapperInv'
<1>1. /\ TypeOK /\ emitPost' = emitPost /\ strict' = strict /\ call' = call
      /\ log' \in Seq(Receipts) /\ transit' \subseteq Receipts /\ LogKept
  BY AppendToLog DEF WrapperInv, Delivery, Deliver, TypeOK
<1>2. TypeOK'
  BY <1>1 DEF TypeOK
<1>3. ASSUME NEW c \in Calls PROVE CallInv(c)'
  BY <1>1 DEF WrapperInv, CallInv, Receipt, Raises, LogKept
<1>. QED BY <1>2, <1>3 DEF WrapperInv

LEMMA WrapperStep == WrapperInv /\ [Next]_vars => WrapperInv'
<1>. SUFFICES ASSUME WrapperInv, [Next]_vars PROVE WrapperInv'
  OBVIOUS
<1>1. CASE UNCHANGED vars
  BY <1>1 DEF vars, WrapperInv, TypeOK, CallInv, Receipt, Raises
<1>2. CASE Next
  BY <1>2, WrapperPreEnds, WrapperPostEnds, WrapperLocal, WrapperDelivery DEF Next, Wrapper
<1>. QED BY <1>1, <1>2

LEMMA WrapperInvariant == Spec => []WrapperInv
BY WrapperStart, WrapperStep, PTL DEF Spec

\* Every variable of the wrapper and of the service keeps its type: no attempt
\* executes the tool twice.
THEOREM TypeCorrect == Spec => []TypeOK
BY WrapperInvariant, PTL DEF WrapperInv

\* Without strict the caller gets what the tool came to, unless something other
\* than IngestError is raised.
THEOREM IngestStaysInside == Spec => []IngestErrorsStayInside
<1>1. WrapperInv => IngestErrorsStayInside
  BY DEF WrapperInv, CallInv, IngestErrorsStayInside
<1>. QED BY <1>1, WrapperInvariant, PTL

\* With strict no tool is executed before its pre-action receipt is stored.
THEOREM StrictRecords == Spec => []StrictToolIsRecorded
<1>1. WrapperInv => StrictToolIsRecorded
  BY DEF WrapperInv, CallInv, StrictToolIsRecorded
<1>. QED BY <1>1, WrapperInvariant, PTL

-----------------------------------------------------------------------------
(* The audit trail.                                                        *)

AuditLog == [i \in DOMAIN log |-> Audited(log[i])]
AuditTransit == {Audited(m) : m \in transit}
AuditStage == [a \in Attempts |-> Stage(a[1], a[2])]

\* A receipt is known by its kind and its attempt.
LEMMA AuditedInjective ==
  ASSUME NEW m \in Receipts, NEW n \in Receipts, Audited(m) = Audited(n)
  PROVE  m = n
<1>1. m.kind = n.kind /\ <<m.of, m.attempt>> = <<n.of, n.attempt>>
  BY DEF Audited
<1>. QED BY <1>1 DEF Receipts

\* What is appended to the log is appended to the log as its reader sees it.
LEMMA AuditAppend ==
  ASSUME log \in Seq(Receipts), NEW m \in Receipts, log' = Append(log, m)
  PROVE  AuditLog' = Append(AuditLog, Audited(m))
<1>. DEFINE T == {Audited(n) : n \in Receipts}
<1>1. /\ log' \in Seq(Receipts) /\ Len(log) \in Nat /\ Len(log') = Len(log) + 1
      /\ DOMAIN log = 1 .. Len(log) /\ DOMAIN log' = 1 .. Len(log) + 1
      /\ log'[Len(log) + 1] = m /\ \A i \in 1 .. Len(log) : log'[i] = log[i]
  BY AppendToLog
<1>2. AuditLog = [i \in 1 .. Len(log) |-> Audited(log[i])]
  BY <1>1 DEF AuditLog
<1>3. AuditLog' = [i \in 1 .. Len(log) + 1 |-> Audited(log'[i])]
  BY <1>1 DEF AuditLog, Audited
<1>4. AuditLog \in Seq(T) /\ Len(AuditLog) = Len(log)
  BY <1>1, <1>2
<1>5. AuditLog' \in Seq(T) /\ Len(AuditLog') = Len(log) + 1
  BY <1>1, <1>3
<1>6. /\ Append(AuditLog, Audited(m)) \in Seq(T) /\ Len(Append(AuditLog, Audited(m))) = Len(log) + 1
      /\ Append(AuditLog, Audited(m))[Len(log) + 1] = Audited(m)
      /\ \A i \in 1 .. Len(log) : Append(AuditLog, Audited(m))[i] = AuditLog[i]
  BY <1>1, <1>4
<1>7. \A i \in 1 .. Len(log) + 1 : AuditLog'[i] = Append(AuditLog, Audited(m))[i]
  BY <1>1, <1>2, <1>3, <1>6
<1>. HIDE DEF T
<1>. QED BY <1>5, <1>6, <1>7, SeqEqual

LEMMA AuditPost ==
  ASSUME TypeOK, NEW m \in Receipts, NEW res, Post(m, res)
  PROVE  Audit!Post(Audited(m), res)
<1>1. CASE res = "answer"
  <2>1. log' = Append(log, m) /\ transit' = transit
    BY <1>1 DEF Post
  <2>2. AuditLog' = Append(AuditLog, Audited(m)) /\ AuditTransit' = AuditTransit
    BY <2>1, AuditAppend DEF TypeOK, AuditTransit, Audited
  <2>. QED BY <1>1, <2>2 DEF Audit!Post, AuditLog, AuditTransit
<1>2. CASE res # "answer"
  <2>1. log' = log /\ transit' \in {transit, transit \cup {m}}
    BY <1>2 DEF Post
  <2>2. AuditLog' = AuditLog /\ AuditTransit' \in {AuditTransit, AuditTransit \cup {Audited(m)}}
    BY <2>1 DEF AuditLog, AuditTransit, Audited
  <2>. QED BY <1>2, <2>2 DEF Audit!Post, AuditLog, AuditTransit
<1>. QED BY <1>1, <1>2

LEMMA AuditDelivery ==
  ASSUME TypeOK, Deliver
  PROVE  Audit!Deliver
<1>1. PICK m \in transit : log' = Append(log, m) /\ transit' = transit \ {m}
  BY DEF Deliver
<1>2. m \in Receipts /\ transit \subseteq Receipts /\ log \in Seq(Receipts)
  BY <1>1 DEF TypeOK
<1>3. AuditLog' = Append(AuditLog, Audited(m))
  BY <1>1, <1>2, AuditAppend
<1>4. AuditTransit' = AuditTransit \ {Audited(m)}
  <2>1. AuditTransit' = {Audited(n) : n \in transit'}
    BY DEF AuditTransit, Audited
  <2>. QED BY <1>1, <1>2, <2>1, AuditedInjective DEF AuditTransit
<1>. QED BY <1>1, <1>3, <1>4 DEF Audit!Deliver, AuditLog, AuditTransit

LEMMA AuditReceipt ==
  ASSUME NEW c \in Calls, NEW kind
  PROVE  Audited(Receipt(kind, c)) = Audit!ReceiptOf(kind, <<c, call[c].attempt>>)
BY DEF Audited, Receipt, Audit!ReceiptOf

\* A step of the latest attempt of a call moves the receipts of that attempt only.
LEMMA AuditStageStep ==
  ASSUME TypeOK, NEW c \in Calls, NEW s \in States, call' = [call EXCEPT ![c] = s],
         NEW k \in 1 .. MaxRetry + 1, call[c].attempt = k, s.attempt = k
  PROVE  /\ <<c, k>> \in Attempts
         /\ AuditStage' = [AuditStage EXCEPT ![<<c, k>>] = Stage(c, k)']
<1>1. <<c, k>> \in Attempts
  BY DEF Attempts
<1>2. \A a \in Attempts : a # <<c, k>> => Stage(a[1], a[2])' = Stage(a[1], a[2])
  <2>. SUFFICES ASSUME NEW d \in Calls, NEW j \in 1 .. MaxRetry + 1, d # c \/ j # k
                PROVE  Stage(d, j)' = Stage(d, j)
    BY DEF Attempts
  <2>1. CASE d # c
    BY <2>1 DEF Stage, TypeOK
  <2>2. CASE d = c
    BY <2>2, CrewAIAssumption DEF Stage, TypeOK
  <2>. QED BY <2>1, <2>2
<1>3. AuditStage' = [a \in Attempts |-> Stage(a[1], a[2])']
  BY DEF AuditStage, Attempts
<1>4. Stage(<<c, k>>[1], <<c, k>>[2])' = Stage(c, k)'
  OBVIOUS
<1>5. \A a \in Attempts : AuditStage'[a] = IF a = <<c, k>> THEN Stage(c, k)' ELSE AuditStage[a]
  BY <1>1, <1>2, <1>3, <1>4 DEF AuditStage
<1>. QED BY <1>1, <1>3, <1>5 DEF AuditStage

LEMMA StageType == ASSUME NEW c \in Calls, NEW k \in 1 .. MaxRetry + 1
                   PROVE  <<c, k>> \in Attempts /\ AuditStage[<<c, k>>] = Stage(c, k)
<1>1. <<c, k>>[1] = c /\ <<c, k>>[2] = k /\ <<c, k>> \in Attempts
  BY DEF Attempts
<1>. QED BY <1>1 DEF AuditStage

LEMMA PreEndsAudited ==
  ASSUME WrapperInv, NEW c \in Calls, PreEnds(c)
  PROVE  Audit!Announce(<<c, call[c].attempt>>) /\ <<c, call[c].attempt>> \in Attempts
<1>1. PICK res \in Results :
        /\ Post(Receipt("pre", c), res)
        /\ call' = [call EXCEPT ![c].pc = IF Raises(res) THEN "done" ELSE "tool",
                                ![c].pre = res,
                                ![c].outcome = IF Raises(res) THEN res ELSE @]
  BY DEF PreEnds
<1>2. TypeOK /\ call[c].pc = "pre" /\ call[c] \in States /\ TypeOK'
  BY WrapperPreEnds DEF WrapperInv, PreEnds, TypeOK, States
<1>3. PICK k \in 1 .. MaxRetry + 1 : k = call[c].attempt
  BY <1>2 DEF States
<1>4. call' = [call EXCEPT ![c] = call'[c]] /\ call'[c] \in States
  <2>. DEFINE s == [call[c] EXCEPT !.pc = IF Raises(res) THEN "done" ELSE "tool", !.pre = res,
                                   !.outcome = IF Raises(res) THEN res ELSE @]
  <2>1. call' = [call EXCEPT ![c] = s]
    BY <1>1
  <2>. HIDE DEF s
  <2>. QED BY <1>2, <2>1 DEF TypeOK, States
<1>5. /\ call'[c].attempt = k /\ call'[c].pre = res
      /\ call'[c].pc = IF Raises(res) THEN "done" ELSE "tool"
  BY <1>1, <1>2, <1>3 DEF TypeOK, States
<1>6. <<c, k>> \in Attempts /\ AuditStage' = [AuditStage EXCEPT ![<<c, k>>] = Stage(c, k)']
  BY <1>2, <1>3, <1>4, <1>5, AuditStageStep
<1>7. AuditStage[<<c, k>>] = "fresh"
  BY <1>2, <1>3, StageType DEF Stage
<1>8. Stage(c, k)' \in IF res = "answer" THEN {"stored"} ELSE {"unsure", "closed"}
  BY <1>5 DEF Stage, Raises
<1>9. Audit!Post(Audit!ReceiptOf("pre", <<c, k>>), res)
  BY <1>1, <1>2, <1>3, AuditPost, ReceiptType, AuditReceipt
<1>10. Audit!Announce(<<c, k>>)
  BY <1>6, <1>7, <1>8, <1>9 DEF Audit!Announce, Audit!Results, Results, AuditStage
<1>. QED BY <1>3, <1>6, <1>10

LEMMA PostEndsAudited ==
  ASSUME WrapperInv, NEW c \in Calls, PostEnds(c)
  PROVE  Audit!Conclude(<<c, call[c].attempt>>) /\ <<c, call[c].attempt>> \in Attempts
<1>1. PICK res \in Results :
        /\ Post(Receipt("post", c), res)
        /\ call' = [call EXCEPT ![c].pc = "done",
                                ![c].outcome = IF Raises(res) THEN res ELSE "value"]
  BY DEF PostEnds
<1>2. /\ TypeOK /\ call[c].pc = "post" /\ call[c].pre = "answer" /\ call[c] \in States
      /\ TypeOK'
  BY WrapperPostEnds DEF WrapperInv, CallInv, PostEnds, TypeOK, States
<1>3. PICK k \in 1 .. MaxRetry + 1 : k = call[c].attempt
  BY <1>2 DEF States
<1>4. call' = [call EXCEPT ![c] = call'[c]] /\ call'[c] \in States
  BY <1>1, <1>2 DEF TypeOK, States
<1>5. call'[c].attempt = k /\ call'[c].pc = "done"
  BY <1>1, <1>2, <1>3 DEF TypeOK, States
<1>6. <<c, k>> \in Attempts /\ AuditStage' = [AuditStage EXCEPT ![<<c, k>>] = Stage(c, k)']
  BY <1>2, <1>3, <1>4, <1>5, AuditStageStep
<1>7. AuditStage[<<c, k>>] = "stored" /\ Stage(c, k)' = "closed"
  BY <1>2, <1>3, <1>5, StageType DEF Stage
<1>8. Audit!Post(Audit!ReceiptOf("post", <<c, k>>), res)
  BY <1>1, <1>2, <1>3, AuditPost, ReceiptType, AuditReceipt
<1>9. Audit!Conclude(<<c, k>>)
  BY <1>6, <1>7, <1>8 DEF Audit!Conclude, Audit!Results, Results, AuditStage
<1>. QED BY <1>3, <1>6, <1>9

\* The tool's run closes the trail of its attempt, or leaves it as it is.
LEMMA ToolAudited ==
  ASSUME WrapperInv, NEW c \in Calls, Tool(c)
  PROVE  \/ Audit!Close(<<c, call[c].attempt>>) /\ <<c, call[c].attempt>> \in Attempts
         \/ AuditStage' = AuditStage
<1>1. PICK out \in {"value", "toolError"} :
        call' = [call EXCEPT ![c].pc = IF out = "value" /\ Posts(c) THEN "post" ELSE "done",
                             ![c].tool = out,
                             ![c].outcome = IF out = "value" /\ Posts(c) THEN @ ELSE out,
                             ![c].ran = @ + 1]
  BY DEF Tool
<1>2. /\ TypeOK /\ call[c].pc = "tool" /\ call[c] \in States /\ TypeOK'
      /\ log' = log /\ transit' = transit
  BY WrapperLocal DEF WrapperInv, Tool, TypeOK, States
<1>3. PICK k \in 1 .. MaxRetry + 1 : k = call[c].attempt
  BY <1>2 DEF States
<1>4. call' = [call EXCEPT ![c] = call'[c]] /\ call'[c] \in States
  BY <1>1, <1>2 DEF TypeOK, States
<1>5. /\ call'[c].attempt = k /\ call'[c].pre = call[c].pre
      /\ call'[c].pc = IF out = "value" /\ Posts(c) THEN "post" ELSE "done"
  BY <1>1, <1>2, <1>3 DEF TypeOK, States
<1>6. <<c, k>> \in Attempts /\ AuditStage' = [AuditStage EXCEPT ![<<c, k>>] = Stage(c, k)']
  BY <1>2, <1>3, <1>4, <1>5, AuditStageStep
<1>7. AuditStage[<<c, k>>] = Stage(c, k) /\ Stage(c, k) \in {"stored", "unsure"}
  BY <1>2, <1>3, StageType DEF Stage
<1>8. CASE out = "value" /\ Posts(c)
  <2>1. Stage(c, k)' = Stage(c, k)
    BY <1>2, <1>3, <1>5, <1>8 DEF Stage, Posts
  <2>. QED BY <1>6, <1>7, <2>1 DEF AuditStage
<1>9. CASE ~ (out = "value" /\ Posts(c))
  <2>1. Stage(c, k)' = "closed"
    BY <1>5, <1>9 DEF Stage
  <2>2. AuditLog' = AuditLog /\ AuditTransit' = AuditTransit
    BY <1>2 DEF AuditLog, AuditTransit, Audited
  <2>3. Audit!Close(<<c, k>>)
    BY <1>6, <1>7, <2>1, <2>2 DEF Audit!Close, AuditStage, AuditLog, AuditTransit
  <2>. QED BY <1>3, <1>6, <2>3
<1>. QED BY <1>8, <1>9

LEMMA StartAudited ==
  ASSUME WrapperInv, NEW c \in Calls, Start(c) \/ Retry(c)
  PROVE  AuditStage' = AuditStage
<1>1. TypeOK /\ call[c] \in States
  BY DEF WrapperInv, TypeOK, States
<1>2. \A d \in Calls, k \in 1 .. MaxRetry + 1 : Stage(d, k)' = Stage(d, k)
  <2>. SUFFICES ASSUME NEW d \in Calls, NEW k \in 1 .. MaxRetry + 1
                PROVE  Stage(d, k)' = Stage(d, k)
    OBVIOUS
  <2>1. CASE d # c
    BY <1>1, <2>1 DEF Stage, Start, Retry, TypeOK
  <2>2. CASE d = c /\ Start(c)
    BY <1>1, <2>2 DEF Stage, Start, TypeOK
  <2>3. CASE d = c /\ Retry(c)
    <3>1. /\ call'[c].attempt = call[c].attempt + 1 /\ call'[c].pc = "idle"
          /\ call[c].pc = "done" /\ call[c].attempt \in Nat
      BY <1>1, <2>3, CrewAIAssumption DEF Retry, Fresh, TypeOK, States
    <3>. QED BY <2>3, <3>1 DEF Stage
  <2>. QED BY <2>1, <2>2, <2>3
<1>3. AuditStage' = [a \in Attempts |-> Stage(a[1], a[2])']
  BY DEF AuditStage, Attempts
<1>. QED BY <1>2, <1>3 DEF AuditStage, Attempts

LEMMA StepAudited ==
  ASSUME WrapperInv, [Next]_vars
  PROVE  [Audit!Next]_(Audit!auditVars)
<1>. USE DEF Audit!Next, Audit!auditVars
<1>1. ASSUME NEW c \in Calls, PreEnds(c) PROVE Audit!Next
  BY <1>1, PreEndsAudited
<1>2. ASSUME NEW c \in Calls, PostEnds(c) PROVE Audit!Next
  BY <1>2, PostEndsAudited
<1>3. ASSUME log' = log, transit' = transit, AuditStage' = AuditStage
      PROVE  UNCHANGED Audit!auditVars
  BY <1>3 DEF AuditStage, Audited
<1>4. ASSUME NEW c \in Calls, Start(c) \/ Tool(c) \/ Retry(c)
      PROVE  [Audit!Next]_(Audit!auditVars)
  <2>1. log' = log /\ transit' = transit
    BY <1>4 DEF Start, Tool, Retry
  <2>. QED BY <1>3, <1>4, <2>1, StartAudited, ToolAudited
<1>5. CASE Delivery
  <2>1. Audit!Deliver
    BY <1>5, AuditDelivery DEF WrapperInv, Delivery
  <2>2. AuditStage' = AuditStage
    BY <1>5 DEF Delivery, AuditStage, Stage, Attempts
  <2>. QED BY <2>1, <2>2 DEF AuditStage
<1>6. CASE UNCHANGED vars
  <2>1. AuditStage' = AuditStage
    BY <1>6 DEF vars, AuditStage, Stage, Attempts
  <2>. QED BY <1>3, <1>6, <2>1 DEF vars
<1>. QED BY <1>1, <1>2, <1>4, <1>5, <1>6 DEF Next, Wrapper

\* The wrapper's receipts are an audit trail: at most one of each kind of each
\* attempt, the post-action one after the answer to the other.
THEOREM WrapperImplementsAudit == Spec => ImplementsAudit
<1>1. Init => Audit!Init
  <2>. SUFFICES ASSUME Init PROVE Audit!Init
    OBVIOUS
  <2>1. AuditLog = << >> /\ AuditTransit = {}
    BY DEF Init, AuditLog, AuditTransit
  <2>2. AuditStage = [a \in Attempts |-> "fresh"]
    BY CrewAIAssumption DEF Init, AuditStage, Stage, Fresh, Attempts
  <2>. QED BY <2>1, <2>2 DEF Audit!Init, AuditLog, AuditTransit, AuditStage
<1>2. WrapperInv /\ [Next]_vars => [Audit!Next]_(Audit!auditVars)
  BY StepAudited
<1>. QED BY <1>1, <1>2, WrapperInvariant, PTL DEF Spec, ImplementsAudit, Audit!Spec

\* What is proved of the abstract trail, for the trail of the wrapper's receipts.
Facts == INSTANCE ToolAuditProofs WITH
           Uses <- Attempts, PostNeedsPre <- TRUE,
           log <- [i \in DOMAIN log |-> Audited(log[i])],
           transit <- {Audited(m) : m \in transit},
           stage <- [a \in Attempts |-> Stage(a[1], a[2])]

\* Of each attempt the log holds at most one receipt of each kind, and the
\* post-action one behind the other.
THEOREM PreReceiptFirst == Spec => []PreStoredFirst
<1>1. Facts!Spec => [](Facts!OncePerKind /\ Facts!PreFirst)
  BY Facts!LogIsOrdered
<1>2. Audit!Init <=> Facts!Init
  BY DEF Audit!Init, Facts!Init
<1>3. [Audit!Next]_(Audit!auditVars) <=> [Facts!Next]_(Facts!auditVars)
  BY DEF Audit!Next, Facts!Next, Audit!auditVars, Facts!auditVars,
     Audit!Announce, Facts!Announce, Audit!Conclude, Facts!Conclude, Audit!Close, Facts!Close,
     Audit!Deliver, Facts!Deliver, Audit!Post, Facts!Post, Audit!ReceiptOf, Facts!ReceiptOf,
     Audit!Results, Facts!Results
<1>4. Facts!OncePerKind /\ Facts!PreFirst <=> PreStoredFirst
  BY DEF Facts!OncePerKind, Facts!PreFirst, PreStoredFirst, Audit!OncePerKind, Audit!PreFirst,
     Facts!Sent, Audit!Sent, Facts!ReceiptOf, Audit!ReceiptOf
<1>. QED
  BY <1>1, <1>2, <1>3, <1>4, WrapperImplementsAudit, PTL
     DEF ImplementsAudit, Audit!Spec, Facts!Spec
=============================================================================
