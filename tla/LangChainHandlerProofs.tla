------------------------ MODULE LangChainHandlerProofs ------------------------
(***************************************************************************)
(* Proofs about LangChainHandler: types, that receipts and entries keep to *)
(* their runs, and that the receipts are an audit trail, for any number of *)
(* runs and tools.                                                         *)
(***************************************************************************)
EXTENDS LangChainHandler, SequenceTheorems, TLAPS

States == [pc: {"idle", "pre", "note", "tool", "post", "done"},
           tool: Tools \cup {NoTool}, terms: Tools \cup {Default},
           id: Runs \cup {"none"}, pre: Results \cup {"none"}]

\* What the hooks of run r hold, and what is pending for it.
RunInv(r) ==
  /\ run[r].terms \in {Default, run[r].tool}
  /\ pending[r] # NoEntry => pending[r] = [id |-> r] /\ run[r].pre # "escape"
  /\ pending[r] # NoEntry => run[r].pc = "tool" \/ (r \in Anonymous /\ run[r].pc = "done")
  /\ run[r].pc = "note" => run[r].pre \in {"answer", "IngestError"}
  /\ run[r].pc = "tool" => run[r].pre \in Results
  /\ run[r].pc = "post" => run[r].id = r /\ run[r].pre \in {"answer", "IngestError"}

\* A receipt is what the hooks of its run have sent, with terms that last.
Correlated(m) ==
  /\ m.id = m.of /\ run[m.of].pc \notin {"idle", "pre"}
  /\ m.terms = IF m.kind = "pre" THEN run[m.of].terms ELSE Default

HandlerInv ==
  /\ TypeOK
  /\ \A t \in Tools : terms[t] \in {Default, t}
  /\ \A r \in Runs : RunInv(r)
  /\ \A m \in Sent : Correlated(m)

-----------------------------------------------------------------------------
(* Types and the invariant.                                                *)

LEMMA SentType == TypeOK => Sent \subseteq Receipts
BY DEF TypeOK, Sent

LEMMA AppendToLog ==
  ASSUME log \in Seq(Receipts), NEW m \in Receipts, log' = Append(log, m)
  PROVE  /\ log' \in Seq(Receipts)
         /\ DOMAIN log = 1 .. Len(log) /\ DOMAIN log' = 1 .. Len(log) + 1
         /\ Len(log) \in Nat /\ Len(log') = Len(log) + 1
         /\ log'[Len(log) + 1] = m /\ \A i \in 1 .. Len(log) : log'[i] = log[i]
BY AppendProperties, LenProperties

\* What the log holds after a receipt is appended.
LEMMA LogWith ==
  ASSUME TypeOK, NEW m \in Receipts, log' = Append(log, m)
  PROVE  {log'[i] : i \in DOMAIN log'} = {log[i] : i \in DOMAIN log} \cup {m}
<1>1. /\ DOMAIN log = 1 .. Len(log) /\ DOMAIN log' = 1 .. Len(log) + 1 /\ Len(log) \in Nat
      /\ log'[Len(log) + 1] = m /\ \A i \in 1 .. Len(log) : log'[i] = log[i]
  BY AppendToLog DEF TypeOK
<1>2. \A n : (\E i \in DOMAIN log' : n = log'[i]) <=> n = m \/ \E i \in DOMAIN log : n = log[i]
  BY <1>1
<1>. QED BY <1>2

\* A POST sends nothing but what it is about.
LEMMA PostStep ==
  ASSUME TypeOK, NEW m \in Receipts, NEW res, Post(m, res)
  PROVE  log' \in Seq(Receipts) /\ transit' \subseteq Receipts /\ Sent' \subseteq Sent \cup {m}
<1>1. log \in Seq(Receipts) /\ transit \subseteq Receipts
  BY DEF TypeOK
<1>2. CASE res = "answer"
  <2>1. log' = Append(log, m) /\ transit' = transit
    BY <1>2 DEF Post
  <2>. QED BY <1>1, <2>1, AppendToLog, LogWith DEF Sent
<1>3. CASE res # "answer"
  BY <1>1, <1>3 DEF Post, Sent
<1>. QED BY <1>2, <1>3

\* A delivery sends nothing.
LEMMA DeliverStep ==
  ASSUME TypeOK, Deliver
  PROVE  log' \in Seq(Receipts) /\ transit' \subseteq Receipts /\ Sent' = Sent
<1>1. PICK m \in transit : log' = Append(log, m) /\ transit' = transit \ {m}
  BY DEF Deliver
<1>2. m \in Receipts /\ log \in Seq(Receipts) /\ transit' \subseteq Receipts
  BY <1>1 DEF TypeOK
<1>3. {log'[i] : i \in DOMAIN log'} = {log[i] : i \in DOMAIN log} \cup {m}
  BY <1>1, <1>2, LogWith
<1>. QED BY <1>1, <1>2, <1>3, AppendToLog DEF Sent

LEMMA HandlerStart == Init => HandlerInv
<1>. SUFFICES ASSUME Init PROVE HandlerInv
  OBVIOUS
<1>1. Idle \in States
  BY DEF Idle, States
<1>2. << >> \in Seq(Receipts) /\ {} \subseteq Receipts
  OBVIOUS
<1>3. TypeOK
  BY <1>1, <1>2 DEF Init, TypeOK, States
<1>4. Sent = {}
  BY DEF Init, Sent
<1>5. \A r \in Runs : RunInv(r)
  BY DEF Init, RunInv, Idle
<1>. QED BY <1>3, <1>4, <1>5 DEF HandlerInv, Init

\* A run that moves on, without a receipt, to a state that its entry agrees with.
LEMMA RunMoves ==
  ASSUME HandlerInv, NEW r \in Runs, NEW s \in States, run' = [run EXCEPT ![r] = s],
         \/ run[r].pc \in {"idle", "pre"}
         \/ s.pc \notin {"idle", "pre"} /\ s.terms = run[r].terms,
         emitPost' = emitPost, terms' = terms,
         pending' \in [Runs -> {NoEntry} \cup [id: Runs]],
         \A q \in Runs \ {r} : pending'[q] = pending[q],
         RunInv(r)',
         log' \in Seq(Receipts), transit' \subseteq Receipts,
         \A m \in Sent' : m \in Sent \/ Correlated(m)'
  PROVE  HandlerInv'
<1>1. TypeOK'
  BY DEF HandlerInv, TypeOK, States
<1>2. ASSUME NEW q \in Runs \ {r} PROVE RunInv(q)'
  BY DEF HandlerInv, TypeOK, RunInv
<1>3. ASSUME NEW m \in Sent' PROVE Correlated(m)'
  <2>. SUFFICES ASSUME m \in Sent PROVE Correlated(m)'
    BY <1>3
  <2>1. Correlated(m) /\ m \in Receipts
    BY SentType DEF HandlerInv
  <2>. QED BY <2>1 DEF Correlated, HandlerInv, TypeOK, Receipts
<1>. QED BY <1>1, <1>2, <1>3 DEF HandlerInv

LEMMA StartKeeps ==
  ASSUME HandlerInv, NEW r \in Runs, ToolStart(r)
  PROVE  HandlerInv'
<1>1. PICK t \in Tools :
        run' = [run EXCEPT ![r].pc = "pre", ![r].tool = t, ![r].terms = terms[t]]
  BY DEF ToolStart
<1>2. /\ run[r] \in States /\ run[r].pc = "idle" /\ TypeOK /\ RunInv(r)
      /\ terms[t] \in {Default, t}
  BY DEF HandlerInv, TypeOK, States, ToolStart
<1>. DEFINE s == [run[r] EXCEPT !.pc = "pre", !.tool = t, !.terms = terms[t]]
<1>3. s \in States
  BY <1>2 DEF States
<1>4. run' = [run EXCEPT ![r] = s] /\ pending' = pending /\ log' = log /\ transit' = transit
      /\ emitPost' = emitPost /\ terms' = terms
  BY <1>1 DEF ToolStart
<1>5. RunInv(r)'
  BY <1>2, <1>3, <1>4 DEF RunInv, TypeOK, States
<1>. HIDE DEF s
<1>. QED BY <1>2, <1>3, <1>4, <1>5, RunMoves DEF TypeOK, Sent

LEMMA PreKeeps ==
  ASSUME HandlerInv, NEW r \in Runs, PreEnds(r)
  PROVE  HandlerInv'
<1>1. PICK res \in Results :
        /\ Post(Pre(r), res)
        /\ run' = [run EXCEPT ![r].pc = IF res = "escape" THEN "tool" ELSE "note", ![r].pre = res]
  BY DEF PreEnds
<1>2. run[r] \in States /\ run[r].pc = "pre" /\ TypeOK /\ RunInv(r)
  BY DEF HandlerInv, TypeOK, States, PreEnds
<1>3. Pre(r) \in Receipts
  BY <1>2 DEF Pre, Receipts, States
<1>4. log' \in Seq(Receipts) /\ transit' \subseteq Receipts /\ Sent' \subseteq Sent \cup {Pre(r)}
  BY <1>1, <1>2, <1>3, PostStep
<1>. DEFINE s == [run[r] EXCEPT !.pc = IF res = "escape" THEN "tool" ELSE "note", !.pre = res]
<1>5. s \in States
  BY <1>2 DEF States, Results
<1>6. run' = [run EXCEPT ![r] = s] /\ pending' = pending /\ emitPost' = emitPost /\ terms' = terms
  BY <1>1 DEF PreEnds
<1>11. /\ run'[r].pc = (IF res = "escape" THEN "tool" ELSE "note") /\ run'[r].pre = res
      /\ run'[r].terms = run[r].terms /\ run'[r].tool = run[r].tool
      /\ run[r].terms \in {Default, run[r].tool}
  BY <1>1, <1>2 DEF TypeOK, States, RunInv
<1>12. pending'[r] = NoEntry
  BY <1>2, <1>6 DEF RunInv
<1>7. RunInv(r)'
  BY <1>11, <1>12 DEF RunInv, Results
<1>8. \A m \in {Pre(r)} : Correlated(m)'
  BY <1>11 DEF Correlated, Pre
<1>. HIDE DEF s
<1>9. /\ pending' \in [Runs -> {NoEntry} \cup [id: Runs]]
      /\ \A q \in Runs \ {r} : pending'[q] = pending[q]
  BY <1>2, <1>6 DEF TypeOK
<1>10. \A m \in Sent' : m \in Sent \/ Correlated(m)'
  BY <1>4, <1>8
<1>. QED BY <1>2, <1>4, <1>5, <1>6, <1>7, <1>9, <1>10, RunMoves

LEMMA NoteKeeps ==
  ASSUME HandlerInv, NEW r \in Runs, Note(r)
  PROVE  HandlerInv'
<1>1. /\ run' = [run EXCEPT ![r].pc = "tool"] /\ pending' = [pending EXCEPT ![r] = [id |-> r]]
      /\ log' = log /\ transit' = transit /\ emitPost' = emitPost /\ terms' = terms
  BY DEF Note, Goto, Key
<1>2. run[r] \in States /\ run[r].pc = "note" /\ TypeOK /\ RunInv(r)
  BY DEF HandlerInv, TypeOK, States, Note
<1>. DEFINE s == [run[r] EXCEPT !.pc = "tool"]
<1>3. s \in States
  BY <1>2 DEF States
<1>4. run' = [run EXCEPT ![r] = s]
  BY <1>1
<1>5. /\ run'[r].pc = "tool" /\ run'[r].pre = run[r].pre
      /\ run'[r].terms = run[r].terms /\ run'[r].tool = run[r].tool
      /\ pending'[r] = [id |-> r]
      /\ pending' \in [Runs -> {NoEntry} \cup [id: Runs]]
      /\ \A q \in Runs \ {r} : pending'[q] = pending[q]
  BY <1>1, <1>2 DEF TypeOK, States
<1>6. RunInv(r)'
  BY <1>2, <1>5 DEF RunInv, Results
<1>7. s.pc = "tool" /\ s.terms = run[r].terms
  BY <1>2 DEF States
<1>. HIDE DEF s
<1>8. /\ log' \in Seq(Receipts) /\ transit' \subseteq Receipts
      /\ \A m \in Sent' : m \in Sent \/ Correlated(m)'
  BY <1>1, <1>2 DEF TypeOK, Sent
<1>. QED BY <1>1, <1>3, <1>4, <1>5, <1>6, <1>7, <1>8, RunMoves

LEMMA ToolKeeps ==
  ASSUME HandlerInv, NEW r \in Runs, ToolEnd(r) \/ ToolError(r)
  PROVE  HandlerInv'
<1>1. /\ run[r] \in States /\ run[r].pc = "tool" /\ TypeOK /\ RunInv(r)
      /\ log' = log /\ transit' = transit /\ emitPost' = emitPost /\ terms' = terms
      /\ pending' = IF r \in Anonymous THEN pending ELSE [pending EXCEPT ![r] = NoEntry]
  BY DEF HandlerInv, TypeOK, States, ToolEnd, ToolError, Pop, Key
<1>. DEFINE t == [run[r] EXCEPT !.pc = "post", !.id = pending[r].id]
            d == [run[r] EXCEPT !.pc = "done"]
<1>2. \/ run' = [run EXCEPT ![r] = d]
      \/ run' = [run EXCEPT ![r] = t] /\ r \notin Anonymous /\ pending[r] # NoEntry
  BY DEF ToolEnd, ToolError, Goto, Key
<1>3. /\ pending' \in [Runs -> {NoEntry} \cup [id: Runs]]
      /\ \A q \in Runs \ {r} : pending'[q] = pending[q]
      /\ pending'[r] = IF r \in Anonymous THEN pending[r] ELSE NoEntry
  BY <1>1 DEF TypeOK
<1>s. /\ log' \in Seq(Receipts) /\ transit' \subseteq Receipts
      /\ \A m \in Sent' : m \in Sent \/ Correlated(m)'
  BY <1>1 DEF TypeOK, Sent
<1>4. CASE run' = [run EXCEPT ![r] = d]
  <2>1. d \in States /\ d.pc = "done" /\ d.terms = run[r].terms
    BY <1>1 DEF States
  <2>2. /\ run'[r].pc = "done" /\ run'[r].pre = run[r].pre
        /\ run'[r].terms = run[r].terms /\ run'[r].tool = run[r].tool
    BY <1>1, <1>4 DEF TypeOK, States
  <2>3. RunInv(r)'
    BY <1>1, <1>3, <2>2 DEF RunInv
  <2>. HIDE DEF d
  <2>. QED BY <1>1, <1>3, <1>s, <1>4, <2>1, <2>3, RunMoves
<1>5. CASE run' = [run EXCEPT ![r] = t] /\ r \notin Anonymous /\ pending[r] # NoEntry
  <2>1. pending[r] = [id |-> r] /\ pending[r].id = r /\ run[r].pre \in {"answer", "IngestError"}
    BY <1>1, <1>5 DEF RunInv, Results
  <2>2. t \in States /\ t.pc = "post" /\ t.terms = run[r].terms
    BY <1>1, <2>1 DEF States
  <2>3. /\ run'[r].pc = "post" /\ run'[r].pre = run[r].pre /\ run'[r].id = r
        /\ run'[r].terms = run[r].terms /\ run'[r].tool = run[r].tool
    BY <1>1, <1>5, <2>1 DEF TypeOK, States
  <2>4. RunInv(r)'
    BY <1>1, <1>3, <1>5, <2>1, <2>3 DEF RunInv
  <2>. HIDE DEF t
  <2>. QED BY <1>1, <1>3, <1>s, <1>5, <2>2, <2>4, RunMoves
<1>. QED BY <1>2, <1>4, <1>5

LEMMA PostKeeps ==
  ASSUME HandlerInv, NEW r \in Runs, PostEnds(r)
  PROVE  HandlerInv'
<1>1. PICK res \in Results : Post(PostReceipt(r), res)
  BY DEF PostEnds
<1>2. /\ run' = [run EXCEPT ![r].pc = "done"] /\ pending' = pending
      /\ emitPost' = emitPost /\ terms' = terms
      /\ run[r] \in States /\ run[r].pc = "post" /\ TypeOK /\ RunInv(r)
  BY DEF HandlerInv, TypeOK, States, PostEnds, Goto
<1>3. PostReceipt(r) \in Receipts /\ PostReceipt(r).id = r
  BY <1>2 DEF PostReceipt, Receipts, States, RunInv
<1>4. /\ log' \in Seq(Receipts) /\ transit' \subseteq Receipts
      /\ Sent' \subseteq Sent \cup {PostReceipt(r)}
  BY <1>1, <1>2, <1>3, PostStep
<1>. DEFINE s == [run[r] EXCEPT !.pc = "done"]
<1>5. s \in States /\ s.pc = "done" /\ s.terms = run[r].terms
  BY <1>2 DEF States
<1>6. run' = [run EXCEPT ![r] = s]
  BY <1>2
<1>7. /\ run'[r].pc = "done" /\ run'[r].pre = run[r].pre
      /\ run'[r].terms = run[r].terms /\ run'[r].tool = run[r].tool
      /\ pending'[r] = NoEntry
  BY <1>2 DEF TypeOK, States, RunInv
<1>8. RunInv(r)'
  BY <1>2, <1>7 DEF RunInv
<1>9. \A m \in Sent' : m \in Sent \/ Correlated(m)'
  BY <1>3, <1>4, <1>7 DEF Correlated, PostReceipt
<1>. HIDE DEF s
<1>10. /\ pending' \in [Runs -> {NoEntry} \cup [id: Runs]]
       /\ \A q \in Runs \ {r} : pending'[q] = pending[q]
  BY <1>2 DEF TypeOK
<1>. QED BY <1>2, <1>4, <1>5, <1>6, <1>8, <1>9, <1>10, RunMoves

\* What moves no run.
LEMMA RestKeeps ==
  ASSUME HandlerInv, (\E t \in Tools : SetToolTerms(t)) \/ Delivery \/ UNCHANGED vars
  PROVE  HandlerInv'
<1>1. TypeOK /\ run' = run /\ pending' = pending /\ emitPost' = emitPost
  BY DEF HandlerInv, SetToolTerms, Delivery, vars
<1>2. log' \in Seq(Receipts) /\ transit' \subseteq Receipts /\ Sent' = Sent
  <2>1. CASE Delivery
    BY <1>1, <2>1, DeliverStep DEF Delivery
  <2>2. CASE ~ Delivery
    BY <1>1, <2>2 DEF SetToolTerms, vars, TypeOK, Sent
  <2>. QED BY <2>1, <2>2
<1>3. terms' \in [Tools -> Tools \cup {Default}] /\ \A t \in Tools : terms'[t] \in {Default, t}
  BY <1>1 DEF SetToolTerms, Delivery, vars, TypeOK, HandlerInv
<1>4. TypeOK'
  BY <1>1, <1>2, <1>3 DEF TypeOK
<1>5. \A r \in Runs : RunInv(r)'
  BY <1>1 DEF RunInv, HandlerInv
<1>6. \A m \in Sent' : Correlated(m)'
  BY <1>1, <1>2 DEF Correlated, HandlerInv
<1>. QED BY <1>3, <1>4, <1>5, <1>6 DEF HandlerInv

LEMMA HandlerStep == HandlerInv /\ [Next]_vars => HandlerInv'
BY StartKeeps, PreKeeps, NoteKeeps, ToolKeeps, PostKeeps, RestKeeps DEF Next, Hook

LEMMA HandlerInvariant == Spec => []HandlerInv
BY HandlerStart, HandlerStep, PTL DEF Spec

\* Every variable of the handler and of the service keeps its type.
THEOREM TypeCorrect == Spec => []TypeOK
BY HandlerInvariant, PTL DEF HandlerInv

\* A receipt carries the receipt_id of the run it is about and no other tool's terms.
THEOREM ReceiptsKeepToRuns == Spec => []ReceiptsCorrelate
<1>1. HandlerInv => ReceiptsCorrelate
  <2>. SUFFICES ASSUME HandlerInv, NEW m \in Sent
                PROVE  /\ m.id = m.of
                       /\ m.terms \in {Default, run[m.of].tool}
                       /\ m.kind = "post" => m.terms = Default
    BY DEF ReceiptsCorrelate
  <2>1. Correlated(m) /\ m.of \in Runs
    BY SentType DEF HandlerInv, Receipts
  <2>2. RunInv(m.of)
    BY <2>1 DEF HandlerInv
  <2>. QED BY <2>1, <2>2 DEF Correlated, RunInv
<1>. QED BY <1>1, HandlerInvariant, PTL

\* No entry outlasts the tool whose run it belongs to.
THEOREM NoEntryOutlasts == Spec => []PendingOnlyRunning
<1>1. HandlerInv => PendingOnlyRunning
  BY DEF HandlerInv, RunInv, PendingOnlyRunning
<1>. QED BY <1>1, HandlerInvariant, PTL

-----------------------------------------------------------------------------
(* The audit trail.                                                        *)

AuditLog == [i \in DOMAIN log |-> Audited(log[i])]
AuditTransit == {Audited(m) : m \in transit}
AuditStage == [r \in Runs |-> Stage(r)]

\* What has been sent is known by its kind and its receipt_id.
LEMMA AuditedInjective ==
  ASSUME HandlerInv, NEW m \in Sent, NEW n \in Sent, Audited(m) = Audited(n)
  PROVE  m = n
<1>1. m \in Receipts /\ n \in Receipts /\ Correlated(m) /\ Correlated(n)
  BY SentType DEF HandlerInv
<1>2. m.kind = n.kind /\ m.id = n.id
  BY DEF Audited
<1>3. m.of = n.of /\ m.terms = n.terms
  BY <1>1, <1>2 DEF Correlated
<1>. QED BY <1>1, <1>2, <1>3 DEF Receipts

\* What is appended to the log is appended to the log as its reader sees it.
LEMMA AuditAppend ==
  ASSUME log \in Seq(Receipts), NEW m \in Receipts, log' = Append(log, m)
  PROVE  AuditLog' = Append(AuditLog, Audited(m))
<1>. DEFINE T == {Audited(n) : n \in Receipts}
<1>1. /\ log' \in Seq(Receipts) /\ Len(log) \in Nat /\ Len(log') = Len(log) + 1
      /\ DOMAIN log = 1 .. Len(log) /\ DOMAIN log' = 1 .. Len(log) + 1
      /\ log'[Len(log) + 1] = m /\ \A i \in 1 .. Len(log) : log'[i] = log[i]
  BY AppendToLog
<1>2. AuditLog = [i \in 1 .. Len(log) |-> Audited(log[i])]
  BY <1>1 DEF AuditLog
<1>3. AuditLog' = [i \in 1 .. Len(log) + 1 |-> Audited(log'[i])]
  BY <1>1 DEF AuditLog, Audited
<1>4. AuditLog \in Seq(T) /\ Len(AuditLog) = Len(log)
  BY <1>1, <1>2
<1>5. AuditLog' \in Seq(T) /\ Len(AuditLog') = Len(log) + 1
  BY <1>1, <1>3
<1>6. /\ Append(AuditLog, Audited(m)) \in Seq(T) /\ Len(Append(AuditLog, Audited(m))) = Len(log) + 1
      /\ Append(AuditLog, Audited(m))[Len(log) + 1] = Audited(m)
      /\ \A i \in 1 .. Len(log) : Append(AuditLog, Audited(m))[i] = AuditLog[i]
  BY <1>1, <1>4
<1>7. \A i \in 1 .. Len(log) + 1 : AuditLog'[i] = Append(AuditLog, Audited(m))[i]
  BY <1>1, <1>2, <1>3, <1>6
<1>. HIDE DEF T
<1>. QED BY <1>5, <1>6, <1>7, SeqEqual

LEMMA AuditPost ==
  ASSUME TypeOK, NEW m \in Receipts, NEW res, Post(m, res)
  PROVE  Audit!Post(Audited(m), res)
<1>1. CASE res = "answer"
  <2>1. log' = Append(log, m) /\ transit' = transit
    BY <1>1 DEF Post
  <2>2. AuditLog' = Append(AuditLog, Audited(m)) /\ AuditTransit' = AuditTransit
    BY <2>1, AuditAppend DEF TypeOK, AuditTransit, Audited
  <2>. QED BY <1>1, <2>2 DEF Audit!Post, AuditLog, AuditTransit
<1>2. CASE res # "answer"
  <2>1. log' = log /\ transit' \in {transit, transit \cup {m}}
    BY <1>2 DEF Post
  <2>2. AuditLog' = AuditLog /\ AuditTransit' \in {AuditTransit, AuditTransit \cup {Audited(m)}}
    BY <2>1 DEF AuditLog, AuditTransit, Audited
  <2>. QED BY <1>2, <2>2 DEF Audit!Post, AuditLog, AuditTransit
<1>. QED BY <1>1, <1>2

LEMMA AuditDelivery ==
  ASSUME HandlerInv, Deliver
  PROVE  Audit!Deliver
<1>1. PICK m \in transit : log' = Append(log, m) /\ transit' = transit \ {m}
  BY DEF Deliver
<1>2. m \in Receipts /\ transit \subseteq Receipts /\ log \in Seq(Receipts)
  BY <1>1 DEF HandlerInv, TypeOK
<1>3. AuditLog' = Append(AuditLog, Audited(m))
  BY <1>1, <1>2, AuditAppend
<1>4. AuditTransit' = AuditTransit \ {Audited(m)}
  <2>1. AuditTransit' = {Audited(n) : n \in transit'}
    BY DEF AuditTransit, Audited
  <2>2. \A n \in transit : Audited(n) = Audited(m) => n = m
    BY <1>1, AuditedInjective DEF Sent
  <2>. QED BY <1>1, <2>1, <2>2 DEF AuditTransit
<1>. QED BY <1>1, <1>3, <1>4 DEF Audit!Deliver, AuditLog, AuditTransit

\* A step of one run moves the receipts of that run only.
LEMMA AuditStageStep ==
  ASSUME TypeOK, NEW r \in Runs, \A q \in Runs \ {r} : run'[q] = run[q]
  PROVE  AuditStage' = [AuditStage EXCEPT ![r] = Stage(r)']
<1>1. \A q \in Runs \ {r} : Stage(q)' = Stage(q)
  BY DEF Stage
<1>2. AuditStage' = [q \in Runs |-> Stage(q)']
  BY DEF AuditStage
<1>. QED BY <1>1, <1>2 DEF AuditStage

LEMMA PreEndsAudited ==
  ASSUME HandlerInv, NEW r \in Runs, PreEnds(r)
  PROVE  Audit!Announce(r)
<1>1. PICK res \in Results :
        /\ Post(Pre(r), res)
        /\ run' = [run EXCEPT ![r].pc = IF res = "escape" THEN "tool" ELSE "note", ![r].pre = res]
  BY DEF PreEnds
<1>2. TypeOK /\ run[r].pc = "pre" /\ run[r] \in States
  BY DEF HandlerInv, PreEnds, TypeOK, States
<1>3. /\ run'[r].pre = res /\ run'[r].pc = (IF res = "escape" THEN "tool" ELSE "note")
      /\ \A q \in Runs \ {r} : run'[q] = run[q]
  BY <1>1, <1>2 DEF TypeOK, States
<1>4. AuditStage' = [AuditStage EXCEPT ![r] = Stage(r)']
  BY <1>2, <1>3, AuditStageStep
<1>5. AuditStage[r] = "fresh"
  BY <1>2 DEF AuditStage, Stage
<1>6. Stage(r)' \in IF res = "answer" THEN {"stored"} ELSE {"unsure", "closed"}
  BY <1>3 DEF Stage, Results
<1>7. Pre(r) \in Receipts /\ Audited(Pre(r)) = Audit!ReceiptOf("pre", r)
  BY <1>2 DEF Pre, Receipts, States, Audited, Audit!ReceiptOf
<1>8. Audit!Post(Audit!ReceiptOf("pre", r), res)
  BY <1>1, <1>2, <1>7, AuditPost
<1>. QED BY <1>4, <1>5, <1>6, <1>8 DEF Audit!Announce, Audit!Results, Results, AuditStage

LEMMA PostEndsAudited ==
  ASSUME HandlerInv, NEW r \in Runs, PostEnds(r)
  PROVE  Audit!Conclude(r)
<1>1. PICK res \in Results : Post(PostReceipt(r), res)
  BY DEF PostEnds
<1>2. /\ TypeOK /\ run[r].pc = "post" /\ run[r].id = r
      /\ run[r].pre \in {"answer", "IngestError"}
      /\ run' = [run EXCEPT ![r].pc = "done"]
  BY DEF HandlerInv, RunInv, PostEnds, Goto
<1>3. run'[r].pc = "done" /\ \A q \in Runs \ {r} : run'[q] = run[q]
  BY <1>2 DEF TypeOK
<1>4. AuditStage' = [AuditStage EXCEPT ![r] = Stage(r)']
  BY <1>2, <1>3, AuditStageStep
<1>5. AuditStage[r] \in {"stored", "unsure"} /\ Stage(r)' = "closed"
  BY <1>2, <1>3 DEF AuditStage, Stage
<1>6. PostReceipt(r) \in Receipts /\ Audited(PostReceipt(r)) = Audit!ReceiptOf("post", r)
  BY <1>2 DEF PostReceipt, Receipts, Audited, Audit!ReceiptOf
<1>7. Audit!Post(Audit!ReceiptOf("post", r), res)
  BY <1>1, <1>2, <1>6, AuditPost
<1>. QED BY <1>4, <1>5, <1>7 DEF Audit!Conclude, Audit!Results, Results, AuditStage

\* The end of the tool leaves the trail of its run as it is, or closes it.
LEMMA ToolAudited ==
  ASSUME HandlerInv, NEW r \in Runs, ToolEnd(r) \/ ToolError(r)
  PROVE  AuditStage' = AuditStage \/ Audit!Close(r)
<1>1. /\ TypeOK /\ run[r].pc = "tool" /\ run[r].pre \in Results
      /\ log' = log /\ transit' = transit
  BY DEF HandlerInv, RunInv, ToolEnd, ToolError
<1>2. pending[r] # NoEntry => run[r].pre # "escape"
  BY DEF HandlerInv, RunInv
<1>3. /\ \A q \in Runs \ {r} : run'[q] = run[q]
      /\ run'[r].pre = run[r].pre
      /\ run'[r].pc = "done" \/ (run'[r].pc = "post" /\ pending[r] # NoEntry)
  BY <1>1 DEF ToolEnd, ToolError, Goto, Key, TypeOK
<1>4. AuditStage' = [AuditStage EXCEPT ![r] = Stage(r)']
  BY <1>1, <1>3, AuditStageStep
<1>5. AuditStage[r] = Stage(r)
  BY DEF AuditStage
<1>6. CASE Stage(r)' = Stage(r)
  BY <1>4, <1>5, <1>6 DEF AuditStage
<1>7. CASE Stage(r)' # Stage(r)
  <2>1. Stage(r) \in {"stored", "unsure"} /\ Stage(r)' = "closed"
    BY <1>1, <1>2, <1>3, <1>7 DEF Stage, Results
  <2>2. AuditLog' = AuditLog /\ AuditTransit' = AuditTransit
    BY <1>1 DEF AuditLog, AuditTransit, Audited
  <2>. QED BY <1>4, <1>5, <2>1, <2>2 DEF Audit!Close, AuditStage, AuditLog, AuditTransit
<1>. QED BY <1>6, <1>7

\* What comes before the first POST, and the entry, are no part of the trail.
LEMMA LocalAudited ==
  ASSUME HandlerInv, NEW r \in Runs, ToolStart(r) \/ Note(r)
  PROVE  AuditStage' = AuditStage
<1>1. TypeOK /\ RunInv(r)
  BY DEF HandlerInv
<1>2. \A q \in Runs \ {r} : run'[q] = run[q]
  BY <1>1 DEF ToolStart, Note, Goto, TypeOK
<1>3. Stage(r)' = Stage(r)
  <2>1. CASE ToolStart(r)
    <3>1. PICK t \in Tools :
            run' = [run EXCEPT ![r].pc = "pre", ![r].tool = t, ![r].terms = terms[t]]
      BY <2>1 DEF ToolStart
    <3>2. run[r].pc = "idle" /\ run'[r].pc = "pre"
      BY <1>1, <2>1, <3>1 DEF ToolStart, TypeOK
    <3>. QED BY <3>2 DEF Stage
  <2>2. CASE Note(r)
    <3>1. /\ run[r].pc = "note" /\ run'[r].pc = "tool" /\ run'[r].pre = run[r].pre
          /\ run[r].pre \in {"answer", "IngestError"}
      BY <1>1, <2>2 DEF Note, Goto, TypeOK, RunInv
    <3>. QED BY <3>1 DEF Stage
  <2>. QED BY <2>1, <2>2
<1>. QED BY <1>1, <1>2, <1>3, AuditStageStep DEF AuditStage

LEMMA StepAudited ==
  ASSUME HandlerInv, [Next]_vars
  PROVE  [Audit!Next]_(Audit!auditVars)
<1>. USE DEF Audit!Next, Audit!auditVars
<1>1. ASSUME NEW r \in Runs, PreEnds(r) PROVE Audit!Next
  BY <1>1, PreEndsAudited
<1>2. ASSUME NEW r \in Runs, PostEnds(r) PROVE Audit!Next
  BY <1>2, PostEndsAudited
<1>3. ASSUME log' = log, transit' = transit, AuditStage' = AuditStage
      PROVE  UNCHANGED Audit!auditVars
  BY <1>3 DEF AuditStage, Audited
<1>4. ASSUME NEW r \in Runs, ToolStart(r) \/ Note(r) \/ ToolEnd(r) \/ ToolError(r)
      PROVE  [Audit!Next]_(Audit!auditVars)
  <2>1. log' = log /\ transit' = transit
    BY <1>4 DEF ToolStart, Note, ToolEnd, ToolError
  <2>. QED BY <1>3, <1>4, <2>1, LocalAudited, ToolAudited
<1>5. CASE Delivery
  <2>1. Audit!Deliver
    BY <1>5, AuditDelivery DEF Delivery
  <2>2. AuditStage' = AuditStage
    BY <1>5 DEF Delivery, AuditStage, Stage
  <2>. QED BY <2>1, <2>2 DEF AuditStage
<1>6. CASE (\E t \in Tools : SetToolTerms(t)) \/ UNCHANGED vars
  <2>1. run' = run /\ log' = log /\ transit' = transit
    BY <1>6 DEF SetToolTerms, vars
  <2>2. AuditStage' = AuditStage
    BY <2>1 DEF AuditStage, Stage
  <2>. QED BY <1>3, <2>1, <2>2
<1>. QED BY <1>1, <1>2, <1>4, <1>5, <1>6 DEF Next, Hook

\* The handler's receipts are an audit trail: under a receipt_id at most one of
\* each kind, the post-action one once the POST of the other is over.
THEOREM HandlerImplementsAudit == Spec => ImplementsAudit
<1>1. Init => Audit!Init
  <2>. SUFFICES ASSUME Init PROVE Audit!Init
    OBVIOUS
  <2>1. AuditLog = << >> /\ AuditTransit = {}
    BY DEF Init, AuditLog, AuditTransit
  <2>2. AuditStage = [r \in Runs |-> "fresh"]
    BY DEF Init, AuditStage, Stage, Idle
  <2>. QED BY <2>1, <2>2 DEF Audit!Init, AuditLog, AuditTransit, AuditStage
<1>2. HandlerInv /\ [Next]_vars => [Audit!Next]_(Audit!auditVars)
  BY StepAudited
<1>. QED BY <1>1, <1>2, HandlerInvariant, PTL DEF Spec, ImplementsAudit, Audit!Spec

\* What is proved of the abstract trail, for the trail of the handler's receipts.
Facts == INSTANCE ToolAuditProofs WITH
           Uses <- Runs, PostNeedsPre <- FALSE,
           log <- [i \in DOMAIN log |-> Audited(log[i])],
           transit <- {Audited(m) : m \in transit},
           stage <- [r \in Runs |-> Stage(r)]

\* Under a receipt_id the log holds at most one receipt of each kind, and none of
\* them is delivered to it a second time.
THEOREM EachReceiptOnce == Spec => []Audit!OncePerKind
<1>1. Facts!Spec => [](Facts!OncePerKind /\ Facts!PreFirst)
  BY Facts!LogIsOrdered
<1>2. Audit!Init <=> Facts!Init
  BY DEF Audit!Init, Facts!Init
<1>3. [Audit!Next]_(Audit!auditVars) <=> [Facts!Next]_(Facts!auditVars)
  BY DEF Audit!Next, Facts!Next, Audit!auditVars, Facts!auditVars,
     Audit!Announce, Facts!Announce, Audit!Conclude, Facts!Conclude, Audit!Close, Facts!Close,
     Audit!Deliver, Facts!Deliver, Audit!Post, Facts!Post, Audit!ReceiptOf, Facts!ReceiptOf,
     Audit!Results, Facts!Results
<1>4. Facts!OncePerKind <=> Audit!OncePerKind
  BY DEF Facts!OncePerKind, Audit!OncePerKind
<1>. QED
  BY <1>1, <1>2, <1>3, <1>4, HandlerImplementsAudit, PTL
     DEF ImplementsAudit, Audit!Spec, Facts!Spec
=============================================================================
