--------------------------- MODULE ToolAuditProofs ---------------------------
(***************************************************************************)
(* What ToolAudit promises holds of its log for any number of uses.        *)
(***************************************************************************)
EXTENDS ToolAudit, SequenceTheorems, TLAPS

-----------------------------------------------------------------------------
(* What a POST and a delivery do to the log and to what is under way.          *)

\* The log grows at its end at most.
Extends(new, old) ==
  /\ Len(old) <= Len(new)
  /\ \A i \in 1 .. Len(old) : new[i] = old[i]

\* A receipt is in the log at most once, and not while it is under way.
Once ==
  /\ \A i, j \in DOMAIN log : log[i] = log[j] => i = j
  /\ \A i \in DOMAIN log : log[i] \notin transit

LEMMA AppendToLog ==
  ASSUME NEW S, log \in Seq(S), NEW receipt \in S, log' = Append(log, receipt)
  PROVE  /\ log' \in Seq(S) /\ Extends(log', log)
         /\ DOMAIN log = 1 .. Len(log) /\ DOMAIN log' = 1 .. Len(log) + 1
         /\ Len(log) \in Nat /\ Len(log') = Len(log) + 1
         /\ log'[Len(log) + 1] = receipt
         /\ \A i \in 1 .. Len(log) : log'[i] = log[i]
BY DEF Extends

\* A POST changes nothing but what it is about, and its answer means that the
\* receipt is in the log.
LEMMA PostStep ==
  ASSUME NEW S, log \in Seq(S), transit \subseteq S,
         NEW receipt \in S, NEW res, Post(receipt, res)
  PROVE  /\ log' \in Seq(S) /\ transit' \subseteq S
         /\ Extends(log', log)
         /\ Sent \subseteq Sent' /\ Sent' \subseteq Sent \cup {receipt}
         /\ res = "answer" => \E i \in DOMAIN log' : log'[i] = receipt
<1>1. CASE res = "answer"
  <2>1. log' = Append(log, receipt) /\ transit' = transit
    BY <1>1 DEF Post
  <2>. QED BY <1>1, <2>1, AppendToLog DEF Sent
<1>2. CASE res # "answer"
  <2>1. log' = log /\ transit' \in {transit, transit \cup {receipt}}
    BY <1>2 DEF Post
  <2>. QED BY <1>2, <2>1 DEF Sent, Extends
<1>. QED BY <1>1, <1>2

\* A delivery moves one receipt to the log.
LEMMA DeliverStep ==
  ASSUME NEW S, log \in Seq(S), transit \subseteq S, Deliver
  PROVE  /\ log' \in Seq(S) /\ transit' \subseteq S
         /\ Extends(log', log)
         /\ Sent' = Sent
<1>1. PICK receipt \in transit : log' = Append(log, receipt) /\ transit' = transit \ {receipt}
  BY DEF Deliver
<1>2. receipt \in S /\ transit' \subseteq S
  BY <1>1
<1>3. /\ log' \in Seq(S) /\ Extends(log', log)
      /\ DOMAIN log = 1 .. Len(log) /\ DOMAIN log' = 1 .. Len(log) + 1
      /\ Len(log) \in Nat /\ log'[Len(log) + 1] = receipt
      /\ \A i \in 1 .. Len(log) : log'[i] = log[i]
  BY <1>1, <1>2, AppendToLog
<1>4. \A m : m \in Sent <=> m \in transit \/ \E i \in DOMAIN log : m = log[i]
  BY DEF Sent
<1>5. \A m : m \in Sent' <=> m \in transit' \/ \E i \in DOMAIN log' : m = log'[i]
  BY DEF Sent
<1>6. \A m : m \in Sent' <=> m \in Sent
  <2>. SUFFICES ASSUME NEW m PROVE m \in Sent' <=> m \in Sent
    OBVIOUS
  <2>1. (\E i \in DOMAIN log' : m = log'[i]) <=> m = receipt \/ \E i \in DOMAIN log : m = log[i]
    BY <1>3
  <2>. QED BY <1>1, <1>4, <1>5, <2>1
<1>. QED BY <1>2, <1>3, <1>6

\* A receipt that has not been sent before keeps the log free of repetitions.
LEMMA PostOnce ==
  ASSUME NEW S, log \in Seq(S), transit \subseteq S, Once,
         NEW receipt \in S, NEW res, Post(receipt, res), receipt \notin Sent
  PROVE  Once'
<1>0. receipt \notin transit /\ \A i \in DOMAIN log : log[i] # receipt
  BY DEF Sent
<1>1. CASE res = "answer"
  <2>1. log' = Append(log, receipt) /\ transit' = transit
    BY <1>1 DEF Post
  <2>. QED BY <1>0, <2>1, AppendToLog DEF Once
<1>2. CASE res # "answer"
  <2>1. log' = log /\ transit' \in {transit, transit \cup {receipt}}
    BY <1>2 DEF Post
  <2>. QED BY <1>0, <2>1 DEF Once
<1>. QED BY <1>1, <1>2

LEMMA DeliverOnce ==
  ASSUME NEW S, log \in Seq(S), transit \subseteq S, Once, Deliver
  PROVE  Once'
<1>1. PICK receipt \in transit : log' = Append(log, receipt) /\ transit' = transit \ {receipt}
  BY DEF Deliver
<1>2. \A i \in DOMAIN log : log[i] # receipt
  BY DEF Once
<1>. QED BY <1>1, <1>2, AppendToLog DEF Once

-----------------------------------------------------------------------------
(* The invariant.                                                          *)

Receipts == {ReceiptOf(kind, u) : kind \in {"pre", "post"}, u \in Uses}

AuditTypes ==
  /\ log \in Seq(Receipts) /\ transit \subseteq Receipts
  /\ stage \in [Uses -> Stages]

\* How far the receipts of a use have got tells which of them can be in the log
\* or on their way, and whether the first is stored.
Trail ==
  \A u \in Uses :
    /\ stage[u] = "fresh" => ReceiptOf("pre", u) \notin Sent
    /\ stage[u] # "closed" => ReceiptOf("post", u) \notin Sent
    /\ stage[u] = "stored" => \E i \in DOMAIN log : log[i] = ReceiptOf("pre", u)

AuditInv == AuditTypes /\ Once /\ Trail /\ PreFirst

LEMMA ReceiptsOfUses ==
  /\ \A u \in Uses : ReceiptOf("pre", u) \in Receipts /\ ReceiptOf("post", u) \in Receipts
  /\ \A u, v \in Uses : ReceiptOf("pre", u) # ReceiptOf("post", v)
  /\ \A u, v \in Uses :
       ReceiptOf("pre", u) = ReceiptOf("pre", v) \/ ReceiptOf("post", u) = ReceiptOf("post", v)
         => u = v
<1>1. \A kind, u : ReceiptOf(kind, u).kind = kind /\ ReceiptOf(kind, u).use = u
  BY DEF ReceiptOf
<1>2. \A u \in Uses : ReceiptOf("pre", u) \in Receipts /\ ReceiptOf("post", u) \in Receipts
  BY DEF Receipts
<1>3. \A u, v \in Uses : ReceiptOf("pre", u) # ReceiptOf("post", v)
  <2>. SUFFICES ASSUME NEW u \in Uses, NEW v \in Uses, ReceiptOf("pre", u) = ReceiptOf("post", v)
                PROVE  FALSE
    OBVIOUS
  <2>1. ReceiptOf("pre", u).kind = "pre" /\ ReceiptOf("post", v).kind = "post"
    BY <1>1
  <2>. QED BY <2>1
<1>4. ASSUME NEW u \in Uses, NEW v \in Uses,
             \/ ReceiptOf("pre", u) = ReceiptOf("pre", v)
             \/ ReceiptOf("post", u) = ReceiptOf("post", v)
      PROVE  u = v
  BY <1>1, <1>4
<1>. QED BY <1>2, <1>3, <1>4

\* What is in the log stays there, at its place.
LEMMA Stays ==
  ASSUME AuditTypes, log' \in Seq(Receipts), Extends(log', log)
  PROVE  /\ DOMAIN log \subseteq DOMAIN log'
         /\ \A i \in DOMAIN log : log'[i] = log[i]
BY DEF Extends, AuditTypes

\* Where the first receipt of a use is before any other of it, it stays so.
LEMMA StaysFirst ==
  ASSUME AuditTypes, log' \in Seq(Receipts), Extends(log', log), NEW u \in Uses,
         NEW i \in DOMAIN log, log[i] = ReceiptOf("pre", u),
         \A j \in DOMAIN log : log[j] = ReceiptOf("post", u) => i < j
  PROVE  /\ i \in DOMAIN log' /\ log'[i] = ReceiptOf("pre", u)
         /\ \A j \in DOMAIN log' : log'[j] = ReceiptOf("post", u) => i < j
<1>1. /\ DOMAIN log = 1 .. Len(log) /\ DOMAIN log' = 1 .. Len(log') /\ Len(log) \in Nat
      /\ Len(log') \in Nat
  BY DEF AuditTypes
<1>2. i \in DOMAIN log' /\ log'[i] = ReceiptOf("pre", u)
  BY Stays
<1>3. ASSUME NEW j \in DOMAIN log', log'[j] = ReceiptOf("post", u) PROVE i < j
  <2>1. CASE j \in DOMAIN log
    BY <1>3, <2>1, Stays
  <2>2. CASE j \notin DOMAIN log
    BY <1>1, <2>2
  <2>. QED BY <2>1, <2>2
<1>. QED BY <1>2, <1>3

LEMMA AuditStart == Init => AuditInv
<1>. SUFFICES ASSUME Init PROVE AuditInv
  OBVIOUS
<1>1. log = << >> /\ DOMAIN log = {} /\ transit = {} /\ Sent = {}
  BY DEF Init, Sent
<1>2. AuditTypes /\ \A u \in Uses : stage[u] = "fresh"
  BY <1>1 DEF Init, AuditTypes, Stages
<1>3. Once /\ Trail /\ PreFirst
  BY <1>1, <1>2 DEF Once, Trail, PreFirst
<1>. QED BY <1>2, <1>3 DEF AuditInv

\* A step of the second receipt finds the first one stored, if it must be.
LEMMA AuditAnnounce ==
  ASSUME AuditInv, NEW u \in Uses, Announce(u)
  PROVE  AuditInv'
<1>1. PICK res \in Results :
        /\ Post(ReceiptOf("pre", u), res)
        /\ \E s \in IF res = "answer" THEN {"stored"} ELSE {"unsure", "closed"} :
             stage' = [stage EXCEPT ![u] = s]
  BY DEF Announce
<1>2. stage[u] = "fresh" /\ ReceiptOf("pre", u) \notin Sent /\ ReceiptOf("post", u) \notin Sent
  BY DEF Announce, AuditInv, Trail
<1>3. /\ log \in Seq(Receipts) /\ transit \subseteq Receipts /\ ReceiptOf("pre", u) \in Receipts
      /\ stage \in [Uses -> Stages]
  BY ReceiptsOfUses DEF AuditInv, AuditTypes
<1>4. /\ log' \in Seq(Receipts) /\ transit' \subseteq Receipts /\ Extends(log', log)
      /\ Sent' \subseteq Sent \cup {ReceiptOf("pre", u)}
      /\ res = "answer" => \E i \in DOMAIN log' : log'[i] = ReceiptOf("pre", u)
  BY <1>1, <1>3, PostStep
<1>5. /\ stage' \in [Uses -> Stages]
      /\ stage'[u] # "fresh" /\ (stage'[u] = "stored" => res = "answer")
      /\ \A v \in Uses \ {u} : stage'[v] = stage[v]
  BY <1>1, <1>3 DEF Stages
<1>6. AuditTypes'
  BY <1>4, <1>5 DEF AuditTypes
<1>7. Once'
  BY <1>1, <1>2, <1>3, PostOnce DEF AuditInv
<1>8. \A v \in Uses : ReceiptOf("post", v) \in Sent' => ReceiptOf("post", v) \in Sent
  BY <1>4, ReceiptsOfUses
<1>9. Trail'
  <2>. SUFFICES ASSUME NEW v \in Uses
                PROVE  /\ stage'[v] = "fresh" => ReceiptOf("pre", v) \notin Sent'
                       /\ stage'[v] # "closed" => ReceiptOf("post", v) \notin Sent'
                       /\ stage'[v] = "stored" =>
                            \E i \in DOMAIN log' : log'[i] = ReceiptOf("pre", v)
    BY DEF Trail, ReceiptOf
  <2>1. CASE v = u
    BY <1>2, <1>4, <1>5, <1>8, <2>1
  <2>2. CASE v # u
    <3>1. ReceiptOf("pre", v) \in Sent' => ReceiptOf("pre", v) \in Sent
      BY <1>4, <2>2, ReceiptsOfUses
    <3>2. stage'[v] = stage[v]
      BY <1>5, <2>2
    <3>. QED BY <1>4, <1>8, <3>1, <3>2, Stays DEF AuditInv, Trail
  <2>. QED BY <2>1, <2>2
<1>10. PreFirst'
  BY <1>4, <1>8, StaysFirst DEF AuditInv, PreFirst, ReceiptOf
<1>. QED BY <1>6, <1>7, <1>9, <1>10 DEF AuditInv

LEMMA AuditConclude ==
  ASSUME AuditInv, NEW u \in Uses, Conclude(u)
  PROVE  AuditInv'
<1>1. PICK res \in Results : Post(ReceiptOf("post", u), res)
  BY DEF Conclude
<1>2. /\ stage[u] \in {"stored", "unsure"} /\ (PostNeedsPre => stage[u] = "stored")
      /\ ReceiptOf("post", u) \notin Sent
  BY DEF Conclude, AuditInv, Trail
<1>3. /\ log \in Seq(Receipts) /\ transit \subseteq Receipts /\ ReceiptOf("post", u) \in Receipts
      /\ stage \in [Uses -> Stages]
  BY ReceiptsOfUses DEF AuditInv, AuditTypes
<1>4. /\ log' \in Seq(Receipts) /\ transit' \subseteq Receipts /\ Extends(log', log)
      /\ Sent' \subseteq Sent \cup {ReceiptOf("post", u)}
  BY <1>1, <1>3, PostStep
<1>5. /\ stage' \in [Uses -> Stages] /\ stage'[u] = "closed"
      /\ \A v \in Uses \ {u} : stage'[v] = stage[v]
  BY <1>3 DEF Conclude, Stages
<1>6. AuditTypes'
  BY <1>4, <1>5 DEF AuditTypes
<1>7. Once'
  BY <1>1, <1>2, <1>3, PostOnce DEF AuditInv
<1>8. \A v \in Uses : /\ ReceiptOf("pre", v) \in Sent' => ReceiptOf("pre", v) \in Sent
                      /\ ReceiptOf("post", v) \in Sent' /\ v # u => ReceiptOf("post", v) \in Sent
  BY <1>4, ReceiptsOfUses
<1>9. Trail'
  <2>. SUFFICES ASSUME NEW v \in Uses, stage'[v] # "closed"
                PROVE  /\ stage'[v] = "fresh" => ReceiptOf("pre", v) \notin Sent'
                       /\ ReceiptOf("post", v) \notin Sent'
                       /\ stage'[v] = "stored" =>
                            \E i \in DOMAIN log' : log'[i] = ReceiptOf("pre", v)
    BY DEF Trail, ReceiptOf
  <2>1. v # u /\ stage'[v] = stage[v]
    BY <1>5
  <2>. QED BY <1>4, <1>8, <2>1, Stays DEF AuditInv, Trail
<1>10. PreFirst'
  <2>. SUFFICES ASSUME PostNeedsPre, NEW v \in Uses, ReceiptOf("post", v) \in Sent'
                PROVE  \E i \in DOMAIN log' :
                         /\ log'[i] = ReceiptOf("pre", v)
                         /\ \A j \in DOMAIN log' : log'[j] = ReceiptOf("post", v) => i < j
    BY DEF PreFirst, ReceiptOf
  <2>1. PICK i \in DOMAIN log :
          /\ log[i] = ReceiptOf("pre", v)
          /\ \A j \in DOMAIN log : log[j] = ReceiptOf("post", v) => i < j
    <3>1. CASE v = u
      <4>1. \A j \in DOMAIN log : log[j] # ReceiptOf("post", u)
        BY <1>2 DEF Sent
      <4>. QED BY <1>2, <3>1, <4>1 DEF AuditInv, Trail
    <3>2. CASE v # u
      BY <1>8, <3>2 DEF AuditInv, PreFirst
    <3>. QED BY <3>1, <3>2
  <2>. QED BY <1>4, <2>1, StaysFirst DEF AuditInv
<1>. QED BY <1>6, <1>7, <1>9, <1>10 DEF AuditInv

LEMMA AuditClose ==
  ASSUME AuditInv, NEW u \in Uses, Close(u)
  PROVE  AuditInv'
<1>1. /\ stage \in [Uses -> Stages] /\ stage' = [stage EXCEPT ![u] = "closed"]
      /\ log' = log /\ transit' = transit /\ Sent' = Sent
  BY DEF AuditInv, AuditTypes, Close, Sent
<1>2. /\ stage' \in [Uses -> Stages] /\ stage'[u] = "closed"
      /\ \A v \in Uses \ {u} : stage'[v] = stage[v]
  BY <1>1 DEF Stages
<1>3. AuditTypes' /\ Once' /\ PreFirst'
  BY <1>1, <1>2 DEF AuditInv, AuditTypes, Once, PreFirst, ReceiptOf
<1>4. Trail'
  BY <1>1, <1>2 DEF AuditInv, Trail, ReceiptOf
<1>. QED BY <1>3, <1>4 DEF AuditInv

LEMMA AuditDeliver ==
  ASSUME AuditInv, Deliver, UNCHANGED stage
  PROVE  AuditInv'
<1>1. /\ log' \in Seq(Receipts) /\ transit' \subseteq Receipts /\ Extends(log', log) /\ Sent' = Sent
  BY DeliverStep DEF AuditInv, AuditTypes
<1>2. AuditTypes'
  BY <1>1 DEF AuditInv, AuditTypes
<1>3. Once'
  BY DeliverOnce DEF AuditInv, AuditTypes
<1>4. Trail'
  BY <1>1, Stays DEF AuditInv, Trail, ReceiptOf
<1>5. PreFirst'
  BY <1>1, StaysFirst DEF AuditInv, PreFirst, ReceiptOf
<1>. QED BY <1>2, <1>3, <1>4, <1>5 DEF AuditInv

LEMMA AuditStep == AuditInv /\ [Next]_auditVars => AuditInv'
<1>. SUFFICES ASSUME AuditInv, [Next]_auditVars PROVE AuditInv'
  OBVIOUS
<1>1. CASE UNCHANGED auditVars
  BY <1>1 DEF auditVars, AuditInv, AuditTypes, Once, Trail, PreFirst, Sent, ReceiptOf
<1>2. CASE Next
  BY <1>2, AuditAnnounce, AuditConclude, AuditClose, AuditDeliver DEF Next
<1>. QED BY <1>1, <1>2

\* The log that ToolAudit describes holds no receipt twice, and no post-action
\* receipt before its pre-action one where the second depends on the first.
THEOREM LogIsOrdered == Spec => [](OncePerKind /\ PreFirst)
<1>1. AuditInv => OncePerKind /\ PreFirst
  BY DEF AuditInv, Once, OncePerKind
<1>. QED BY <1>1, AuditStart, AuditStep, PTL DEF Spec
=============================================================================
