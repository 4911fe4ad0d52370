--------------------------- MODULE LangChainHandler ---------------------------
(***************************************************************************)
(* langchain-openterms handler.py: OpenTermsCallbackHandler, shared by the *)
(* tool runs of an agent, each in a thread of its own.                     *)
(*                                                                         *)
(* LangChain calls on_tool_start, the tool, then on_tool_end or            *)
(* on_tool_error, in this order in each run; what a hook raises it logs    *)
(* and drops, since raise_error is False, so that strict, which has the    *)
(* hooks raise IngestError, makes no difference.  Steps are separated by   *)
(* the POST and by the lock around the pending table.                      *)
(***************************************************************************)
EXTENDS ReceiptIngest

CONSTANTS
  Runs,       \* tool runs; a run stands for its run_id and for the fresh receipt_id
  Anonymous,  \* the runs whose hooks are called without a run_id
  Tools,
  Default     \* the handler's terms; those set for a tool are named as the tool

ASSUME LangChainAssumption == Anonymous \subseteq Runs /\ Default \notin Tools

VARIABLES
  emitPost,  \* the handler's setting
  terms,     \* [Tools -> terms in force] (_per_tool_terms, with the default)
  pending,   \* _pending: [Runs -> entry, or NoEntry]
  run        \* [Runs -> where the run is and what its hooks hold]

vars == <<log, transit, emitPost, terms, pending, run>>

NoEntry == [id |-> "none"]
NoTool == "none"
Idle == [pc |-> "idle", tool |-> NoTool, terms |-> Default, id |-> "none", pre |-> "none"]

\* The receipts: of is the run whose input or output the receipt is about.
Pre(r) == [kind |-> "pre", id |-> r, of |-> r, terms |-> run[r].terms]
PostReceipt(r) == [kind |-> "post", id |-> run[r].id, of |-> r, terms |-> Default]

Init ==
  /\ log = << >> /\ transit = {}
  /\ emitPost \in BOOLEAN
  /\ terms = [t \in Tools |-> Default]
  /\ pending = [r \in Runs |-> NoEntry]
  /\ run = [r \in Runs |-> Idle]

Goto(r, pc) == run' = [run EXCEPT ![r].pc = pc]

SetToolTerms(t) ==
  /\ terms[t] = Default
  /\ terms' = [terms EXCEPT ![t] = t]
  /\ UNCHANGED <<log, transit, emitPost, pending, run>>

\* on_tool_start up to its POST.
ToolStart(r) ==
  /\ run[r].pc = "idle"
  /\ \E t \in Tools :
       run' = [run EXCEPT ![r].pc = "pre", ![r].tool = t, ![r].terms = terms[t]]
  /\ UNCHANGED <<log, transit, emitPost, terms, pending>>

\* Slip: the hook catches every exception as it catches IngestError.
PreEndsCatchesAll(r) ==
  /\ run[r].pc = "pre"
  /\ \E res \in Results :
       /\ Post(Pre(r), res)
       /\ run' = [run EXCEPT ![r].pc = "note", ![r].pre = res]
  /\ UNCHANGED <<emitPost, terms, pending>>

\* The POST of on_tool_start ends.  What is no IngestError leaves the hook, and
\* the run goes on without a pending entry.
PreEnds(r) ==
  /\ run[r].pc = "pre"
  /\ \E res \in Results :
       /\ Post(Pre(r), res)
       /\ run' = [run EXCEPT ![r].pc = IF res = "escape" THEN "tool" ELSE "note",
                             ![r].pre = res]
  /\ UNCHANGED <<emitPost, terms, pending>>

\* Slip: the entry is kept under the tool's name, here under one run that
\* stands for all runs of the tool.
KeyOfTool(r) == CHOOSE q \in Runs : run[q].tool = run[r].tool

\* Where the entry of run r is kept.
Key(r) == r

\* The entry is recorded, after an answer and after an IngestError alike.
Note(r) ==
  /\ run[r].pc = "note"
  /\ pending' = [pending EXCEPT ![Key(r)] = [id |-> r]]
  /\ Goto(r, "tool")
  /\ UNCHANGED <<log, transit, emitPost, terms>>

\* _pending.pop(run_id, None), for hooks called with a run_id.
Pop(r) ==
  pending' = IF r \in Anonymous THEN pending ELSE [pending EXCEPT ![Key(r)] = NoEntry]

\* Slip: on_tool_error does not drop the entry.
ToolErrorKeeps(r) ==
  /\ run[r].pc = "tool"
  /\ Goto(r, "done")
  /\ UNCHANGED <<log, transit, emitPost, terms, pending>>

ToolError(r) ==
  /\ run[r].pc = "tool"
  /\ Pop(r)
  /\ Goto(r, "done")
  /\ UNCHANGED <<log, transit, emitPost, terms>>

\* Slip: a missing entry is not noticed.
ToolEndUnchecked(r) ==
  /\ run[r].pc = "tool"
  /\ Pop(r)
  /\ IF emitPost /\ r \notin Anonymous
     THEN run' = [run EXCEPT ![r].pc = "post", ![r].id = pending[Key(r)].id]
     ELSE Goto(r, "done")
  /\ UNCHANGED <<log, transit, emitPost, terms>>

\* on_tool_end up to its POST, if there is one to make.
ToolEnd(r) ==
  /\ run[r].pc = "tool"
  /\ Pop(r)
  /\ IF emitPost /\ r \notin Anonymous /\ pending[Key(r)] # NoEntry
     THEN run' = [run EXCEPT ![r].pc = "post", ![r].id = pending[Key(r)].id]
     ELSE Goto(r, "done")
  /\ UNCHANGED <<log, transit, emitPost, terms>>

\* The POST of on_tool_end ends; whatever it raises, the run is over.
PostEnds(r) ==
  /\ run[r].pc = "post"
  /\ \E res \in Results : Post(PostReceipt(r), res)
  /\ Goto(r, "done")
  /\ UNCHANGED <<emitPost, terms, pending>>

Hook(r) == \/ ToolStart(r) \/ PreEnds(r) \/ Note(r) \/ ToolEnd(r)
           \/ ToolError(r) \/ PostEnds(r)

Delivery == Deliver /\ UNCHANGED <<emitPost, terms, pending, run>>

Next == \/ \E r \in Runs : Hook(r)
        \/ \E t \in Tools : SetToolTerms(t)
        \/ Delivery

Spec == Init /\ [][Next]_vars

-----------------------------------------------------------------------------
(* Properties.                                                             *)

Receipts == [kind: {"pre", "post"}, id: Runs, of: Runs, terms: Tools \cup {Default}]

\* The type of every variable of the handler and of the service.
TypeOK ==
  /\ log \in Seq(Receipts) /\ transit \subseteq Receipts
  /\ emitPost \in BOOLEAN
  /\ terms \in [Tools -> Tools \cup {Default}]
  /\ pending \in [Runs -> {NoEntry} \cup [id: Runs]]
  /\ run \in [Runs -> [pc: {"idle", "pre", "note", "tool", "post", "done"},
                       tool: Tools \cup {NoTool}, terms: Tools \cup {Default},
                       id: Runs \cup {"none"}, pre: Results \cup {"none"}]]

\* A post-action receipt carries the receipt_id of the run whose output it
\* hashes, however the runs interleave (handler.py:11 "with the same receipt_id
\* as the pre-action receipt").  A receipt names the default terms or those of
\* its run's tool, never those of another tool; only a pre-action receipt names
\* the tool's (handler.py:159).
ReceiptsCorrelate ==
  \A m \in Sent : /\ m.id = m.of
                  /\ m.terms \in {Default, run[m.of].tool}
                  /\ m.kind = "post" => m.terms = Default

\* An entry of a run with a run_id is there only while its tool runs: neither a
\* failure of the tool nor one of the ingest leaves it behind (handler.py:184).
PendingOnlyRunning ==
  \A r \in Runs \ Anonymous : pending[r] # NoEntry => run[r].pc = "tool"

-----------------------------------------------------------------------------
(* The audit trail.                                                        *)

\* How far the receipts of run r have got.
Stage(r) ==
  CASE run[r].pc \in {"idle", "pre"} -> "fresh"
    [] run[r].pc = "done"            -> "closed"
    [] OTHER -> CASE run[r].pre = "answer"      -> "stored"
                  [] run[r].pre = "IngestError" -> "unsure"
                  [] run[r].pre = "escape"      -> "closed"

\* A receipt as its reader correlates it, by its receipt_id.
Audited(m) == [kind |-> m.kind, use |-> m.id]

Audit == INSTANCE ToolAudit WITH
           Uses <- Runs, PostNeedsPre <- FALSE,
           log <- [i \in DOMAIN log |-> Audited(log[i])],
           transit <- {Audited(m) : m \in transit},
           stage <- [r \in Runs |-> Stage(r)]

\* Under each receipt_id the handler sends at most one receipt of each kind, the
\* post-action one after the POST of the other is over and never after one that
\* ended in what the hook does not catch.
ImplementsAudit == Audit!Spec
=============================================================================
