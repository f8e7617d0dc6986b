--------------------------- MODULE MCContextWorker ---------------------------
(***************************************************************************)
(* Instances of ContextWorker for TLC: two threads, two modules, two types *)
(* of which the name of one is a suffix of the other's.                    *)
(***************************************************************************)
EXTENDS ContextWorker

CONSTANTS t1, t2, a, b, short, long

OneSuffix == {<<short, short>>, <<long, long>>, <<short, long>>}

\* A message handler and a subscription event for each name.  The message handler of
\* the short name responds.
FourHandlers ==
  <<[cache |-> "message", type |-> long, responds |-> FALSE],
    [cache |-> "subscription", type |-> long, responds |-> TRUE],
    [cache |-> "subscription", type |-> short, responds |-> TRUE],
    [cache |-> "message", type |-> short, responds |-> TRUE]>>

From(m, kind, type) ==
  [endpoint |-> m, message |-> [sender |-> m, kind |-> kind, type |-> type]]

Datagrams ==
  {From(a, "request", long), From(b, "request", short), From(b, "subscription", long),
   From(a, "subscription", short)}
=============================================================================
