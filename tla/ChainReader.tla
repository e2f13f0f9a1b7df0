---------------------------- MODULE ChainReader ----------------------------
(***************************************************************************)
(* Tamper-evident receipts (domain/model.py): a producer signs each batch  *)
(* as a hash chain and ships it; a gate that requires signatures, or a     *)
(* consumer that pages through the store, reads the records back and       *)
(* verifies the chain, which may have lost rows, gained copies of them or  *)
(* come back in another order.                                             *)
(*                                                                         *)
(* A MAC is the triple it authenticates: the key, the record and the MAC   *)
(* before it.  Nobody without the key makes one.                           *)
(***************************************************************************)
EXTENDS Readback

CONSTANTS
  Batches        \* the lengths of the batches shipped under the correlation id

ASSUME ChainAssumption == Batches \in Seq(Nat \ {0}) /\ Batches # <<>>

VARIABLES
  evolve,        \* the key is ratcheted forward at each record
  shipped,       \* batches shipped so far
  anchored,      \* the verifier knows the length and the last MAC of the first batch
  authentic      \* what verify_chain said, or None

chainVars == <<evolve, shipped, anchored, authentic>>

\* _evolve, n - 1 times: the key of the n-th record.
KeyOf(n) == IF evolve THEN n ELSE 1

\* What stands for the MAC before the first one: the empty string.
Genesis == <<>>

\* sign_chain: every batch starts a chain of its own.
SignChain(b) ==
  LET mac[n \in 1 .. Batches[b]] ==
        <<KeyOf(n), <<b, n>>, IF n = 1 THEN Genesis ELSE mac[n - 1]>>
  IN  [n \in 1 .. Batches[b] |->
        [kind |-> "chained", ship |-> 0, body |-> <<b, n>>,
         prev |-> mac[n][3], mac |-> mac[n]]]

\* Mutants: the MACs are verified, the links are not; a chain as long as expected
\* is taken for a short one.
VerifyMacs(records, lengths, heads) ==
  /\ \A n \in DOMAIN records : records[n].mac = <<KeyOf(n), records[n].body, records[n].prev>>
  /\ \A length \in lengths : Len(records) >= length
  /\ \A head \in heads : records # <<>> /\ records[Len(records)].mac = head
VerifyLonger(records, lengths, heads) ==
  /\ \A n \in DOMAIN records :
       /\ records[n].prev = IF n = 1 THEN Genesis ELSE records[n - 1].mac
       /\ records[n].mac = <<KeyOf(n), records[n].body, records[n].prev>>
  /\ \A length \in lengths : Len(records) > length
  /\ \A head \in heads : records # <<>> /\ records[Len(records)].mac = head

\* verify_chain over records, against what is expected of their number and of the
\* last MAC: expect_len and expect_head as sets, empty when nothing is expected.
VerifyChain(records, lengths, heads) ==
  /\ \A n \in DOMAIN records :
       /\ records[n].prev = IF n = 1 THEN Genesis ELSE records[n - 1].mac
       /\ records[n].mac = <<KeyOf(n), records[n].body, records[n].prev>>
  /\ \A length \in lengths : Len(records) >= length
  /\ \A head \in heads : records # <<>> /\ records[Len(records)].mac = head

ChainInit ==
  /\ evolve \in BOOLEAN
  /\ shipped = 0
  /\ anchored \in BOOLEAN
  /\ authentic = None

ShipChain ==
  /\ shipped < Len(Batches)
  /\ read = None /\ answer = None
  /\ shipped' = shipped + 1
  /\ \E raised \in BOOLEAN : Ship(SignChain(shipped + 1), raised)
  /\ UNCHANGED <<evolve, anchored, authentic>>

ReadChain ==
  /\ shipped > 0
  /\ \E paged \in BOOLEAN : BeginRead(paged, shown)
  /\ UNCHANGED chainVars

Records == LET rows == StreamOrder(answer.events) IN [n \in DOMAIN rows |-> log[rows[n]]]

CheckChain ==
  /\ answer # None
  /\ authentic = None
  /\ ~answer.raised
  /\ authentic' =
       IF anchored THEN VerifyChain(Records, {Batches[1]}, {SignChain(1)[Batches[1]].mac})
       ELSE VerifyChain(Records, {}, {})
  /\ UNCHANGED <<readback, evolve, shipped, anchored>>

-----------------------------------------------------------------------------
ChainOK ==
  /\ evolve \in BOOLEAN /\ anchored \in BOOLEAN
  /\ shipped \in 0 .. Len(Batches)
  /\ authentic \in BOOLEAN \cup {None}

\* An intact chain is a prefix of one signed batch, each record once and in the
\* order of signing, whatever the store lost, repeated or reordered; with the
\* anchor it is the whole of the first batch.
AuthenticIsPrefix ==
  authentic = TRUE =>
    LET bodies == [n \in DOMAIN Records |-> Records[n].body]
    IN  /\ \E b \in DOMAIN Batches :
             /\ Len(bodies) <= Batches[b]
             /\ \A n \in DOMAIN bodies : bodies[n] = <<b, n>>
        /\ anchored => Len(bodies) = Batches[1] /\ bodies[1] = <<1, 1>>

\* And it is no stricter than that: the first batch read back whole, once and in
\* order, is authentic.
WholeChainIsAuthentic ==
  authentic = FALSE =>
    ~(Len(Records) = Batches[1] /\ \A n \in DOMAIN Records : Records[n].body = <<1, n>>)

\* A chain is authentic when, and only when, it is what was signed.
ChainIsExact == AuthenticIsPrefix /\ WholeChainIsAuthentic
=============================================================================
