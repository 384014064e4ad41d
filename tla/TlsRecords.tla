------------------------------ MODULE TlsRecords ------------------------------
(***************************************************************************)
(* tlsRecordParser and recordObservingConn of go-tls13-executor: the bytes *)
(* of one direction of a connection arrive in pieces of any size and are   *)
(* counted as TLS records. A header takes HeaderBytes bytes (5 in the      *)
(* code) and ends with the length of what follows; a length above          *)
(* LengthLimit (18432) makes the parser drop what it holds.                *)
(***************************************************************************)
EXTENDS Integers, Sequences, SequencesExt

CONSTANTS HeaderBytes, LengthLimit,
          MaxRecords     \* bound: records on the wire

ASSUME RecordsAssumption == HeaderBytes \in Nat \ {0} /\ LengthLimit \in Nat

VARIABLES wire,      \* bytes yet to arrive
          lengths,   \* the lengths of all the records, as sent
          fed,       \* bytes that have arrived
          parser     \* pending bytes, records counted, bytes counted

recordVars == << wire, lengths, fed, parser >>

(* A record on the wire; only the last byte of its header matters. *)
Wire(length) == [i \in 1 .. HeaderBytes |-> IF i = HeaderBytes THEN length ELSE 0]
                \o [i \in 1 .. length |-> 0]
Size(length) == HeaderBytes + length

RecordsInit ==
  /\ lengths \in UNION {[1 .. n -> 0 .. LengthLimit + 1] : n \in 0 .. MaxRecords}
  /\ wire = FlattenSeq([i \in DOMAIN lengths |-> Wire(lengths[i])])
  /\ fed = 0 /\ parser = [pending |-> << >>, count |-> 0, bytes |-> 0]

(* feed: takes whole records off the front of what is held. *)
wholeStrict(pending) ==
  Len(pending) >= HeaderBytes /\ pending[HeaderBytes] < LengthLimit
  /\ Len(pending) >= HeaderBytes + pending[HeaderBytes]
whole(pending) ==
  Len(pending) >= HeaderBytes /\ pending[HeaderBytes] <= LengthLimit
  /\ Len(pending) >= HeaderBytes + pending[HeaderBytes]
excessive(pending) == Len(pending) >= HeaderBytes /\ pending[HeaderBytes] > LengthLimit

takeRecord(p) ==
  LET n == HeaderBytes + p.pending[HeaderBytes] IN
  [pending |-> SubSeq(p.pending, n + 1, Len(p.pending)), count |-> p.count + 1,
   bytes |-> p.bytes + n]

feed(p, value) ==
  LET loop[q \in [pending : Seq(Nat), count : Nat, bytes : Nat]] ==
        CASE excessive(q.pending) -> [q EXCEPT !.pending = << >>]
          [] ~excessive(q.pending) /\ whole(q.pending) -> loop[takeRecord(q)]
          [] ~excessive(q.pending) /\ ~whole(q.pending) -> q
  IN loop[[p EXCEPT !.pending = @ \o value]]

(* recordObservingConn.Read and Write: what the connection moved is fed. *)
Observe ==
  \E n \in 0 .. Len(wire) :
    /\ parser' = feed(parser, SubSeq(wire, 1, n))
    /\ wire' = SubSeq(wire, n + 1, Len(wire)) /\ fed' = fed + n
    /\ UNCHANGED lengths

RecordsNext == Observe
RecordsSpec == RecordsInit /\ [][RecordsNext]_recordVars

Total(n) == FoldLeft(LAMBDA sum, length : sum + Size(length), 0, SubSeq(lengths, 1, n))

(* However the bytes are cut into reads, the observer has counted exactly   *)
(* the records that have arrived whole and their bytes, and holds the rest, *)
(* as long as no header with an excessive length has arrived (which ends    *)
(* the TLS connection as well).                                             *)
RecordsAreCounted ==
  \A n \in 0 .. Len(lengths) :
    /\ Total(n) <= fed /\ (n < Len(lengths) => fed < Total(n + 1))
    /\ \A i \in 1 .. n : lengths[i] <= LengthLimit
    /\ n < Len(lengths) /\ fed >= Total(n) + HeaderBytes => lengths[n + 1] <= LengthLimit
    => parser.count = n /\ parser.bytes = Total(n) /\ Len(parser.pending) = fed - Total(n)
=============================================================================
