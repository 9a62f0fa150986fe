-------------------------------- MODULE Dns --------------------------------
(***************************************************************************)
(* link_detector.py's DNS client: the names it encodes, and its walk over  *)
(* a reply to the first record that answers the query.                     *)
(*                                                                         *)
(* A message is a sequence of cells after its header.  The cells of a name *)
(* are its bytes; a question's type and class are one cell, and of a       *)
(* record's fixed ten bytes three are kept: its type, class and length.    *)
(***************************************************************************)
EXTENDS Integers, SequencesExt

CONSTANT Raised  \* the outcome of a function that raises

ASSUME DnsAssumption == Raised \notin Nat /\ Raised \notin Seq(Nat)

A == 1
Cname == 5
Txt == 16
In == 1

-----------------------------------------------------------------------------
(***************************************************************************)
(* The resolver's side: a name is its labels, a record's owner is written  *)
(* out or is a pointer (two bytes, the first from 192 up) to the question. *)
(***************************************************************************)
\* _encode_qname()
EncodeName(labels) ==
    FlattenSeq([i \in 1..Len(labels) |-> <<Len(labels[i])>> \o labels[i]]) \o <<0>>

Owner(how, labels) == IF how = "pointer" THEN <<192, 12>> ELSE EncodeName(labels)

EncodeReply(reply) ==
    EncodeName(reply.name) \o <<0>> \o
    FlattenSeq([i \in 1..Len(reply.answers) |->
        LET a == reply.answers[i]
        IN  Owner(a.owner, reply.name) \o <<a.type, a.class, Len(a.rdata)>> \o a.rdata])

\* What the query asked for: the first record of its type and class.
Answer(reply, qtype) ==
    LET fits == {i \in 1..Len(reply.answers) :
                    reply.answers[i].type = qtype /\ reply.answers[i].class = In}
    IN  IF reply.id_ok /\ reply.rcode = 0 /\ fits # {}
        THEN reply.answers[Min(fits)].rdata ELSE Raised

-----------------------------------------------------------------------------
(***************************************************************************)
(* The client's side.                                                      *)
(***************************************************************************)
\* Mutant: a pointer is taken for a single byte.
PointerIsOneByte == 1

PointerBytes == 2

\* _skip_name(): past the pointer, or past the labels up to the empty one.
SkipName(data, offset) ==
    LET past[o \in Nat \ {0}] ==
            IF o > Len(data) THEN Raised
            ELSE IF data[o] = 0 THEN o + 1
            ELSE past[o + 1 + data[o]]
    IN  IF offset <= Len(data) /\ data[offset] >= 192
        THEN offset + PointerBytes
        ELSE past[offset]

\* The answers of _dns_query(): left of them, the next one starting at o.
FirstAnswer(data, start, count, qtype) ==
    LET found[left \in 0..count] ==
            [o \in Nat \ {0} |->
                LET at == SkipName(data, o)
                IN  IF left = 0 \/ at = Raised THEN Raised
                    ELSE IF at + 2 > Len(data) THEN Raised
                    ELSE IF data[at] = qtype /\ data[at + 1] = In
                    THEN SubSeq(data, at + 3, at + 2 + data[at + 2])
                    ELSE found[left - 1][at + 3 + data[at + 2]]]
    IN  found[count][start]

\* _dns_query(), from the datagram it receives on.
DnsQuery(reply, qtype) ==
    LET data == EncodeReply(reply)
    IN  IF ~reply.id_ok \/ reply.rcode # 0 THEN Raised
        ELSE FirstAnswer(data, SkipName(data, 1) + 1, Len(reply.answers), qtype)

\* _query_a_record(): an address is one cell.
ARecord(reply) ==
    LET rdata == DnsQuery(reply, A)
    IN  IF rdata = Raised THEN Raised
        ELSE IF Len(rdata) # 1 THEN Raised ELSE rdata[1]

\* _query_txt_record(): the first character-string, which has to be there.
TxtRecord(reply) ==
    LET rdata == DnsQuery(reply, Txt)
    IN  IF rdata = Raised THEN Raised
        ELSE IF rdata = <<>> THEN Raised ELSE rdata[1]
=============================================================================
