------------------------------ MODULE Marshal ------------------------------
(***************************************************************************)
(* Marshalling: values are put one after the other into a buffer that      *)
(* grows, a header is put in front, and the other side takes them out of   *)
(* what it has received.  A byte has Base values, where the code has 256,  *)
(* and Initial stands for DEFAULT_RPC_SZ; a word has four bytes, and the   *)
(* header is as long as in the code.  Buffers are sequences, and offset i  *)
(* of the code is element i + 1.                                           *)
(***************************************************************************)
EXTENDS Integers, Sequences, SequencesExt

CONSTANTS Base,         \* the values of a byte
          Initial,      \* DEFAULT_RPC_SZ
          MaxItems      \* the most arguments of a call

VARIABLES m,            \* the marshall object: buf, capa and ind
          items,        \* the arguments, in their order
          sent,         \* the words of the header, none before it is packed
          u,            \* the unmarshall object: buf, ind and ok
          got,          \* what was taken out of it: a header, and then arguments
          whole         \* whether all bytes were received

marshalVars == <<m, items, sent, u, got, whole>>

Word == Base^4
RPC_HEADER_SZ == 24

\* The types of the code with their bytes, and values at their limits.
SizeOf == [bool |-> 1, uchar |-> 1, char |-> 1, ushort |-> 2, short |-> 2,
           uint |-> 4, int |-> 4, ull |-> 8]
Signed == {"char", "short", "int"}

Type == DOMAIN SizeOf \cup {"string", "vector", "map"}

Values(type) ==
    CASE type = "bool" -> {0, 1}
      [] type \in Signed -> LET n == Base^SizeOf[type] IN {-(n \div 2), -1, n \div 2 - 1}
      [] type \in DOMAIN SizeOf \ (Signed \cup {"bool"}) ->
            LET n == Base^SizeOf[type] IN {1, n \div 2, n - 1}
      [] type = "string" -> {<<>>, <<Base - 1>>, <<1, Base \div 2, 0>>}
      [] type = "vector" -> {<<>>, <<-1, 1>>}
      [] type = "map" -> {<<>>, <<<<1, Word - 1>>, <<2, 0>>>>}

\* xid, proc, clt_nonce, srv_nonce and xid_rep of a request; xid and ret of a reply.
Headers == {<<1, Base, Word - 1, 0, Word \div 2 - 1>>, <<Word \div 2, Base>>}

-----------------------------------------------------------------------------
(***************************************************************************)
(* marshall.                                                               *)
(***************************************************************************)

\* The capacity after a call of rawbytes that needs more.
Grown(capa, n) == IF capa > n THEN 2 * capa ELSE capa + n

\* rawbyte for each byte of s: the capacity is doubled whenever it is reached.
rawbyte(o, s) ==
    LET end == o.ind + Len(s)
        Enough(k) == o.capa * 2^k >= end
    IN  [buf |-> SubSeq(o.buf, 1, o.ind) \o s \o SubSeq(o.buf, end + 1, Len(o.buf)),
         capa |-> o.capa * 2^(CHOOSE k \in 0..Len(s) : Enough(k) /\ (k = 0 \/ ~Enough(k - 1))),
         ind |-> end]

rawbytes(o, s) ==
    [buf |-> o.buf \o s,
     capa |-> IF o.ind + Len(s) > o.capa THEN Grown(o.capa, Len(s)) ELSE o.capa,
     ind |-> o.ind + Len(s)]

\* An integer as n bytes, the highest one first: the operators << and pack.
bytes(n, x) == [i \in 1..n |-> (x \div Base^(n - i)) % Base]

\* Words in a row, as in a vector, a map or a header.
words(s) == [i \in 1..(4 * Len(s)) |-> bytes(4, s[((i - 1) \div 4) + 1])[((i - 1) % 4) + 1]]

put(o, item) ==
    CASE item.type \in DOMAIN SizeOf -> rawbyte(o, bytes(SizeOf[item.type], item.val))
      [] item.type = "string" -> rawbytes(rawbyte(o, bytes(4, Len(item.val))), item.val)
      [] item.type = "vector" -> rawbyte(o, words(<<Len(item.val)>> \o item.val))
      [] item.type = "map" -> rawbyte(o, words(<<Len(item.val)>> \o FlattenSeq(item.val)))

\* pack_req_header and pack_reply_header; the connection fills in the size in front.
pack_header(o, s) == [rawbyte([o EXCEPT !.ind = 4], words(s)) EXCEPT !.ind = o.ind]

-----------------------------------------------------------------------------
(***************************************************************************)
(* unmarshall.  An operation gives the object after it and the value x.    *)
(***************************************************************************)

\* The char of rawbyte as a word: its sign is extended.
extended(c) == IF c >= Base \div 2 THEN Word - Base + c ELSE c

\* Mutant of mask: the extended sign is left in.
mask_none(x) == x

\* x & 0xff.
mask(x) == x % Base

\* The number in n bytes behind the next at: a missing byte counts as zero.
number(o, at, n) ==
    LET value[i \in 0..n] ==
            IF i = 0 THEN 0
            ELSE value[i - 1] * Base
                 + (IF o.ind + at + i <= Len(o.buf) THEN mask(extended(o.buf[o.ind + at + i])) ELSE 0)
    IN  value[n]

\* Mutant of passed: it does not say that bytes are missing.
passed_ok(o, n) == [o EXCEPT !.ind = Max({@, Min({@ + n, Len(o.buf)})})]

\* rawbyte n times: the object is not ok any more when a byte is missing.
passed(o, n) ==
    [o EXCEPT !.ind = Max({@, Min({@ + n, Len(o.buf)})}),
              !.ok = @ /\ (n = 0 \/ o.ind + n <= Len(o.buf))]

take_uint(o, n) == [u |-> passed(o, n), x |-> number(o, 0, n)]

\* A bool is true when the word is not zero, and a signed type takes its sign
\* from the highest bit.
typed(type, x) ==
    LET n == Base^SizeOf[type]
    IN  IF type = "bool" THEN IF x = 0 THEN 0 ELSE 1
        ELSE IF type \in Signed /\ x >= n \div 2 THEN x - n ELSE x

take_int(o, type) ==
    LET r == take_uint(o, SizeOf[type]) IN [u |-> r.u, x |-> typed(type, r.x)]

\* The next n words.
take_words(o, n) ==
    [u |-> passed(o, 4 * n), x |-> [i \in 1..n |-> number(o, 4 * (i - 1), 4)]]

\* rawbytes: the sum is unsigned.
take_bytes(o, n) ==
    IF (o.ind + n) % Word > Len(o.buf) THEN [u |-> [o EXCEPT !.ok = FALSE], x |-> <<>>]
    ELSE [u |-> [o EXCEPT !.ind = @ + n], x |-> SubSeq(o.buf, o.ind + 1, o.ind + n)]

\* A string is not touched once its size was cut; the elements of a vector of
\* int, or of a map, are read as often as the size says.
take(o, type) ==
    LET n == take_uint(o, 4)
        v == take_words(n.u, n.x)
        p == take_words(n.u, 2 * n.x)
    IN  CASE type \in DOMAIN SizeOf -> take_int(o, type)
          [] type = "string" -> IF n.u.ok THEN take_bytes(n.u, n.x) ELSE [u |-> n.u, x |-> <<>>]
          [] type = "vector" -> [u |-> v.u, x |-> [i \in 1..n.x |-> typed("int", v.x[i])]]
          [] type = "map" -> [u |-> p.u, x |-> [i \in 1..n.x |-> <<p.x[2 * i - 1], p.x[2 * i]>>]]

\* unpack_req_header and unpack_reply_header: n words, and then the first argument.
unpack_header(o, n) == [take_words([o EXCEPT !.ind = 4], n) EXCEPT !.u.ind = RPC_HEADER_SZ]

\* take_in: the arguments of a reply go to the object of the caller.
take_in(o) == [o EXCEPT !.ind = RPC_HEADER_SZ, !.ok = Len(o.buf) >= RPC_HEADER_SZ]

okdone(o) == o.ok /\ o.ind = Len(o.buf)

-----------------------------------------------------------------------------
(***************************************************************************)
(* A call or a reply: arguments, the header, the bytes that are received,  *)
(* and the handler or caller that takes the arguments it expects.          *)
(***************************************************************************)

Init ==
    /\ m = [buf |-> [i \in 1..RPC_HEADER_SZ |-> 0], capa |-> Initial, ind |-> RPC_HEADER_SZ]
    /\ items = <<>> /\ sent = <<>>
    /\ u = [buf |-> <<>>, ind |-> 0, ok |-> FALSE]
    /\ got = [header |-> <<>>, args |-> <<>>] /\ whole = FALSE

argument(type, val) ==
    /\ sent = <<>> /\ Len(items) < MaxItems
    /\ m' = put(m, [type |-> type, val |-> val])
    /\ items' = Append(items, [type |-> type, val |-> val])
    /\ UNCHANGED <<sent, u, got, whole>>

Received(o, n) == [buf |-> SubSeq(o.buf, 1, n), ind |-> 0, ok |-> TRUE]

\* dispatch of the first n bytes of a request, or got_pdu of a client with those
\* of a reply.
receive(h, n) ==
    /\ sent = <<>>
    /\ m' = pack_header(m, h) /\ sent' = h /\ whole' = (n = m'.ind)
    /\ LET r == unpack_header(Received(m', n), Len(h))
       IN  /\ u' = IF r.u.ok /\ Len(h) = 2 THEN take_in(r.u) ELSE r.u
           /\ got' = [got EXCEPT !.header = r.x]
    /\ UNCHANGED items

\* The next argument is taken, whether or not the object is still ok.
take_argument ==
    /\ sent # <<>> /\ Len(got.args) < Len(items)
    /\ LET r == take(u, items[Len(got.args) + 1].type)
       IN  u' = r.u /\ got' = [got EXCEPT !.args = Append(@, r.x)]
    /\ UNCHANGED <<m, items, sent, whole>>

Next ==
    \/ \E type \in Type : \E val \in Values(type) : argument(type, val)
    \/ \E h \in Headers, n \in 0..m.ind : receive(h, n)
    \/ take_argument

-----------------------------------------------------------------------------
(***************************************************************************)
(* Properties.                                                             *)
(***************************************************************************)

AllTaken == sent # <<>> /\ Len(got.args) = Len(items)

\* Every value of every type comes back as it was put in, at the limits of its
\* range and whatever stands before it, with the header; and nothing is left.
\* Nothing is written behind the capacity of the buffer, which grows in two ways.
RoundTrip ==
    /\ m.ind <= m.capa
    /\ whole => /\ got.header = sent
                /\ \A i \in DOMAIN got.args : got.args[i] = items[i].val
    /\ whole /\ AllTaken => okdone(u)

\* When bytes are missing, wherever the cut is, okdone says so at the end; it is
\* what the handlers and callers look at before they use an argument.
TruncatedRefused == AllTaken /\ ~whole => ~okdone(u)
=============================================================================
