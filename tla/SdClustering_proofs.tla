------------------------ MODULE SdClustering_proofs ------------------------
(***************************************************************************)
(* Proofs about what SD messages say, for any services, endpoints, batches *)
(* and widths of the indices.                                              *)
(*                                                                         *)
(* A batch of any length is merged by a recursive function.  That it       *)
(* exists, and what it preserves, is proved by induction, which is derived *)
(* here from the well-foundedness of the order of the numbers.             *)
(***************************************************************************)
EXTENDS SdClustering, FiniteSetTheorems, SequenceTheorems, WellFoundedInduction, TLAPS

-----------------------------------------------------------------------------
(* Induction.                                                              *)

Below == {p \in Nat \X Nat : p[1] < p[2]}

LEMMA BelowIsWellFounded == IsWellFoundedOn(Below, Nat)
  BY NatLessThanWellFounded DEF OpToRel, Below

LEMMA LeastNumber ==
  ASSUME NEW T \in SUBSET Nat, T # {}
  PROVE  \E x \in T : \A y \in T : x <= y
<1>1. PICK x \in T : \A y \in T : <<y, x>> \notin Below
  BY BelowIsWellFounded, WFMin, Zenon
<1>2. ASSUME NEW y \in T PROVE x <= y
  <2>1. <<y, x>> \in Nat \X Nat /\ <<y, x>>[1] = y /\ <<y, x>>[2] = x
    OBVIOUS
  <2>2. ~(y < x)
    BY <1>1, <2>1 DEF Below
  <2> QED BY <2>2
<1> QED BY <1>2

LEMMA SetInduction ==
  ASSUME NEW S, 0 \in S, \A n \in Nat : n \in S => n + 1 \in S
  PROVE  Nat \subseteq S
<1> SUFFICES ASSUME Nat \ S # {} PROVE FALSE
  OBVIOUS
<1>1. PICK x \in Nat \ S : \A y \in Nat \ S : x <= y
  BY LeastNumber
<1>2. x # 0 /\ x - 1 \in Nat
  BY <1>1
<1>3. x - 1 \in S
  BY <1>1, <1>2
<1> QED BY <1>1, <1>2, <1>3

-----------------------------------------------------------------------------
(* What the reader finds for an entry.                                     *)

\* What the widths are.
LEMMA Widths ==
  IndexMax \in Nat /\ TtlMax \in Nat \ {0} /\ ConfiguredTtl \in Nat \ {0}
  BY ClusteringAssumption

\* Every service is offered at a port.
LEMMA Ports ==
  ASSUME NEW s \in Services
  PROVE  /\ endpoints[s]["udp"] \in Nat /\ endpoints[s]["tcp"] \in Nat
         /\ endpoints[s]["udp"] # 0 \/ endpoints[s]["tcp"] # 0
  BY ClusteringAssumption DEF Protocols

Entries == [type : Types, thing : Things, ttl : 0..TtlMax, index : 0..IndexMax, count : 0..2]

LEMMA HitsAreNumbers ==
  ASSUME NEW e \in Entries, NEW o \in Seq(Option), NEW p \in Protocols
  PROVE  Hits(e, o, p) \in SUBSET Nat
  BY Widths DEF Hits, Entries

\* The first of the hits, which the choice finds.
LEMMA FirstHit ==
  ASSUME NEW e \in Entries, NEW o \in Seq(Option), NEW p \in Protocols,
         NEW i \in Hits(e, o, p), \A j \in Hits(e, o, p) : i <= j
  PROVE  EndpointOf(e, o, p) = o[i].port
<1> DEFINE first == CHOOSE k \in Hits(e, o, p) : \A j \in Hits(e, o, p) : k <= j
<1>1. first \in Hits(e, o, p) /\ \A j \in Hits(e, o, p) : first <= j
  OBVIOUS
<1>2. first = i
  <2> HIDE DEF first
  <2>1. first <= i /\ i <= first
    BY <1>1
  <2> QED BY <2>1, <1>1, HitsAreNumbers
<1> QED BY <1>2 DEF EndpointOf

LEMMA NoHit ==
  ASSUME NEW e, NEW o, NEW p, Hits(e, o, p) = {}
  PROVE  EndpointOf(e, o, p) = 0
  BY DEF EndpointOf

\* Options that are added behind the run of an entry do not matter to it.
LEMMA PrefixEndpoint ==
  ASSUME NEW e \in Entries, NEW o1 \in Seq(Option), NEW o2 \in Seq(Option),
         e.index + e.count <= Len(o1), NEW p \in Protocols
  PROVE  EndpointOf(e, o1 \o o2, p) = EndpointOf(e, o1, p)
<1>1. /\ o1 \o o2 \in Seq(Option)
      /\ \A i \in 1..Len(o1) : i \in DOMAIN (o1 \o o2) /\ (o1 \o o2)[i] = o1[i]
  OBVIOUS
<1>2. Hits(e, o1 \o o2, p) = Hits(e, o1, p)
  <2>1. \A i \in (e.index + 1)..(e.index + e.count) : i \in 1..Len(o1)
    BY Widths DEF Entries
  <2> QED BY <2>1, <1>1 DEF Hits
<1>3. CASE Hits(e, o1, p) = {}
  BY <1>2, <1>3, NoHit
<1>4. CASE Hits(e, o1, p) # {}
  <2>1. PICK i \in Hits(e, o1, p) : \A j \in Hits(e, o1, p) : i <= j
    BY <1>4, HitsAreNumbers, LeastNumber
  <2>2. i \in 1..Len(o1)
    BY DEF Hits
  <2>3. EndpointOf(e, o1, p) = o1[i].port
    BY <2>1, FirstHit
  <2>4. EndpointOf(e, o1 \o o2, p) = (o1 \o o2)[i].port
    BY <2>1, <1>1, <1>2, FirstHit
  <2> QED BY <2>2, <2>3, <2>4, <1>1
<1> QED BY <1>3, <1>4

\* An entry whose run starts at 0 finds the same when its options are put
\* behind others and its index is their number.
LEMMA ShiftedEndpoint ==
  ASSUME NEW e \in Entries, NEW o1 \in Seq(Option), NEW o2 \in Seq(Option),
         e.index = 0, e.count <= Len(o2), Len(o1) <= IndexMax, NEW p \in Protocols
  PROVE  EndpointOf([e EXCEPT !.index = Len(o1)], o1 \o o2, p) = EndpointOf(e, o2, p)
<1> DEFINE f == [e EXCEPT !.index = Len(o1)]
<1>1. /\ o1 \o o2 \in Seq(Option)
      /\ Len(o1) \in Nat
      /\ \A i \in 1..Len(o2) : /\ i + Len(o1) \in DOMAIN (o1 \o o2)
                               /\ (o1 \o o2)[i + Len(o1)] = o2[i]
  OBVIOUS
<1>2. f \in Entries /\ f.index = Len(o1) /\ f.count = e.count
  BY <1>1, Widths DEF Entries
<1> HIDE DEF f
<1>3. \A i \in Hits(e, o2, p) : i \in 1..Len(o2) /\ i + Len(o1) \in Hits(f, o1 \o o2, p)
  BY <1>1, <1>2 DEF Hits, Entries
<1>4. \A j \in Hits(f, o1 \o o2, p) :
         j - Len(o1) \in Hits(e, o2, p) /\ j = (j - Len(o1)) + Len(o1)
  <2> TAKE j \in Hits(f, o1 \o o2, p)
  <2>1. j \in Nat /\ j - Len(o1) \in 1..e.count /\ j = (j - Len(o1)) + Len(o1)
    BY <1>1, <1>2 DEF Hits, Entries
  <2>2. j - Len(o1) \in 1..Len(o2)
    BY <2>1 DEF Entries
  <2>3. (o1 \o o2)[j] = o2[j - Len(o1)]
    BY <2>1, <2>2, <1>1
  <2> QED BY <2>1, <2>2, <2>3 DEF Hits, Entries
<1>5. CASE Hits(e, o2, p) = {}
  BY <1>4, <1>5, NoHit DEF f
<1>6. CASE Hits(e, o2, p) # {}
  <2>1. PICK i \in Hits(e, o2, p) : \A j \in Hits(e, o2, p) : i <= j
    BY <1>6, HitsAreNumbers, LeastNumber
  <2>2. \A j \in Hits(f, o1 \o o2, p) : i + Len(o1) <= j
    BY <2>1, <1>4, <1>1, <1>3, HitsAreNumbers, <1>2
  <2>3. EndpointOf(e, o2, p) = o2[i].port
    BY <2>1, FirstHit
  <2>4. EndpointOf(f, o1 \o o2, p) = (o1 \o o2)[i + Len(o1)].port
    BY <2>1, <2>2, <1>1, <1>2, <1>3, FirstHit
  <2> QED BY <2>1, <2>3, <2>4, <1>1, <1>3 DEF f
<1> QED BY <1>5, <1>6

LEMMA PrefixReading ==
  ASSUME NEW e \in Entries, NEW o1 \in Seq(Option), NEW o2 \in Seq(Option),
         e.index + e.count <= Len(o1)
  PROVE  Reading(e, o1 \o o2) = Reading(e, o1)
  BY PrefixEndpoint DEF Reading, Protocols

LEMMA ShiftedReading ==
  ASSUME NEW e \in Entries, NEW o1 \in Seq(Option), NEW o2 \in Seq(Option),
         e.index = 0, e.count <= Len(o2), Len(o1) <= IndexMax
  PROVE  Reading([e EXCEPT !.index = Len(o1)], o1 \o o2) = Reading(e, o2)
<1>1. \A p \in Protocols :
         EndpointOf([e EXCEPT !.index = Len(o1)], o1 \o o2, p) = EndpointOf(e, o2, p)
  BY ShiftedEndpoint
<1>2. LET f == [e EXCEPT !.index = Len(o1)]
      IN  f.type = e.type /\ f.ttl = e.ttl /\ f.thing = e.thing
  BY DEF Entries
<1> QED BY <1>1, <1>2 DEF Reading, Protocols

-----------------------------------------------------------------------------
(* Messages as the builders make them.                                     *)

\* Each entry says, with the options of the message, what it is to say.
Conveys(m) ==
  \A i \in DOMAIN m.entries :
    /\ m.entries[i].index + m.entries[i].count <= Len(m.options)
    /\ Reading(m.entries[i], m.options) = m.says[i]

WellTyped(m) ==
  /\ m.entries \in Seq(Entries) /\ m.options \in Seq(Option) /\ m.says \in Seq(Saying)
  /\ Len(m.says) = Len(m.entries)

Built(m) ==
  /\ WellTyped(m) /\ Conveys(m)
  /\ \A i \in DOMAIN m.entries : m.entries[i].index = 0

LEMMA TtlType == Ttl \in 1..TtlMax
  BY Widths DEF Ttl

LEMMA OrdersAreSequences ==
  ASSUME NEW S, IsFiniteSet(S), NEW q \in Orders(S)
  PROVE  q \in Seq(S)
<1>1. PICK T \in SUBSET S : q \in SetToSeqs(T)
  BY DEF Orders, SetToAllKPermutations
<1>2. Cardinality(T) \in Nat
  BY FS_Subset, FS_CardinalityType
<1> QED BY <1>1, <1>2 DEF SetToSeqs

\* An entry whose run is empty has no endpoints.
LEMMA NoOptions ==
  ASSUME NEW e \in Entries, e.count = 0, NEW o, NEW p
  PROVE  EndpointOf(e, o, p) = 0
<1>1. Hits(e, o, p) = {}
  BY DEF Hits, Entries
<1> QED BY <1>1, NoHit

LEMMA ShortConcat ==
  ASSUME NEW a, NEW b
  PROVE  <<a>> \o <<b>> = <<a, b>> /\ <<>> \o <<b>> = <<b>> /\ <<a>> \o <<>> = <<a>>
<1>1. <<a>> \in Seq({a, b}) /\ <<b>> \in Seq({a, b}) /\ <<>> \in Seq({a, b})
  OBVIOUS
<1>2. <<>> \o <<b>> = <<b>> /\ <<a>> \o <<>> = <<a>>
  BY <1>1, ConcatEmptySeq
<1>3. <<a>> \o <<b>> = <<a, b>>
  <2> DEFINE t == <<a>> \o <<b>>
  <2>1. /\ t \in Seq({a, b}) /\ Len(t) = 2
        /\ t[1] = a /\ t[2] = b
    BY <1>1, ConcatProperties
  <2>2. /\ <<a, b>> \in Seq({a, b}) /\ Len(<<a, b>>) = 2
        /\ <<a, b>>[1] = a /\ <<a, b>>[2] = b
    OBVIOUS
  <2>3. \A i \in 1..2 : i = 1 \/ i = 2
    OBVIOUS
  <2> HIDE DEF t
  <2>4. \A i \in 1..2 : t[i] = <<a, b>>[i]
    BY <2>1, <2>2, <2>3
  <2>5. t = <<a, b>>
    BY <2>1, <2>2, <2>4, SeqEqual
  <2> QED BY <2>5 DEF t
<1> QED BY <1>2, <1>3

LEMMA ShortSeq ==
  ASSUME NEW S, NEW a \in S
  PROVE  /\ <<a>> \in Seq(S) /\ Len(<<a>>) \in 1..2
         /\ \A b \in S : <<a, b>> \in Seq(S) /\ Len(<<a, b>>) \in 1..2
  OBVIOUS

\* The options of an offer are those of its ports, and the reader finds both.
LEMMA OfferOptionsRead ==
  ASSUME NEW s \in Services
  PROVE  /\ OfferOptions(s) \in Seq(Option) /\ Len(OfferOptions(s)) \in 1..2
         /\ OfferEntry(s, 0) \in Entries
         /\ \A p \in Protocols :
              EndpointOf(OfferEntry(s, 0), OfferOptions(s), p) = endpoints[s][p]
<1> DEFINE o == OfferOptions(s)
           e == OfferEntry(s, 0)
           udp == [port |-> endpoints[s]["udp"], protocol |-> "udp"]
           tcp == [port |-> endpoints[s]["tcp"], protocol |-> "tcp"]
<1>1. endpoints[s]["udp"] \in Nat /\ endpoints[s]["tcp"] \in Nat
  BY Ports
<1>2. endpoints[s]["udp"] # 0 \/ endpoints[s]["tcp"] # 0
  BY Ports
<1>3. /\ endpoints[s]["udp"] # 0 => udp \in Option
      /\ endpoints[s]["tcp"] # 0 => tcp \in Option
  BY <1>1 DEF Option, Protocols
<1>4. /\ endpoints[s]["udp"] # 0 /\ endpoints[s]["tcp"] # 0 => o = <<udp, tcp>>
      /\ endpoints[s]["udp"] # 0 /\ endpoints[s]["tcp"] = 0 => o = <<udp>>
      /\ endpoints[s]["udp"] = 0 /\ endpoints[s]["tcp"] # 0 => o = <<tcp>>
  <2>1. /\ endpoints[s]["udp"] # 0 => OfferOption(s, "udp") = <<udp>>
        /\ endpoints[s]["udp"] = 0 => OfferOption(s, "udp") = <<>>
        /\ endpoints[s]["tcp"] # 0 => OfferOption(s, "tcp") = <<tcp>>
        /\ endpoints[s]["tcp"] = 0 => OfferOption(s, "tcp") = <<>>
    BY DEF OfferOption
  <2> HIDE DEF udp, tcp
  <2> QED BY <2>1, ShortConcat DEF OfferOptions
<1>5. o \in Seq(Option) /\ Len(o) \in 1..2
  <2> HIDE DEF o, udp, tcp
  <2>1. CASE endpoints[s]["udp"] # 0 /\ endpoints[s]["tcp"] # 0
    BY <2>1, <1>3, <1>4, ShortSeq
  <2>2. CASE endpoints[s]["udp"] # 0 /\ endpoints[s]["tcp"] = 0
    BY <2>2, <1>3, <1>4, ShortSeq
  <2>3. CASE endpoints[s]["udp"] = 0 /\ endpoints[s]["tcp"] # 0
    BY <2>3, <1>3, <1>4, ShortSeq
  <2> QED BY <2>1, <2>2, <2>3, <1>2
<1>6. e \in Entries /\ e.index = 0 /\ e.count = Len(o)
  BY <1>5, TtlType, Widths DEF OfferEntry, Entry, Entries, Types, Things
<1>7. ASSUME NEW p \in Protocols, NEW i \in DOMAIN o, o[i].protocol = p,
             \A j \in DOMAIN o : o[j].protocol = p => i <= j
      PROVE  EndpointOf(e, o, p) = o[i].port
  <2>1. i \in Hits(e, o, p) /\ \A j \in Hits(e, o, p) : i <= j
    BY <1>5, <1>6, <1>7 DEF Hits
  <2> QED BY <2>1, <1>5, <1>6, FirstHit
<1>8. ASSUME NEW p \in Protocols, \A j \in DOMAIN o : o[j].protocol # p
      PROVE  EndpointOf(e, o, p) = 0
  BY <1>8, NoHit DEF Hits
<1> HIDE DEF o, e
<1>9. EndpointOf(e, o, "udp") = endpoints[s]["udp"]
  <2>1. CASE endpoints[s]["udp"] # 0
    <3>1. 1 \in DOMAIN o /\ o[1] = udp /\ \A j \in DOMAIN o : 1 <= j
      BY <2>1, <1>4
    <3> QED BY <3>1, <1>7 DEF Protocols
  <2>2. CASE endpoints[s]["udp"] = 0
    <3>1. \A j \in DOMAIN o : o[j].protocol = "tcp"
      BY <2>2, <1>2, <1>4
    <3> QED BY <3>1, <2>2, <1>8 DEF Protocols
  <2> QED BY <2>1, <2>2
<1>10. EndpointOf(e, o, "tcp") = endpoints[s]["tcp"]
  <2>1. CASE endpoints[s]["tcp"] # 0
    <3>1. PICK i \in DOMAIN o : o[i] = tcp /\ \A j \in DOMAIN o : o[j].protocol = "tcp" => i <= j
      <4>1. CASE endpoints[s]["udp"] # 0
        BY <4>1, <2>1, <1>4
      <4>2. CASE endpoints[s]["udp"] = 0
        BY <4>2, <2>1, <1>4
      <4> QED BY <4>1, <4>2
    <3> QED BY <3>1, <1>7 DEF Protocols
  <2>2. CASE endpoints[s]["tcp"] = 0
    <3>1. \A j \in DOMAIN o : o[j].protocol = "udp"
      BY <2>2, <1>2, <1>4
    <3> QED BY <3>1, <2>2, <1>8 DEF Protocols
  <2> QED BY <2>1, <2>2
<1> QED BY <1>5, <1>6, <1>9, <1>10 DEF o, e, Protocols

LEMMA OfferReads ==
  ASSUME NEW s \in Services
  PROVE  SaysOffer(s) \in Saying /\ Reading(OfferEntry(s, 0), OfferOptions(s)) = SaysOffer(s)
<1> DEFINE e == OfferEntry(s, 0)
<1>1. e.type = "offer" /\ e.thing = s /\ e.ttl = Ttl /\ Ttl # 0
  BY TtlType, Widths DEF OfferEntry, Entry
<1>2. /\ EndpointOf(e, OfferOptions(s), "udp") = endpoints[s]["udp"]
      /\ EndpointOf(e, OfferOptions(s), "tcp") = endpoints[s]["tcp"]
  BY OfferOptionsRead DEF Protocols
<1> HIDE DEF e
<1>3. Reading(e, OfferOptions(s)) = SaysOffer(s)
  BY <1>1, <1>2, Ports DEF Reading, SaysOffer
<1>4. SaysOffer(s) \in Saying
  BY Ports DEF SaysOffer, Says, Saying, Types, Things
<1> QED BY <1>3, <1>4 DEF e

LEMMA OfferIsBuilt ==
  ASSUME NEW s \in Services
  PROVE  Built(OfferMessage(s))
  BY OfferOptionsRead, OfferReads
  DEF Built, WellTyped, Conveys, OfferMessage, OfferEntry, Entry

LEMMA FindIsBuilt ==
  ASSUME NEW s \in Services
  PROVE  Built(FindMessage(s))
<1> DEFINE e == Entry("find", s, Ttl, 0, 0)
           x == Says("find", FALSE, s, 0, 0)
<1>1. e \in Entries /\ e.count = 0 /\ e.index = 0 /\ e.type = "find" /\ e.thing = s
  BY TtlType, Widths DEF Entry, Entries, Types, Things
<1>2. x \in Saying
  BY DEF Says, Saying, Types, Things
<1>3. Reading(e, <<>>) = x
  BY <1>1, NoOptions DEF Reading
<1>4. <<e>> \in Seq(Entries) /\ <<x>> \in Seq(Saying) /\ <<>> \in Seq(Option)
  BY <1>1, <1>2, ShortSeq, EmptySeq
<1>5. FindMessage(s) = [entries |-> <<e>>, options |-> <<>>, says |-> <<x>>]
  BY DEF FindMessage
<1> HIDE DEF e, x
<1> QED BY <1>1, <1>3, <1>4, <1>5 DEF Built, WellTyped, Conveys

LEMMA AnswerIsBuilt ==
  ASSUME NEW g \in Groups, NEW nack \in BOOLEAN
  PROVE  Built(AnswerMessage(g, nack))
<1> DEFINE e == Entry("ack", g, IF nack THEN 0 ELSE Ttl, 0, 0)
           x == Says("ack", nack, g, 0, 0)
<1>1. /\ e \in Entries /\ e.count = 0 /\ e.index = 0 /\ e.type = "ack" /\ e.thing = g
      /\ e.ttl = 0 <=> nack
  BY TtlType, Widths DEF Entry, Entries, Types, Things
<1>2. x \in Saying
  BY DEF Says, Saying, Types, Things
<1>3. Reading(e, <<>>) = x
  BY <1>1, NoOptions DEF Reading, Says
<1>4. <<e>> \in Seq(Entries) /\ <<x>> \in Seq(Saying) /\ <<>> \in Seq(Option)
  BY <1>1, <1>2, ShortSeq, EmptySeq
<1>5. AnswerMessage(g, nack) = [entries |-> <<e>>, options |-> <<>>, says |-> <<x>>]
  BY DEF AnswerMessage
<1> HIDE DEF e, x
<1> QED BY <1>1, <1>3, <1>4, <1>5 DEF Built, WellTyped, Conveys

\* All entries of a subscription share its option.
LEMMA SubscribeIsBuilt ==
  ASSUME NEW gs \in Seq(Groups), NEW l \in Locals, NEW stop \in BOOLEAN
  PROVE  Built(SubscribeMessage(gs, l, stop))
<1> DEFINE port(p) == IF l.protocol = p THEN l.port ELSE 0
           e(i) == Entry("subscribe", gs[i], IF stop THEN 0 ELSE Ttl, 0, 1)
           x(i) == Says("subscribe", stop, gs[i], port("udp"), port("tcp"))
           m == SubscribeMessage(gs, l, stop)
<1>1. l \in Option /\ l.port \in Nat /\ l.protocol \in Protocols /\ <<l>> \in Seq(Option)
  BY ClusteringAssumption DEF Option
<1>2. /\ m.entries = [i \in 1..Len(gs) |-> e(i)]
      /\ m.says = [i \in 1..Len(gs) |-> x(i)]
      /\ m.options = <<l>>
  BY DEF SubscribeMessage
<1>3. ASSUME NEW i \in 1..Len(gs)
      PROVE  /\ e(i) \in Entries /\ e(i).index = 0 /\ e(i).count = 1 /\ x(i) \in Saying
             /\ Reading(e(i), <<l>>) = x(i)
  <2> DEFINE f == e(i)
  <2>1. gs[i] \in Groups
    OBVIOUS
  <2>2. /\ f \in Entries /\ f.index = 0 /\ f.count = 1 /\ f.type = "subscribe"
        /\ f.thing = gs[i] /\ (f.ttl = 0 <=> stop)
    <3>1. f.type = "subscribe" /\ f.thing = gs[i] /\ f.index = 0 /\ f.count = 1
          /\ f.ttl = IF stop THEN 0 ELSE Ttl
      BY DEF Entry
    <3>2. f \in Entries
      BY <2>1, TtlType, Widths DEF Entry, Entries, Types, Things
    <3> HIDE DEF f
    <3> QED BY <3>1, <3>2, TtlType, Widths
  <2>3. x(i) \in Saying
    BY <2>1, <1>1 DEF Says, Saying, Types, Things
  <2> HIDE DEF f
  <2>4. ASSUME NEW p \in Protocols PROVE EndpointOf(f, <<l>>, p) = port(p)
    <3>1. CASE l.protocol = p
      <4>1. 1 \in Hits(f, <<l>>, p) /\ \A j \in Hits(f, <<l>>, p) : 1 <= j
        BY <2>2, <3>1 DEF Hits
      <4> QED BY <4>1, <3>1, <2>2, <1>1, FirstHit
    <3>2. CASE l.protocol # p
      <4>1. Hits(f, <<l>>, p) = {}
        BY <2>2, <3>2 DEF Hits
      <4> QED BY <4>1, <3>2, NoHit
    <3> QED BY <3>1, <3>2
  <2>5. Reading(f, <<l>>) = x(i)
    BY <2>2, <2>4 DEF Reading, Says, Protocols
  <2> QED BY <2>2, <2>3, <2>5 DEF f
<1> HIDE DEF e, x, m
<1>4. m.entries \in Seq(Entries) /\ m.says \in Seq(Saying) /\ Len(m.says) = Len(m.entries)
  BY <1>2, <1>3
<1>5. \A i \in DOMAIN m.entries : /\ m.entries[i].index = 0 /\ m.entries[i].count = 1
                                  /\ Reading(m.entries[i], m.options) = m.says[i]
  BY <1>2, <1>3
<1> QED BY <1>1, <1>2, <1>4, <1>5 DEF Built, WellTyped, Conveys, m

LEMMA UnicastIsBuilt ==
  ASSUME NEW m \in UnicastMessages
  PROVE  Built(m)
<1>1. \A gs \in Orders(Groups) : gs \in Seq(Groups)
  BY OrdersAreSequences, ClusteringAssumption
<1> QED BY <1>1, OfferIsBuilt, SubscribeIsBuilt, AnswerIsBuilt DEF UnicastMessages

-----------------------------------------------------------------------------
(* Merged messages.                                                        *)

Sound(c) == WellTyped(c) /\ c.fits \in BOOLEAN /\ (c.fits => Conveys(c))

LEMMA Joined ==
  ASSUME NEW S, NEW s1 \in Seq(S), NEW s2 \in Seq(S), NEW t, t = s1 \o s2
  PROVE  /\ t \in Seq(S) /\ Len(t) = Len(s1) + Len(s2)
         /\ \A i \in 1..(Len(s1) + Len(s2)) :
              t[i] = IF i <= Len(s1) THEN s1[i] ELSE s2[i - Len(s1)]
  BY ConcatProperties

LEMMA EmptyIsSound == Sound(Empty)
  BY EmptySeq DEF Empty, Sound, WellTyped, Conveys

LEMMA OffsetType ==
  ASSUME NEW n \in Nat
  PROVE  n % (IndexMax + 1) \in 0..IndexMax /\ (n <= IndexMax => n % (IndexMax + 1) = n)
  BY Widths

\* Entries and options that are added to a sound message leave it sound: what
\* is added reads right where it is put, unless indices have run out.
LEMMA AddedIsSound ==
  ASSUME NEW c, Sound(c), NEW d,
         NEW es \in Seq(Entries), NEW os \in Seq(Option), NEW xs \in Seq(Saying),
         Len(xs) = Len(es),
         d.entries = c.entries \o es, d.options = c.options \o os, d.says = c.says \o xs,
         d.fits \in BOOLEAN, d.fits => c.fits,
         d.fits => \A i \in DOMAIN es :
                     /\ es[i].index + es[i].count <= Len(c.options) + Len(os)
                     /\ Reading(es[i], c.options \o os) = xs[i]
  PROVE  Sound(d)
<1>1. /\ c.entries \in Seq(Entries) /\ c.options \in Seq(Option) /\ c.says \in Seq(Saying)
      /\ Len(c.says) = Len(c.entries)
  BY DEF Sound, WellTyped
<1>2. WellTyped(d)
  <2>1. d.entries \in Seq(Entries) /\ Len(d.entries) = Len(c.entries) + Len(es)
    BY <1>1, Joined
  <2>2. d.options \in Seq(Option)
    BY <1>1, Joined
  <2>3. d.says \in Seq(Saying) /\ Len(d.says) = Len(c.says) + Len(xs)
    <3>1. c.says \in Seq(Saying)
      BY <1>1
    <3>2. xs \in Seq(Saying) /\ d.says = c.says \o xs
      OBVIOUS
    <3> QED BY ONLY <3>1, <3>2, Joined
  <2> QED BY <1>1, <2>1, <2>2, <2>3 DEF WellTyped
<1>3. ASSUME d.fits, NEW i \in DOMAIN d.entries
      PROVE  /\ d.entries[i].index + d.entries[i].count <= Len(d.options)
             /\ Reading(d.entries[i], d.options) = d.says[i]
  <2>1. Conveys(c)
    BY <1>3 DEF Sound
  <2>2. Len(d.options) = Len(c.options) + Len(os) /\ Len(c.options) \in Nat /\ Len(os) \in Nat
    BY <1>1, ConcatProperties
  <2>3. i \in 1..(Len(c.entries) + Len(es))
    BY <1>1, ConcatProperties
  <2>4. CASE i <= Len(c.entries)
    <3>1. i \in DOMAIN c.entries /\ d.entries[i] = c.entries[i] /\ d.says[i] = c.says[i]
      BY <1>1, <2>3, <2>4, ConcatProperties
    <3>2. /\ c.entries[i] \in Entries
          /\ c.entries[i].index + c.entries[i].count <= Len(c.options)
          /\ Reading(c.entries[i], c.options) = c.says[i]
      BY <1>1, <2>1, <3>1 DEF Conveys
    <3>3. Reading(c.entries[i], c.options \o os) = c.says[i]
      BY <1>1, <3>2, PrefixReading
    <3>4. c.entries[i].index \in Nat /\ c.entries[i].count \in Nat
      BY <3>2, Widths DEF Entries
    <3> QED BY <2>2, <3>1, <3>2, <3>3, <3>4
  <2>5. CASE i > Len(c.entries)
    <3>1. i - Len(c.entries) \in DOMAIN es /\ d.entries[i] = es[i - Len(c.entries)]
          /\ d.says[i] = xs[i - Len(c.entries)]
      <4>1. Len(c.entries) \in Nat /\ Len(es) \in Nat /\ DOMAIN es = 1..Len(es)
        BY <1>1
      <4>2. i - Len(c.entries) \in 1..Len(es) /\ ~(i <= Len(c.entries))
        BY <4>1, <2>3, <2>5
      <4>3. d.entries[i] = es[i - Len(c.entries)]
        BY <1>1, <4>2, <2>3, ConcatProperties
      <4>4. d.says[i] = xs[i - Len(c.entries)]
        <5>1. i \in 1..(Len(c.says) + Len(xs)) /\ ~(i <= Len(c.says))
          BY <1>1, <4>2, <2>3
        <5>2. d.says[i] = xs[i - Len(c.says)]
          BY <1>1, <5>1, Joined
        <5> QED BY <1>1, <5>2
      <4> QED BY <4>1, <4>2, <4>3, <4>4
    <3> QED BY <1>3, <2>2, <3>1
  <2> QED BY <1>1, <2>3, <2>4, <2>5
<1> QED BY <1>2, <1>3 DEF Sound, Conveys

LEMMA RoomFor ==
  ASSUME NEW a \in Nat, NEW b \in Nat, NEW n \in Nat, n <= b
  PROVE  0 + n <= a + b /\ a + n <= a + b
  OBVIOUS

LEMMA MergeIsSound ==
  ASSUME NEW c, Sound(c), NEW m, Built(m)
  PROVE  Sound(Merge(c, m))
<1> DEFINE offset == Offset(c, m)
           moved(e) == IF e.count > 0 THEN [e EXCEPT !.index = Rebased(@, offset)] ELSE e
           es == [i \in DOMAIN m.entries |-> moved(m.entries[i])]
           d == Merge(c, m)
<1>1. /\ c.options \in Seq(Option) /\ Len(c.options) \in Nat /\ c.fits \in BOOLEAN
      /\ m.entries \in Seq(Entries) /\ m.options \in Seq(Option) /\ m.says \in Seq(Saying)
      /\ Len(m.says) = Len(m.entries)
      /\ \A i \in DOMAIN m.entries :
           /\ m.entries[i] \in Entries /\ m.entries[i].index = 0
           /\ m.entries[i].count <= Len(m.options)
           /\ Reading(m.entries[i], m.options) = m.says[i]
  <2>1. /\ c.options \in Seq(Option) /\ Len(c.options) \in Nat /\ c.fits \in BOOLEAN
        /\ m.entries \in Seq(Entries) /\ m.options \in Seq(Option) /\ m.says \in Seq(Saying)
        /\ Len(m.says) = Len(m.entries)
    BY DEF Sound, Built, WellTyped
  <2>2. ASSUME NEW i \in DOMAIN m.entries
        PROVE  /\ m.entries[i] \in Entries /\ m.entries[i].index = 0
               /\ m.entries[i].count <= Len(m.options)
               /\ Reading(m.entries[i], m.options) = m.says[i]
    <3>1. m.entries[i] \in Entries
      BY <2>1
    <3>2. m.entries[i].index = 0 /\ m.entries[i].index + m.entries[i].count <= Len(m.options)
          /\ Reading(m.entries[i], m.options) = m.says[i]
      BY DEF Built, Conveys
    <3> QED BY <3>1, <3>2 DEF Entries
  <2> QED BY <2>1, <2>2
<1>2. offset \in 0..IndexMax /\ (Len(c.options) <= IndexMax => offset = Len(c.options))
  BY <1>1, OffsetType DEF Offset
<1>3. /\ d.entries = c.entries \o es /\ d.options = c.options \o m.options
      /\ d.says = c.says \o m.says
      /\ d.fits = (c.fits /\ (m.options # <<>> => Len(c.options) <= IndexMax))
  BY DEF Merge
<1> HIDE DEF offset, d
<1>4. ASSUME NEW e \in Entries, e.index = 0
      PROVE  /\ moved(e) \in Entries
             /\ e.count > 0 => moved(e) = [e EXCEPT !.index = offset]
             /\ ~(e.count > 0) => moved(e) = e
  <2>1. Rebased(e.index, offset) = offset
    BY <1>2, <1>4, Widths DEF Rebased
  <2> QED BY <2>1, <1>2, <1>4 DEF Entries
<1> HIDE DEF moved
<1>5. /\ es \in Seq(Entries) /\ Len(m.says) = Len(es) /\ DOMAIN es = DOMAIN m.entries
      /\ \A i \in DOMAIN es : es[i] = moved(m.entries[i])
  BY <1>1, <1>4
<1> HIDE DEF es
<1>6. ASSUME d.fits, NEW i \in DOMAIN es
      PROVE  /\ es[i].index + es[i].count <= Len(c.options) + Len(m.options)
             /\ Reading(es[i], c.options \o m.options) = m.says[i]
  <2> DEFINE e == m.entries[i]
  <2>1. /\ e \in Entries /\ e.index = 0 /\ e.count <= Len(m.options) /\ es[i] = moved(e)
        /\ Reading(e, m.options) = m.says[i]
    BY <1>1, <1>5
  <2>2. e.count \in Nat /\ Len(m.options) \in Nat /\ Len(c.options) \in Nat
    BY <2>1, <1>1 DEF Entries
  <2> HIDE DEF e
  <2> SUFFICES /\ es[i].index + es[i].count <= Len(c.options) + Len(m.options)
               /\ Reading(es[i], c.options \o m.options) = Reading(e, m.options)
    BY <2>1
  <2>3. CASE e.count = 0
    <3>1. es[i] = e
      BY <2>1, <2>3, <1>4
    <3>2. \A o, p : EndpointOf(e, o, p) = 0
      BY <2>1, <2>3, NoOptions
    <3>3. Reading(e, c.options \o m.options) = Reading(e, m.options)
      BY <3>2 DEF Reading
    <3>4. e.index + e.count <= Len(c.options) + Len(m.options)
      BY <2>1, <2>2, <2>3, RoomFor, Zenon
    <3> QED BY <3>1, <3>3, <3>4
  <2>4. CASE e.count > 0
    <3>1. m.options # <<>>
      BY <2>1, <2>2, <2>4
    <3>2. Len(c.options) <= IndexMax /\ offset = Len(c.options)
      BY <1>2, <1>3, <1>6, <3>1
    <3>3. es[i] = [e EXCEPT !.index = Len(c.options)]
      BY <2>1, <2>4, <3>2, <1>4
    <3>4. es[i].index = Len(c.options) /\ es[i].count = e.count
      BY <2>1, <3>3 DEF Entries
    <3>5. Reading(es[i], c.options \o m.options) = Reading(e, m.options)
      BY <1>1, <2>1, <3>2, <3>3, ShiftedReading
    <3>6. es[i].index + es[i].count <= Len(c.options) + Len(m.options)
      BY <2>1, <2>2, <3>4, RoomFor, Zenon
    <3> QED BY <3>5, <3>6
  <2>5. e.count = 0 \/ e.count > 0
    BY <2>2
  <2> QED BY <2>3, <2>4, <2>5, Zenon
<1>7. d.fits \in BOOLEAN /\ (d.fits => c.fits)
  BY <1>1, <1>3
<1>8. Sound(d)
  BY <1>1, <1>3, <1>5, <1>6, <1>7, AddedIsSound
<1> QED BY <1>8 DEF d

LEMMA AddOfferIsSound ==
  ASSUME NEW c, Sound(c), NEW s \in Services
  PROVE  Sound(AddOffer(c, s))
<1> DEFINE offset == Len(c.options) % (IndexMax + 1)
           e == OfferEntry(s, offset)
           o == OfferOptions(s)
           d == AddOffer(c, s)
<1>1. /\ c.options \in Seq(Option) /\ Len(c.options) \in Nat /\ c.fits \in BOOLEAN
      /\ c.entries \in Seq(Entries) /\ c.says \in Seq(Saying)
  BY DEF Sound, WellTyped
<1>2. offset \in 0..IndexMax /\ (Len(c.options) <= IndexMax => offset = Len(c.options))
  BY <1>1, OffsetType
<1>3. /\ o \in Seq(Option) /\ Len(o) \in Nat
      /\ OfferEntry(s, 0) \in Entries /\ OfferEntry(s, 0).index = 0
      /\ OfferEntry(s, 0).count = Len(o)
      /\ SaysOffer(s) \in Saying
  BY OfferOptionsRead, OfferReads DEF OfferEntry, Entry
<1>4. /\ e = [OfferEntry(s, 0) EXCEPT !.index = offset]
      /\ e.index = offset /\ e.count = Len(o)
  BY DEF OfferEntry, Entry
<1>5. e \in Entries
  BY <1>2, <1>3, <1>4 DEF Entries
<1>6. /\ d.entries = c.entries \o <<e>> /\ d.options = c.options \o o
      /\ d.says = c.says \o <<SaysOffer(s)>>
      /\ d.fits = (c.fits /\ Len(c.options) <= IndexMax)
  <2>1. /\ Append(c.entries, e) = c.entries \o <<e>>
        /\ Append(c.says, SaysOffer(s)) = c.says \o <<SaysOffer(s)>>
    BY <1>1, <1>3, <1>5, AppendIsConcat
  <2> QED BY <2>1 DEF AddOffer
<1> HIDE DEF e, o, d, offset
<1>7. ASSUME d.fits
      PROVE  /\ e.index + e.count <= Len(c.options) + Len(o)
             /\ Reading(e, c.options \o o) = SaysOffer(s)
  <2>1. Len(c.options) <= IndexMax /\ offset = Len(c.options)
    BY <1>2, <1>6, <1>7
  <2>2. e.index + e.count <= Len(c.options) + Len(o)
    <3>1. Len(o) <= Len(o)
      BY <1>3
    <3> QED BY <1>1, <1>3, <1>4, <2>1, <3>1, RoomFor, Zenon
  <2>3. Reading(e, c.options \o o) = Reading(OfferEntry(s, 0), o)
    <3>1. OfferEntry(s, 0).count <= Len(o)
      BY <1>3
    <3>2. e = [OfferEntry(s, 0) EXCEPT !.index = Len(c.options)]
      BY <1>4, <2>1
    <3> QED BY <1>1, <1>3, <2>1, <3>1, <3>2, ShiftedReading
  <2>4. Reading(OfferEntry(s, 0), o) = SaysOffer(s)
    BY OfferReads DEF o
  <2> QED BY <2>2, <2>3, <2>4
<1>8. /\ <<e>> \in Seq(Entries) /\ <<SaysOffer(s)>> \in Seq(Saying)
      /\ Len(<<e>>) = 1 /\ Len(<<SaysOffer(s)>>) = 1
      /\ \A i \in DOMAIN <<e>> : <<e>>[i] = e /\ <<SaysOffer(s)>>[i] = SaysOffer(s)
  BY <1>3, <1>5, ShortSeq
<1>9. d.fits \in BOOLEAN /\ (d.fits => c.fits)
  BY <1>1, <1>6
<1>10. d.fits => \A i \in DOMAIN <<e>> :
                   /\ <<e>>[i].index + <<e>>[i].count <= Len(c.options) + Len(o)
                   /\ Reading(<<e>>[i], c.options \o o) = <<SaysOffer(s)>>[i]
  BY <1>7, <1>8
<1>11. Sound(d)
  BY <1>3, <1>6, <1>8, <1>9, <1>10, AddedIsSound
<1> QED BY <1>11 DEF d

\* The functions that merge a batch exist, whatever its length.
AfterActions(f, actions, target, n) ==
  f = [m \in 0..n |-> IF m = 0 THEN Empty
                      ELSE IF actions[m].target = target
                           THEN Merge(f[m - 1], actions[m].message)
                      ELSE f[m - 1]]

LEMMA AfterActionsExists ==
  ASSUME NEW actions, NEW target, NEW n \in Nat
  PROVE  \E f : AfterActions(f, actions, target, n)
<1> DEFINE S == {k \in Nat : \E f : AfterActions(f, actions, target, k)}
<1>1. 0 \in S
  <2>1. AfterActions([m \in 0..0 |-> Empty], actions, target, 0)
    BY DEF AfterActions
  <2> QED BY <2>1
<1>2. ASSUME NEW k \in Nat, k \in S PROVE k + 1 \in S
  <2>1. PICK f : AfterActions(f, actions, target, k)
    BY <1>2
  <2> DEFINE g == [m \in 0..(k + 1) |->
                     IF m = 0 THEN Empty
                     ELSE IF actions[m].target = target THEN Merge(f[m - 1], actions[m].message)
                     ELSE f[m - 1]]
  <2>2. \A m \in 0..k : g[m] = f[m]
    BY <2>1 DEF AfterActions
  <2>3. \A m \in 0..(k + 1) : m # 0 => m - 1 \in 0..k
    OBVIOUS
  <2>4. AfterActions(g, actions, target, k + 1)
    BY <2>2, <2>3 DEF AfterActions
  <2> QED BY <2>4
<1> HIDE DEF S
<1>3. Nat \subseteq S
  BY <1>1, <1>2, SetInduction
<1> QED BY <1>3 DEF S

LEMMA ClusteredIsSound ==
  ASSUME NEW actions, Len(actions) \in Nat, NEW target,
         \A i \in 1..Len(actions) : Built(actions[i].message)
  PROVE  Sound(Clustered(actions, target))
<1> DEFINE after == CHOOSE f : AfterActions(f, actions, target, Len(actions))
           S == {n \in Nat : n <= Len(actions) => Sound(after[n])}
<1>1. AfterActions(after, actions, target, Len(actions))
  BY AfterActionsExists
<1>2. Clustered(actions, target) = after[Len(actions)]
  BY DEF Clustered, AfterActions
<1> HIDE DEF after
<1>3. after[0] = Empty
  BY <1>1 DEF AfterActions
<1>4. ASSUME NEW n \in Nat, n + 1 <= Len(actions)
      PROVE  after[n + 1] = IF actions[n + 1].target = target
                            THEN Merge(after[n], actions[n + 1].message)
                            ELSE after[n]
  <2>1. n + 1 \in 0..Len(actions) /\ n + 1 # 0 /\ (n + 1) - 1 = n
    BY <1>4
  <2> QED BY <1>1, <2>1 DEF AfterActions
<1>5. 0 \in S
  BY <1>3, EmptyIsSound
<1>6. ASSUME NEW n \in Nat, n \in S PROVE n + 1 \in S
  <2> SUFFICES ASSUME n + 1 <= Len(actions) PROVE Sound(after[n + 1])
    OBVIOUS
  <2>1. Sound(after[n]) /\ n + 1 \in 1..Len(actions)
    BY <1>6
  <2>2. Built(actions[n + 1].message)
    BY <2>1
  <2>3. Sound(Merge(after[n], actions[n + 1].message))
    BY <2>1, <2>2, MergeIsSound
  <2> QED BY <1>4, <2>1, <2>3
<1> HIDE DEF S
<1>7. Nat \subseteq S
  BY <1>5, <1>6, SetInduction
<1> QED BY <1>2, <1>7 DEF S

\* The same for the initial offers.
AfterOffers(f, services, n) ==
  f = [m \in 0..n |-> IF m = 0 THEN Empty ELSE AddOffer(f[m - 1], services[m])]

LEMMA AfterOffersExists ==
  ASSUME NEW services, NEW n \in Nat
  PROVE  \E f : AfterOffers(f, services, n)
<1> DEFINE S == {k \in Nat : \E f : AfterOffers(f, services, k)}
<1>1. 0 \in S
  <2>1. AfterOffers([m \in 0..0 |-> Empty], services, 0)
    BY DEF AfterOffers
  <2> QED BY <2>1
<1>2. ASSUME NEW k \in Nat, k \in S PROVE k + 1 \in S
  <2>1. PICK f : AfterOffers(f, services, k)
    BY <1>2
  <2> DEFINE g == [m \in 0..(k + 1) |->
                     IF m = 0 THEN Empty ELSE AddOffer(f[m - 1], services[m])]
  <2>2. \A m \in 0..k : g[m] = f[m]
    BY <2>1 DEF AfterOffers
  <2>3. \A m \in 0..(k + 1) : m # 0 => m - 1 \in 0..k
    OBVIOUS
  <2>4. AfterOffers(g, services, k + 1)
    BY <2>2, <2>3 DEF AfterOffers
  <2> QED BY <2>4
<1> HIDE DEF S
<1>3. Nat \subseteq S
  BY <1>1, <1>2, SetInduction
<1> QED BY <1>3 DEF S

LEMMA InitialOffersAreSound ==
  ASSUME NEW services \in Seq(Services)
  PROVE  Sound(InitialOffers(services))
<1> DEFINE after == CHOOSE f : AfterOffers(f, services, Len(services))
           S == {n \in Nat : n <= Len(services) => Sound(after[n])}
<1>1. AfterOffers(after, services, Len(services))
  BY AfterOffersExists, LenProperties
<1>2. InitialOffers(services) = after[Len(services)]
  BY DEF InitialOffers, AfterOffers
<1> HIDE DEF after
<1>3. after[0] = Empty
  BY <1>1, LenProperties DEF AfterOffers
<1>4. ASSUME NEW n \in Nat, n + 1 <= Len(services)
      PROVE  after[n + 1] = AddOffer(after[n], services[n + 1])
  <2>1. n + 1 \in 0..Len(services) /\ n + 1 # 0 /\ (n + 1) - 1 = n
    BY <1>4, LenProperties
  <2> QED BY <1>1, <2>1 DEF AfterOffers
<1>5. 0 \in S
  BY <1>3, EmptyIsSound
<1>6. ASSUME NEW n \in Nat, n \in S PROVE n + 1 \in S
  <2> SUFFICES ASSUME n + 1 <= Len(services) PROVE Sound(after[n + 1])
    OBVIOUS
  <2>1. Sound(after[n]) /\ services[n + 1] \in Services
    BY <1>6, LenProperties
  <2> QED BY <1>4, <2>1, AddOfferIsSound
<1> HIDE DEF S
<1>7. Nat \subseteq S
  BY <1>5, <1>6, SetInduction
<1> QED BY <1>2, <1>7, LenProperties DEF S

-----------------------------------------------------------------------------
(* Datagrams.                                                              *)

DatagramOK(d) ==
  /\ \A i \in DOMAIN d.entries : /\ d.entries[i].index \in 0..IndexMax
                                 /\ d.entries[i].ttl \in 0..TtlMax
                                 /\ d.entries[i].count <= 2
  /\ d.says \in Seq(Saying) /\ d.options \in Seq(Option)
  /\ d.fits => Understood(d) = d.says

\* Counts and TTLs of sound messages fit their width, and pass the wire as
\* they are.
LEMMA WireEntryKept ==
  ASSUME NEW e \in Entries
  PROVE  WireEntry(e) = e
<1>1. e.count % 16 = e.count
  BY DEF Entries
<1>2. e.ttl % (TtlMax + 1) = e.ttl
  BY Widths DEF Entries
<1> QED BY <1>1, <1>2 DEF WireEntry, Entries

LEMMA OnWireIsOK ==
  ASSUME NEW m, Sound(m), NEW target
  PROVE  DatagramOK(OnWire(m, target))
<1> DEFINE d == OnWire(m, target)
<1>1. /\ m.entries \in Seq(Entries) /\ m.options \in Seq(Option) /\ m.says \in Seq(Saying)
      /\ Len(m.says) = Len(m.entries)
  BY DEF Sound, WellTyped
<1>2. /\ d.options = m.options /\ d.says = m.says /\ d.fits = m.fits
      /\ DOMAIN d.entries = DOMAIN m.entries
      /\ \A i \in DOMAIN m.entries : d.entries[i] = WireEntry(m.entries[i])
  BY DEF OnWire
<1> HIDE DEF d
<1>3. \A i \in DOMAIN m.entries : m.entries[i] \in Entries /\ d.entries[i] = m.entries[i]
  BY <1>1, <1>2, WireEntryKept
<1>4. ASSUME NEW i \in DOMAIN d.entries
      PROVE  /\ d.entries[i].index \in 0..IndexMax
             /\ d.entries[i].ttl \in 0..TtlMax
             /\ d.entries[i].count <= 2
  BY <1>2, <1>3 DEF Entries
<1>5. ASSUME d.fits PROVE Understood(d) = d.says
  <2>1. \A i \in DOMAIN m.entries : Reading(m.entries[i], m.options) = m.says[i]
    BY <1>2, <1>5 DEF Sound, Conveys
  <2>2. Understood(d) = [i \in DOMAIN m.entries |-> m.says[i]]
    BY <1>2, <1>3, <2>1 DEF Understood
  <2>3. m.says = [i \in DOMAIN m.entries |-> m.says[i]]
    <3>1. DOMAIN m.says = DOMAIN m.entries /\ m.says \in [1..Len(m.says) -> Saying]
      BY <1>1, LenProperties
    <3> QED BY <3>1
  <2> QED BY <1>2, <2>2, <2>3
<1>6. DatagramOK(d)
  BY <1>1, <1>2, <1>4, <1>5 DEF DatagramOK
<1> QED BY <1>6 DEF d

LEMMA ActionsAreOK ==
  ASSUME NEW actions, Len(actions) \in Nat,
         \A i \in 1..Len(actions) : Built(actions[i].message),
         NEW d \in ClusterSdActions(actions)
  PROVE  DatagramOK(d)
<1>1. PICK t : d = OnWire(Clustered(actions, t), t)
  BY DEF ClusterSdActions
<1> QED BY <1>1, ClusteredIsSound, OnWireIsOK

-----------------------------------------------------------------------------
(* The specification.                                                      *)

\* What was read is what datagrams on their way would be understood as.
IInv ==
  /\ Len(pending) <= MaxQueued
  /\ pending \in Seq([target : Targets, message : UnicastMessages])
  /\ \A d \in datagrams : DatagramOK(d)
  /\ ReadAsMeant

LEMMA PendingType ==
  ASSUME NEW q \in Seq([target : Targets, message : UnicastMessages])
  PROVE  /\ Len(q) \in Nat /\ DOMAIN q = 1..Len(q)
         /\ \A i \in 1..Len(q) : /\ q[i].target \in Targets
                                 /\ q[i].message \in UnicastMessages
<1>1. \A x \in [target : Targets, message : UnicastMessages] :
         x.target \in Targets /\ x.message \in UnicastMessages
  OBVIOUS
<1> QED BY <1>1, LenProperties, ElementOfSeq

LEMMA InitInv == Init => IInv
  BY ClusteringAssumption, EmptySeq DEF Init, IInv, ReadAsMeant

LEMMA NextInv == IInv /\ [Next]_vars => IInv'
<1> SUFFICES ASSUME IInv, [Next]_vars PROVE IInv'
  OBVIOUS
<1>1. ASSUME NEW m \in UnicastMessages, NEW t \in Targets, Queue(m, t) PROVE IInv'
  <2>1. SendSd(m, t) \in [target : Targets, message : UnicastMessages]
    BY DEF SendSd
  <2>2. /\ pending' \in Seq([target : Targets, message : UnicastMessages])
        /\ Len(pending') = Len(pending) + 1
    BY <1>1, <2>1 DEF Queue, IInv
  <2>3. Len(pending) \in Nat /\ Len(pending) < MaxQueued
    BY <1>1 DEF Queue, IInv
  <2>4. Len(pending') <= MaxQueued
    BY <2>2, <2>3, ClusteringAssumption
  <2>5. datagrams' = datagrams /\ ReadAsMeant'
    BY <1>1 DEF Queue, ReadAsMeant
  <2> QED BY <2>2, <2>4, <2>5 DEF IInv, DatagramOK
<1>2. CASE Flush
  <2>1. Len(pending) \in Nat /\ \A i \in 1..Len(pending) : Built(pending[i].message)
    BY PendingType, UnicastIsBuilt DEF IInv
  <2>2. \A d \in datagrams' : DatagramOK(d)
    BY <1>2, <2>1, ActionsAreOK DEF Flush
  <2>3. Len(pending') <= MaxQueued /\ pending' \in Seq([target : Targets, message : UnicastMessages])
    BY <1>2, EmptySeq, ClusteringAssumption DEF Flush
  <2> QED BY <1>2, <2>2, <2>3 DEF Flush, IInv, ReadAsMeant
<1>3. ASSUME NEW offers \in Orders(Services), NEW finds \in Orders(Services),
             Periodic(offers, finds)
      PROVE  IInv'
  <2> DEFINE as == [i \in DOMAIN offers |-> SendSd(OfferMessage(offers[i]), Multicast)]
             bs == [i \in DOMAIN finds |-> SendSd(FindMessage(finds[i]), Multicast)]
             S == {SendSd(OfferMessage(s), Multicast) : s \in Services}
                    \cup {SendSd(FindMessage(s), Multicast) : s \in Services}
  <2>1. offers \in Seq(Services) /\ finds \in Seq(Services)
    BY OrdersAreSequences, ClusteringAssumption
  <2>2. as \in Seq(S) /\ bs \in Seq(S)
    BY <2>1
  <2>3. \A a \in S : Built(a.message)
    BY OfferIsBuilt, FindIsBuilt DEF SendSd
  <2> HIDE DEF as, bs, S
  <2>4. as \o bs \in Seq(S)
    BY <2>2, ConcatProperties
  <2>5. Len(as \o bs) \in Nat /\ \A i \in 1..Len(as \o bs) : Built((as \o bs)[i].message)
    BY <2>3, <2>4, LenProperties, ElementOfSeq
  <2>6. datagrams' = ClusterSdActions(as \o bs) /\ pending' = pending /\ read' = read
    BY <1>3 DEF Periodic, as, bs
  <2>7. \A d \in datagrams' : DatagramOK(d)
    BY <2>5, <2>6, ActionsAreOK
  <2> QED BY <2>6, <2>7 DEF IInv, ReadAsMeant
<1>4. ASSUME NEW services \in Orders(Services), FlushInitial(services) PROVE IInv'
  <2>1. DatagramOK(OnWire(InitialOffers(services), Multicast))
    BY OrdersAreSequences, ClusteringAssumption, InitialOffersAreSound, OnWireIsOK
  <2> QED BY <1>4, <2>1 DEF FlushInitial, IInv, ReadAsMeant
<1>5. ASSUME NEW d \in datagrams, Receive(d) PROVE IInv'
  <2>1. DatagramOK(d)
    BY DEF IInv
  <2>2. ReadAsMeant'
    BY <1>5, <2>1 DEF Receive, ReadAsMeant, DatagramOK
  <2> QED BY <1>5, <2>2 DEF Receive, IInv
<1>6. CASE UNCHANGED vars
  BY <1>6 DEF vars, IInv, ReadAsMeant
<1> QED BY <1>1, <1>2, <1>3, <1>4, <1>5, <1>6 DEF Next

LEMMA Invariance == Spec => []IInv
  BY InitInv, NextInv, PTL DEF Spec

\* Counts, TTLs and indices fit their fields, also where a batch outgrows the
\* indices or the configured TTL is too long (clamp_ttl_to_24bit, "as u8",
\* saturating_add).
THEOREM TypeCorrect == Spec => []TypeOK
<1>1. IInv => TypeOK
  BY PendingType DEF IInv, TypeOK, DatagramOK
<1> QED BY <1>1, Invariance, PTL

\* However many messages a batch merges, and in whatever order, each target
\* reads from each entry what it was to say, as long as the indices last
\* (cluster_sd_actions, get_endpoint_with_protocol).
THEOREM MessagesAreRead == Spec => []ReadAsMeant
<1>1. IInv => ReadAsMeant
  BY DEF IInv
<1> QED BY <1>1, Invariance, PTL
=============================================================================
