------------------------- MODULE WebhookGateProofs -------------------------
(***************************************************************************)
(* The webhook limiter for any number of addresses, any burst and any      *)
(* intervals under which a bucket is full again before it is pruned.       *)
(***************************************************************************)
EXTENDS WebhookGate, SequenceTheorems, FiniteSetTheorems, WellFoundedInduction, TLAPS

(* A bucket always lacks exactly what its source has used in excess of one *)
(* request a unit; a source without a bucket has no excess. Pruned buckets *)
(* are full because the excess has worn off by then.                       *)
Balanced ==
  \A ip \in Address :
    /\ clients[ip] = NoClient => excess[ip] = 0
    /\ clients[ip] # NoClient =>
         /\ clients[ip].idle <= IdleAfter + elapsed
         /\ excess[ip] <= Burst
         /\ Tokens(clients[ip]) = Burst - excess[ip]

GateInv == TypeOK /\ Balanced

----------------------------------------------------------------------------
(* The address that is charged *)

(* A non-empty set of naturals with a bound has a greatest element. *)
LEMMA Greatest ==
  ASSUME NEW n \in Nat, NEW S \in SUBSET (1 .. n), S # {}
  PROVE  \E k \in S : \A j \in S : j <= k
<1> DEFINE T == {n - k : k \in S}
           R == OpToRel(<, Nat)
<1>1. T \subseteq Nat /\ T # {}
  <2>1. \A k \in S : n - k \in Nat
    OBVIOUS
  <2> QED BY <2>1
<1>2. \E x \in T : \A y \in T : <<y, x>> \notin R
  BY <1>1, NatLessThanWellFounded, WFMin
<1>3. PICK x \in T : \A y \in T : <<y, x>> \notin R
  BY <1>2
<1>4. \A y \in T : x <= y
  <2> SUFFICES ASSUME NEW y \in T PROVE x <= y
    OBVIOUS
  <2>1. x \in Nat /\ y \in Nat
    BY <1>1
  <2>2. y < x => <<y, x>> \in R
    <3>1. <<y, x>> \in Nat \X Nat /\ <<y, x>>[1] = y /\ <<y, x>>[2] = x
      BY <2>1
    <3> HIDE DEF T
    <3> QED BY <3>1 DEF OpToRel
  <2> HIDE DEF T, R
  <2> QED BY <1>3, <2>1, <2>2
<1>5. PICK k \in S : x = n - k
  OBVIOUS
<1>6. \A j \in S : j <= k
  <2> SUFFICES ASSUME NEW j \in S PROVE j <= k
    OBVIOUS
  <2>1. n - j \in T
    OBVIOUS
  <2>2. n - k <= n - j
    BY <1>4, <1>5, <2>1
  <2>3. j \in Nat /\ k \in Nat
    OBVIOUS
  <2> HIDE DEF T
  <2> QED BY <2>2, <2>3
<1> QED BY <1>5, <1>6

(* The address found lies in the chain. *)
LEMMA LastOutsideType ==
  ASSUME NEW chain \in Seq(Address), chain # <<>>
  PROVE  LastOutside(chain) \in Address
<1> DEFINE outside == {k \in DOMAIN chain : ~isTrustedProxy(chain[k])}
           last == CHOOSE k \in outside : \A j \in outside : j <= k
<1>1. Len(chain) \in Nat \ {0} /\ DOMAIN chain = 1 .. Len(chain)
  BY EmptySeq, LenProperties
<1>2. outside \in SUBSET (1 .. Len(chain))
  BY <1>1
<1>3. outside # {} => last \in outside
  <2> HIDE DEF outside
  <2>1. outside # {} => \E k \in outside : \A j \in outside : j <= k
    BY <1>1, <1>2, Greatest
  <2> QED BY <2>1
<1>4. outside # {} => last \in 1 .. Len(chain)
  <2> HIDE DEF outside, last
  <2> QED BY <1>2, <1>3
<1>5. LastOutside(chain) = IF outside = {} THEN chain[1] ELSE chain[last]
  BY DEF LastOutside
<1> HIDE DEF outside, last
<1>6. \A k \in 1 .. Len(chain) : chain[k] \in Address
  BY ElementOfSeq
<1> QED BY <1>1, <1>4, <1>5, <1>6

(* What one more machine at the end of a chain changes. *)
LEMMA LastOutsideAppend ==
  ASSUME NEW s \in Seq(Address), NEW e \in Address
  PROVE  LastOutside(Append(s, e))
           = IF ~isTrustedProxy(e) \/ s = <<>> THEN e ELSE LastOutside(s)
<1> DEFINE c == Append(s, e)
           n == Len(s)
           outside == {k \in DOMAIN c : ~isTrustedProxy(c[k])}
           last == CHOOSE k \in outside : \A j \in outside : j <= k
           inside == {k \in DOMAIN s : ~isTrustedProxy(s[k])}
           inner == CHOOSE k \in inside : \A j \in inside : j <= k
<1>1. n \in Nat /\ DOMAIN s = 1 .. n
  BY LenProperties
<1>2. /\ DOMAIN c = 1 .. n + 1 /\ c[n + 1] = e
      /\ \A k \in 1 .. n : c[k] = s[k]
  BY <1>1, AppendProperties, LenProperties
<1>3. LastOutside(c) = IF outside = {} THEN c[1] ELSE c[last]
  BY DEF LastOutside
<1>4. LastOutside(s) = IF inside = {} THEN s[1] ELSE s[inner]
  BY DEF LastOutside
<1>5. s = <<>> <=> n = 0
  BY EmptySeq
<1>6. CASE ~isTrustedProxy(e)
  <2>1. n + 1 \in outside /\ outside \subseteq 1 .. n + 1
    BY <1>1, <1>2, <1>6
  <2>2. last = n + 1
    <3> HIDE DEF outside, c, n
    <3>1. \A j \in outside : j <= n + 1
      BY <1>1, <2>1
    <3>2. \E k \in outside : \A j \in outside : j <= k
      BY <2>1, <3>1
    <3>3. last \in outside /\ \A j \in outside : j <= last
      BY <3>2
    <3> HIDE DEF last
    <3> QED BY <1>1, <2>1, <3>3
  <2>3. outside # {}
    BY <2>1
  <2> HIDE DEF outside, last, c, n
  <2> QED BY <1>2, <1>3, <1>6, <2>2, <2>3 DEF c
<1>7. CASE isTrustedProxy(e)
  <2>1. outside = inside
    <3> HIDE DEF c, n
    <3> QED BY <1>1, <1>2, <1>7
  <2>2. last = inner
    <3> HIDE DEF outside, inside
    <3> QED BY <2>1
  <2>3. inside # {} => inner \in 1 .. n
    <3>1. inside \in SUBSET (1 .. n)
      BY <1>1
    <3> HIDE DEF inside
    <3>2. inside # {} => \E k \in inside : \A j \in inside : j <= k
      BY <1>1, <3>1, Greatest
    <3>3. inside # {} => inner \in inside
      BY <3>2
    <3> HIDE DEF inner
    <3> QED BY <3>1, <3>3
  <2>4. n = 0 => inside = {}
    BY <1>1
  <2> HIDE DEF outside, last, inside, inner, c, n
  <2> QED BY <1>1, <1>2, <1>3, <1>4, <1>5, <1>7, <2>1, <2>2, <2>3, <2>4 DEF c
<1> QED BY <1>6, <1>7

(* webhookClientIP takes the address of the last machine that is not       *)
(* trusted, whatever the sender wrote.                                     *)
LEMMA Charged ==
  ASSUME NEW route \in Route, NEW written \in Written \cup {Garbage}
  PROVE  /\ webhookClientIP(route[Len(route)], XForwardedFor(route, written))
              = Source(route, written)
         /\ Source(route, written) \in Address
<1> DEFINE n == Len(route)
           peer == route[n]
           front == SubSeq(route, 1, n - 1)
<1>1. /\ route \in Seq(Address) /\ n \in Nat \ {0} /\ peer \in Address
  <2>1. route \in Seq(Address) /\ route # <<>>
    BY GateAssumption
  <2>2. n \in Nat \ {0}
    BY <2>1, EmptySeq
  <2> QED BY <2>1, <2>2
<1>2. CASE written = Garbage
  BY <1>1, <1>2 DEF webhookClientIP, XForwardedFor, Source
<1>3. CASE written # Garbage
  <2> DEFINE xff == written \o front
  <2>1. written \in Seq(Address)
    BY <1>3, GateAssumption
  <2>2. front \in Seq(Address) /\ route = Append(front, peer)
    <3>1. n \in 1 .. n /\ 1 \in 1 .. n
      BY <1>1
    <3>2. SubSeq(route, 1, n) = front \o <<peer>>
      BY <1>1, <3>1, SubSeqRecursiveSecond
    <3>3. SubSeq(route, 1, n) = route
      BY <1>1, SubSeqFull
    <3>4. front \in Seq(Address)
      BY <1>1
    <3>5. Append(front, peer) = front \o <<peer>>
      BY <1>1, <3>4, AppendIsConcat
    <3> QED BY <3>2, <3>3, <3>4, <3>5
  <2> HIDE DEF front, peer
  <2>3. xff \in Seq(Address) /\ written \o route = Append(xff, peer)
    <3>1. xff \in Seq(Address)
      BY <2>1, <2>2, ConcatProperties
    <3>2. <<peer>> \in Seq(Address)
      BY <1>1
    <3>3. route = front \o <<peer>>
      BY <1>1, <2>2, AppendIsConcat
    <3>4. written \o (front \o <<peer>>) = xff \o <<peer>>
      BY <2>1, <2>2, <3>2, ConcatAssociative
    <3>5. Append(xff, peer) = xff \o <<peer>>
      BY <1>1, <3>1, AppendIsConcat
    <3> QED BY <3>1, <3>3, <3>4, <3>5
  <2>4. xff # Garbage /\ XForwardedFor(route, written) = xff
    <3>1. xff # Garbage
      BY <2>3, GateAssumption
    <3> QED BY <1>3, <3>1 DEF XForwardedFor, front
  <2> HIDE DEF xff
  <2>5. Source(route, written) = LastOutside(Append(xff, peer))
    BY <1>3, <2>3 DEF Source
  <2>6. LastOutside(Append(xff, peer))
          = IF ~isTrustedProxy(peer) \/ xff = <<>> THEN peer ELSE LastOutside(xff)
    BY <1>1, <2>3, LastOutsideAppend
  <2>7. webhookClientIP(peer, xff)
          = IF ~isTrustedProxy(peer) \/ xff = <<>> THEN peer ELSE LastOutside(xff)
    BY <2>4 DEF webhookClientIP
  <2>8. xff # <<>> => LastOutside(xff) \in Address
    BY <2>3, LastOutsideType
  <2> QED BY <1>1, <2>4, <2>5, <2>6, <2>7, <2>8 DEF peer
<1> QED BY <1>2, <1>3

----------------------------------------------------------------------------
(* The buckets *)

LEMMA ClientIsRecord ==
  /\ \A c \in Client : c # NoClient /\ c.tokens \in Nat /\ c.idle \in Nat
  /\ \A t, i \in Nat : /\ [tokens |-> t, idle |-> i] \in Client
                       /\ [tokens |-> t, idle |-> i].tokens = t
                       /\ [tokens |-> t, idle |-> i].idle = i
<1>1. \A c \in Client : DOMAIN c = {"tokens", "idle"}
  BY DEF Client
<1>2. DOMAIN NoClient = {"tokens"}
  BY DEF NoClient
<1>3. "idle" # "tokens"
  OBVIOUS
<1>4. \A c \in Client : c # NoClient
  BY <1>1, <1>2, <1>3, Zenon
<1> QED BY <1>4 DEF Client

(* What a bucket holds, from what it held and how long ago. *)
LEMMA TokensOf ==
  /\ Tokens(NoClient) = Burst
  /\ \A c \in Client : Tokens(c) = IF c.tokens + c.idle <= Burst THEN c.tokens + c.idle ELSE Burst
  /\ \A c \in Client \cup {NoClient} : Tokens(c) \in 0 .. Burst
<1>1. Burst \in Nat
  BY LimiterAssumption
<1>2. /\ Tokens(NoClient) = Burst
      /\ \A c \in Client : Tokens(c) = IF c.tokens + c.idle <= Burst THEN c.tokens + c.idle ELSE Burst
  BY ClientIsRecord DEF Tokens
<1> QED BY <1>1, <1>2, ClientIsRecord

LEMMA GateInit == Init => GateInv
<1>1. Period \in Nat /\ 0 \in 0 .. Period
  BY LimiterAssumption
<1> QED BY <1>1, LimiterAssumption DEF Init, GateInv, TypeOK, Balanced

(* A request takes a token from, and adds to the excess of, one source. *)
(* The fingerprint of a post is one of its alert. *)
LEMMA PrintPosted ==
  ASSUME NEW x \in Alert, NEW ends \in BOOLEAN, NEW reading \in Readings[x][ends]
  PROVE  reading.print \in PrintsOf[x]
<1>1. reading \in Readings[x][TRUE] \cup Readings[x][FALSE]
  OBVIOUS
<1> QED BY <1>1 DEF PrintsOf

LEMMA GateRequest ==
  ASSUME GateInv, NEW route \in Route, NEW written \in Written \cup {Garbage},
         NEW alert \in Alert, NEW ends \in BOOLEAN,
         handleWebhook(route, written, alert, ends)
  PROVE  GateInv'
<1> DEFINE ip == Source(route, written)
           old == clients[ip]
           left == IF Tokens(old) = 0 THEN 0 ELSE Tokens(old) - 1
           new == [tokens |-> left, idle |-> 0]
<1>1. ip \in Address /\ ip = webhookClientIP(route[Len(route)], XForwardedFor(route, written))
  BY Charged
<1> HIDE DEF ip
<1>2. /\ clients' = [clients EXCEPT ![ip] = new]
      /\ elapsed' = elapsed
      /\ \/ Tokens(old) = 0 /\ UNCHANGED <<open, firing, excess>>
         \/ /\ Tokens(old) > 0
            /\ \E reading \in Readings[alert][ends] : Accept(alert, ends, reading)
            /\ excess' = [excess EXCEPT ![ip] = @ + 1]
  BY <1>1 DEF handleWebhook, allow, ip
<1>3. old \in Client \cup {NoClient} /\ Tokens(old) \in 0 .. Burst /\ excess[ip] \in Nat
  BY <1>1, TokensOf DEF GateInv, TypeOK
<1>4. Burst \in Nat \ {0} /\ IdleAfter \in Nat /\ elapsed \in Nat
  BY LimiterAssumption DEF GateInv, TypeOK
<1>5. left \in Nat /\ left <= Burst
  BY <1>3, <1>4
<1>6. new \in Client /\ new # NoClient /\ new.idle = 0 /\ Tokens(new) = left
  <2>1. new \in Client /\ new.tokens = left /\ new.idle = 0
    BY <1>5, ClientIsRecord
  <2> HIDE DEF new, left
  <2> QED BY <1>4, <1>5, <2>1, ClientIsRecord, TokensOf
<1>7. Tokens(old) = Burst - excess[ip] /\ excess[ip] <= Burst
  BY <1>1, <1>3, <1>4, TokensOf DEF GateInv, Balanced
<1>8. TypeOK'
  <2>1. clients' \in [Address -> Client \cup {NoClient}]
    <3> HIDE DEF new
    <3> QED BY <1>2, <1>6 DEF GateInv, TypeOK
  <2>2. elapsed' \in 0 .. Period
    BY <1>2 DEF GateInv, TypeOK
  <2>3. excess' \in [Address -> Nat]
    BY <1>2, <1>3 DEF GateInv, TypeOK
  <2>4. /\ open' \subseteq ReadPrints
        /\ firing' \subseteq Alert
    <3>1. CASE UNCHANGED <<open, firing, excess>>
      BY <3>1 DEF GateInv, TypeOK
    <3>2. ASSUME NEW reading \in Readings[alert][ends], Accept(alert, ends, reading)
          PROVE  /\ open' \subseteq ReadPrints
                 /\ firing' \subseteq Alert
      <4>1. reading.print \in ReadPrints
        BY <3>2, PrintPosted DEF ReadPrints
      <4> QED BY <3>2, <4>1 DEF GateInv, TypeOK, Accept
    <3> QED BY <1>2, <3>1, <3>2
  <2> QED BY <2>1, <2>2, <2>3, <2>4 DEF TypeOK
<1>9. Balanced'
  <2> HIDE DEF new
  <2>1. clients'[ip] = new
    BY <1>1, <1>2 DEF GateInv, TypeOK
  <2>2. excess'[ip] \in Nat /\ excess'[ip] <= Burst /\ left = Burst - excess'[ip]
    BY <1>1, <1>2, <1>3, <1>4, <1>7 DEF GateInv, TypeOK
  <2>3. \A a \in Address \ {ip} : clients'[a] = clients[a] /\ excess'[a] = excess[a]
    BY <1>2 DEF GateInv, TypeOK
  <2> HIDE DEF left, old
  <2>4. \A a \in Address \ {ip} :
          /\ clients'[a] = NoClient => excess'[a] = 0
          /\ clients'[a] # NoClient =>
               /\ clients'[a].idle <= IdleAfter + elapsed'
               /\ excess'[a] <= Burst
               /\ Tokens(clients'[a]) = Burst - excess'[a]
    BY <1>2, <2>3 DEF GateInv, Balanced
  <2>5. /\ clients'[ip] # NoClient /\ clients'[ip].idle <= IdleAfter + elapsed'
        /\ excess'[ip] <= Burst /\ Tokens(clients'[ip]) = Burst - excess'[ip]
    BY <1>2, <1>4, <1>6, <2>1, <2>2
  <2>6. Balanced' = \A a \in Address :
          /\ clients'[a] = NoClient => excess'[a] = 0
          /\ clients'[a] # NoClient =>
               /\ clients'[a].idle <= IdleAfter + elapsed'
               /\ excess'[a] <= Burst
               /\ Tokens(clients'[a]) = Burst - excess'[a]
    BY DEF Balanced, Tokens
  <2> QED BY <2>4, <2>5, <2>6
<1> QED BY <1>8, <1>9 DEF GateInv

(* A bucket that is pruned is full: it has been idle for as long as the    *)
(* refill of all of it takes.                                              *)
LEMMA GateCleanup ==
  ASSUME GateInv, cleanup
  PROVE  GateInv'
<1>1. /\ Burst \in Nat \ {0} /\ IdleAfter \in Nat /\ Period \in Nat \ {0}
      /\ Burst <= IdleAfter + 1
  BY LimiterAssumption
<1>2. TypeOK'
  BY <1>1 DEF GateInv, TypeOK, cleanup
<1>3. ASSUME NEW ip \in Address
      PROVE  /\ clients'[ip] = NoClient => excess'[ip] = 0
             /\ clients'[ip] # NoClient =>
                  /\ clients'[ip].idle <= IdleAfter + elapsed'
                  /\ excess'[ip] <= Burst
                  /\ Tokens(clients'[ip]) = Burst - excess'[ip]
  <2>1. /\ clients'[ip] = IF Stale(clients[ip]) THEN NoClient ELSE clients[ip]
        /\ elapsed' = 0 /\ excess'[ip] = excess[ip]
    BY DEF cleanup
  <2>2. clients[ip] \in Client \cup {NoClient} /\ excess[ip] \in Nat
    BY DEF GateInv, TypeOK
  <2>3. /\ clients[ip] = NoClient => excess[ip] = 0
        /\ clients[ip] # NoClient =>
             excess[ip] <= Burst /\ Tokens(clients[ip]) = Burst - excess[ip]
    BY DEF GateInv, Balanced
  <2>4. CASE Stale(clients[ip])
    <3>1. /\ clients[ip] \in Client /\ clients[ip].idle > IdleAfter
          /\ clients[ip].tokens \in Nat /\ clients[ip].idle \in Nat
      BY <2>2, <2>4, ClientIsRecord DEF Stale
    <3>2. Tokens(clients[ip]) = Burst
      BY <1>1, <3>1, TokensOf
    <3>3. excess[ip] = 0
      BY <1>1, <2>2, <2>3, <3>1, <3>2, ClientIsRecord
    <3> QED BY <2>1, <2>4, <3>3
  <2>5. CASE ~Stale(clients[ip])
    <3>1. clients[ip] # NoClient => clients[ip].idle <= IdleAfter
      BY <1>1, <2>2, <2>5, ClientIsRecord DEF Stale
    <3> QED BY <1>1, <2>1, <2>3, <2>5, <3>1
  <2> QED BY <2>4, <2>5
<1> QED BY <1>2, <1>3 DEF GateInv, Balanced, Tokens

(* As time passes the bucket fills while the excess wears off. *)
LEMMA GateTick ==
  ASSUME GateInv, Tick
  PROVE  GateInv'
<1>1. /\ Burst \in Nat \ {0} /\ IdleAfter \in Nat /\ Period \in Nat \ {0}
      /\ elapsed \in 0 .. Period /\ elapsed < Period /\ elapsed' = elapsed + 1
  BY LimiterAssumption DEF GateInv, TypeOK, Tick
<1>2. ASSUME NEW ip \in Address
      PROVE  /\ clients'[ip] \in Client \cup {NoClient} /\ excess'[ip] \in Nat
             /\ clients'[ip] = NoClient => excess'[ip] = 0
             /\ clients'[ip] # NoClient =>
                  /\ clients'[ip].idle <= IdleAfter + elapsed'
                  /\ excess'[ip] <= Burst
                  /\ Tokens(clients'[ip]) = Burst - excess'[ip]
  <2>1. /\ clients'[ip] = IF clients[ip] = NoClient THEN NoClient
                          ELSE [clients[ip] EXCEPT !.idle = @ + 1]
        /\ excess'[ip] = IF excess[ip] = 0 THEN 0 ELSE excess[ip] - 1
    BY DEF Tick
  <2>2. clients[ip] \in Client \cup {NoClient} /\ excess[ip] \in Nat
    BY DEF GateInv, TypeOK
  <2>3. /\ clients[ip] = NoClient => excess[ip] = 0
        /\ clients[ip] # NoClient =>
             /\ clients[ip].idle <= IdleAfter + elapsed
             /\ excess[ip] <= Burst /\ Tokens(clients[ip]) = Burst - excess[ip]
    BY DEF GateInv, Balanced
  <2>4. CASE clients[ip] = NoClient
    BY <2>1, <2>2, <2>3, <2>4
  <2>5. CASE clients[ip] # NoClient
    <3>1. clients[ip] \in Client /\ clients[ip].tokens \in Nat /\ clients[ip].idle \in Nat
      BY <2>2, <2>5, ClientIsRecord
    <3>2. /\ clients'[ip] \in Client
          /\ clients'[ip].tokens = clients[ip].tokens
          /\ clients'[ip].idle = clients[ip].idle + 1
      BY <2>1, <2>5, <3>1 DEF Client
    <3>3. clients'[ip] # NoClient
      BY <3>2, ClientIsRecord
    <3>4. Tokens(clients[ip])
            = IF clients[ip].tokens + clients[ip].idle <= Burst
              THEN clients[ip].tokens + clients[ip].idle ELSE Burst
      BY <3>1, TokensOf
    <3>5. Tokens(clients'[ip])
            = IF clients[ip].tokens + (clients[ip].idle + 1) <= Burst
              THEN clients[ip].tokens + (clients[ip].idle + 1) ELSE Burst
      BY <3>2, TokensOf
    <3>6. /\ excess'[ip] \in Nat /\ excess'[ip] <= Burst
          /\ Tokens(clients'[ip]) = Burst - excess'[ip]
      BY <1>1, <2>1, <2>2, <2>3, <2>5, <3>1, <3>4, <3>5
    <3>7. clients'[ip].idle <= IdleAfter + elapsed'
      BY <1>1, <2>3, <2>5, <3>1, <3>2
    <3> QED BY <3>2, <3>3, <3>6, <3>7
  <2> QED BY <2>4, <2>5
<1>3. TypeOK'
  <2>1. clients' = [ip \in Address |-> clients'[ip]] /\ excess' = [ip \in Address |-> excess'[ip]]
    BY DEF Tick
  <2>2. clients' \in [Address -> Client \cup {NoClient}] /\ excess' \in [Address -> Nat]
    BY <1>2, <2>1
  <2> QED BY <1>1, <2>2 DEF GateInv, TypeOK, Tick
<1> QED BY <1>2, <1>3 DEF GateInv, Balanced, Tokens

(* The invariant of the limiter is inductive. *)
THEOREM GateInductive == Spec => []GateInv
<1>1. GateInv /\ [Next]_vars => GateInv'
  <2> SUFFICES ASSUME GateInv, [Next]_vars PROVE GateInv'
    OBVIOUS
  <2>1. CASE \E route \in Route, written \in Written \cup {Garbage}, alert \in Alert, ends \in BOOLEAN :
               handleWebhook(route, written, alert, ends)
    BY <2>1, GateRequest
  <2>2. CASE cleanup
    BY <2>2, GateCleanup
  <2>3. CASE Tick
    BY <2>3, GateTick
  <2>4. CASE UNCHANGED vars
    BY <2>4 DEF GateInv, TypeOK, Balanced, Tokens, vars
  <2> QED BY <2>1, <2>2, <2>3, <2>4 DEF Next
<1> QED BY <1>1, GateInit, PTL DEF Spec

(* The state of the limiter keeps its type; no bucket is overdrawn. *)
THEOREM GateTypeCorrect == Spec => []TypeOK
<1>1. GateInv => TypeOK
  BY DEF GateInv
<1> QED BY <1>1, GateInductive, PTL

(* For every set of addresses and whatever the senders write into          *)
(* X-Forwarded-For, no source gets more than the burst beyond one request  *)
(* a unit through allow, pruned or not, and none is refused before.        *)
THEOREM RateKept == Spec => []RateIsKept
<1>1. GateInv => RateIsKept
  <2> SUFFICES ASSUME GateInv, NEW ip \in Address
               PROVE  /\ excess[ip] <= Burst
                      /\ excess[ip] < Burst => Tokens(clients[ip]) > 0
    BY DEF RateIsKept
  <2>1. Burst \in Nat \ {0} /\ excess[ip] \in Nat
    BY LimiterAssumption DEF GateInv, TypeOK
  <2>2. CASE clients[ip] = NoClient
    <3>1. excess[ip] = 0 /\ Tokens(clients[ip]) = Burst
      BY <2>2, TokensOf DEF GateInv, Balanced
    <3> QED BY <2>1, <3>1
  <2>3. CASE clients[ip] # NoClient
    <3>1. excess[ip] <= Burst /\ Tokens(clients[ip]) = Burst - excess[ip]
      BY <2>3 DEF GateInv, Balanced
    <3> QED BY <2>1, <3>1
  <2> QED BY <2>2, <2>3
<1> QED BY <1>1, GateInductive, PTL

(* The map of clients holds no bucket that has been idle for more than the *)
(* pruning age and one period of the clean-up goroutine.                   *)
THEOREM IdlePruned == Spec => []IdleIsPruned
<1>1. GateInv => IdleIsPruned
  <2> SUFFICES ASSUME GateInv, NEW ip \in Address, clients[ip] # NoClient
               PROVE  clients[ip].idle <= IdleAfter + Period
    BY DEF IdleIsPruned
  <2>1. clients[ip] \in Client /\ clients[ip].idle \in Nat
    BY ClientIsRecord DEF GateInv, TypeOK
  <2>2. clients[ip].idle <= IdleAfter + elapsed
    BY DEF GateInv, Balanced
  <2>3. IdleAfter \in Nat /\ Period \in Nat /\ elapsed \in 0 .. Period
    BY LimiterAssumption DEF GateInv, TypeOK
  <2> QED BY <2>1, <2>2, <2>3
<1> QED BY <1>1, GateInductive, PTL

----------------------------------------------------------------------------
(* From a post to its incident *)

Joined(a, b, c) == a \o <<Bar>> \o b \o <<Bar>> \o c

(* What two texts in a row hold. *)
TwoParts(j, a, b) ==
  /\ j \in Seq(Token) /\ Len(j) = Len(a) + Len(b)
  /\ \A k \in 1 .. Len(a) : j[k] = a[k]
  /\ \A k \in 1 .. Len(b) : j[Len(a) + k] = b[k]

LEMMA Concatenated ==
  ASSUME NEW a \in Seq(Token), NEW b \in Seq(Token)
  PROVE  TwoParts(a \o b, a, b)
<1> DEFINE j == a \o b
<1>1. /\ j \in Seq(Token) /\ Len(j) = Len(a) + Len(b)
      /\ \A i \in 1 .. Len(a) + Len(b) : j[i] = IF i <= Len(a) THEN a[i] ELSE b[i - Len(a)]
  BY ConcatProperties
<1>2. Len(a) \in Nat /\ Len(b) \in Nat
  OBVIOUS
<1> HIDE DEF j
<1>3. \A k \in 1 .. Len(a) : j[k] = a[k]
  BY <1>1, <1>2
<1>4. ASSUME NEW k \in 1 .. Len(b) PROVE j[Len(a) + k] = b[k]
  <2>1. Len(a) + k \in 1 .. Len(a) + Len(b) /\ ~(Len(a) + k <= Len(a)) /\ (Len(a) + k) - Len(a) = k
    BY <1>2
  <2>2. j[Len(a) + k] = b[(Len(a) + k) - Len(a)]
    BY <1>1, <2>1
  <2>3. QED
    BY <2>1, <2>2
<1>5. TwoParts(j, a, b)
  BY <1>1, <1>3, <1>4 DEF TwoParts
<1>6. QED
  BY <1>5 DEF j

(* Where the parts of a joined text are. *)
ThreeParts(j, a, b, c) ==
  /\ Len(j) = Len(a) + Len(b) + Len(c) + 2
  /\ \A k \in 1 .. Len(a) : j[k] = a[k]
  /\ \A k \in 1 .. Len(b) : j[Len(a) + 1 + k] = b[k]
  /\ \A k \in 1 .. Len(c) : j[Len(a) + Len(b) + 2 + k] = c[k]
  /\ j[Len(a) + 1] = Bar /\ j[Len(a) + Len(b) + 2] = Bar

LEMMA JoinedParts ==
  ASSUME NEW a \in Words, NEW b \in Words, NEW c \in Words
  PROVE  ThreeParts(Joined(a, b, c), a, b, c)
<1> DEFINE bar == <<Bar>>
<1>1. /\ a \in Seq(Token) /\ b \in Seq(Token) /\ c \in Seq(Token) /\ bar \in Seq(Token)
      /\ Len(bar) = 1 /\ bar[1] = Bar
  BY DEF Words, Token
<1>2. /\ Len(a) \in Nat /\ Len(b) \in Nat /\ Len(c) \in Nat
  BY <1>1
<1> DEFINE p == a \o bar
           q == p \o b
           s == q \o bar
           j == s \o c
<1>3. Joined(a, b, c) = j
  BY DEF Joined
<1> HIDE DEF bar
<1>4. TwoParts(p, a, bar)
  BY <1>1, Concatenated
<1> HIDE DEF p
<1>5. p \in Seq(Token)
  BY <1>4 DEF TwoParts
<1>6. TwoParts(q, p, b)
  BY <1>1, <1>5, Concatenated
<1> HIDE DEF q
<1>7. q \in Seq(Token)
  BY <1>6 DEF TwoParts
<1>8. TwoParts(s, q, bar)
  BY <1>1, <1>7, Concatenated
<1> HIDE DEF s
<1>9. s \in Seq(Token)
  BY <1>8 DEF TwoParts
<1>10. TwoParts(j, s, c)
  BY <1>1, <1>9, Concatenated
<1> HIDE DEF j
<1>11. /\ Len(p) = Len(a) + 1 /\ Len(q) = Len(a) + Len(b) + 1 /\ Len(s) = Len(a) + Len(b) + 2
       /\ Len(j) = Len(a) + Len(b) + Len(c) + 2
  BY <1>1, <1>2, <1>4, <1>6, <1>8, <1>10 DEF TwoParts
<1>12. \A k \in 1 .. Len(s) : j[k] = s[k]
  BY <1>10 DEF TwoParts
<1>13. \A k \in 1 .. Len(q) : j[k] = q[k]
  <2>1. \A k \in 1 .. Len(q) : k \in 1 .. Len(s) /\ s[k] = q[k]
    BY <1>2, <1>8, <1>11 DEF TwoParts
  <2>2. QED
    BY <1>12, <2>1
<1>14. \A k \in 1 .. Len(p) : j[k] = p[k]
  <2>1. \A k \in 1 .. Len(p) : k \in 1 .. Len(q) /\ q[k] = p[k]
    BY <1>2, <1>6, <1>11 DEF TwoParts
  <2>2. QED
    BY <1>13, <2>1
<1>15. \A k \in 1 .. Len(a) : j[k] = a[k]
  <2>1. \A k \in 1 .. Len(a) : k \in 1 .. Len(p) /\ p[k] = a[k]
    BY <1>2, <1>4, <1>11 DEF TwoParts
  <2>2. QED
    BY <1>14, <2>1
<1>16. p[Len(a) + 1] = Bar /\ s[Len(q) + 1] = Bar
  <2>1. 1 \in 1 .. Len(bar)
    BY <1>1
  <2>2. p[Len(a) + 1] = bar[1] /\ s[Len(q) + 1] = bar[1]
    BY <1>4, <1>8, <2>1 DEF TwoParts
  <2>3. QED
    BY <1>1, <2>2
<1>17. j[Len(a) + 1] = Bar
  <2>1. Len(a) + 1 \in 1 .. Len(p)
    BY <1>2, <1>11
  <2>2. QED
    BY <1>14, <1>16, <2>1
<1>18. j[Len(a) + Len(b) + 2] = Bar
  <2>1. Len(a) + Len(b) + 2 = Len(q) + 1 /\ Len(q) + 1 \in 1 .. Len(s)
    BY <1>2, <1>11
  <2>2. QED
    BY <1>12, <1>16, <2>1
<1>19. ASSUME NEW k \in 1 .. Len(b) PROVE j[Len(a) + 1 + k] = b[k]
  <2>1. Len(p) + k = Len(a) + 1 + k /\ Len(p) + k \in 1 .. Len(q)
    BY <1>2, <1>11
  <2>2. q[Len(p) + k] = b[k]
    BY <1>6 DEF TwoParts
  <2>3. QED
    BY <1>13, <2>1, <2>2
<1>20. ASSUME NEW k \in 1 .. Len(c) PROVE j[Len(a) + Len(b) + 2 + k] = c[k]
  <2>1. j[Len(s) + k] = c[k]
    BY <1>10 DEF TwoParts
  <2>2. QED
    BY <1>11, <2>1
<1>21. ThreeParts(j, a, b, c)
  BY <1>11, <1>15, <1>17, <1>18, <1>19, <1>20 DEF ThreeParts
<1>22. QED
  BY <1>3, <1>21

(* Parts without a bar can be told from the joined text, even from those   *)
(* of parts that have one: two bars are all there are.                     *)
LEMMA JoinedApart ==
  ASSUME NEW a \in Words, NEW b \in Words, NEW c \in Words,
         NEW d \in Words, NEW e \in Words, NEW f \in Words,
         BarFree(a), BarFree(b), BarFree(c),
         NEW j, ThreeParts(j, a, b, c), ThreeParts(j, d, e, f)
  PROVE  a = d /\ b = e /\ c = f
<1>1. /\ Len(j) = Len(a) + Len(b) + Len(c) + 2
      /\ \A k \in 1 .. Len(a) : j[k] = a[k]
      /\ \A k \in 1 .. Len(b) : j[Len(a) + 1 + k] = b[k]
      /\ \A k \in 1 .. Len(c) : j[Len(a) + Len(b) + 2 + k] = c[k]
  BY DEF ThreeParts
<1>2. /\ Len(j) = Len(d) + Len(e) + Len(f) + 2
      /\ \A k \in 1 .. Len(d) : j[k] = d[k]
      /\ \A k \in 1 .. Len(e) : j[Len(d) + 1 + k] = e[k]
      /\ \A k \in 1 .. Len(f) : j[Len(d) + Len(e) + 2 + k] = f[k]
      /\ j[Len(d) + 1] = Bar /\ j[Len(d) + Len(e) + 2] = Bar
  BY DEF ThreeParts
<1>3. /\ Len(a) \in Nat /\ Len(b) \in Nat /\ Len(c) \in Nat
      /\ Len(d) \in Nat /\ Len(e) \in Nat /\ Len(f) \in Nat
  BY DEF Words
<1>4. ASSUME NEW k \in 1 .. Len(j), j[k] = Bar
      PROVE  k = Len(a) + 1 \/ k = Len(a) + Len(b) + 2
  <2>1. /\ \A i \in 1 .. Len(a) : a[i] # Bar
        /\ \A i \in 1 .. Len(b) : b[i] # Bar
        /\ \A i \in 1 .. Len(c) : c[i] # Bar
    BY DEF BarFree, Words
  <2>2. k \notin 1 .. Len(a)
    BY <1>1, <1>4, <2>1
  <2>3. ~(k > Len(a) + 1 /\ k < Len(a) + Len(b) + 2)
    <3> SUFFICES ASSUME k > Len(a) + 1, k < Len(a) + Len(b) + 2 PROVE FALSE
      OBVIOUS
    <3>1. k - (Len(a) + 1) \in 1 .. Len(b)
      BY <1>3
    <3>2. j[Len(a) + 1 + (k - (Len(a) + 1))] = b[k - (Len(a) + 1)]
      BY <1>1, <3>1
    <3>3. QED
      BY <1>3, <1>4, <2>1, <3>1, <3>2
  <2>4. ~(k > Len(a) + Len(b) + 2)
    <3> SUFFICES ASSUME k > Len(a) + Len(b) + 2 PROVE FALSE
      OBVIOUS
    <3>1. k - (Len(a) + Len(b) + 2) \in 1 .. Len(c)
      BY <1>1, <1>3
    <3>2. j[Len(a) + Len(b) + 2 + (k - (Len(a) + Len(b) + 2))] = c[k - (Len(a) + Len(b) + 2)]
      BY <1>1, <3>1
    <3>3. QED
      BY <1>3, <1>4, <2>1, <3>1, <3>2
  <2>5. k \in Nat /\ k >= 1
    BY <1>1, <1>3
  <2>6. k >= Len(a) + 1
    BY <1>3, <2>2, <2>5
  <2>7. QED
    BY <1>3, <2>3, <2>4, <2>5, <2>6
<1>5. Len(d) + 1 \in 1 .. Len(j) /\ Len(d) + Len(e) + 2 \in 1 .. Len(j)
  BY <1>2, <1>3
<1>6. Len(d) = Len(a) /\ Len(e) = Len(b) /\ Len(f) = Len(c)
  <2>1. Len(d) + 1 = Len(a) + 1 \/ Len(d) + 1 = Len(a) + Len(b) + 2
    BY <1>2, <1>4, <1>5
  <2>2. Len(d) + Len(e) + 2 = Len(a) + 1 \/ Len(d) + Len(e) + 2 = Len(a) + Len(b) + 2
    BY <1>2, <1>4, <1>5
  <2>3. QED
    BY <1>1, <1>2, <1>3, <2>1, <2>2
<1>7. /\ \A k \in 1 .. Len(a) : a[k] = d[k]
      /\ \A k \in 1 .. Len(b) : b[k] = e[k]
      /\ \A k \in 1 .. Len(c) : c[k] = f[k]
  BY <1>1, <1>2, <1>6
<1>8. QED
  BY <1>6, <1>7, SeqEqual DEF Words

LEMMA Identities ==
  ASSUME NEW x \in Alert
  PROVE  /\ Identity(x).source \in Words /\ Identity(x).title \in Words
         /\ Identity(x).service \in Words
<1>1. \A w \in Word : <<w>> \in Words
  BY DEF Words, Token
<1>2. x.dialect \in Dialect /\ x.source \in Words /\ x.title \in Words /\ x.service \in Words
  BY AlertAssumption
<1>3. x.dialect = "explicit" \/ <<x.dialect>> \in Words
  BY <1>1, <1>2, GateAssumption DEF Dialect
<1>4. <<"alert">> \in Words /\ <<"datadog alert">> \in Words
  BY <1>1, GateAssumption
<1>5. QED
  BY <1>2, <1>3, <1>4 DEF Identity

(* The fingerprint an identity has. *)
PrintOf(x) == Joined(Identity(x).source, Identity(x).title, Identity(x).service)

(* An alert that is recognised shares its fingerprint with no other. *)
LEMMA PrintsApart ==
  ASSUME NEW x \in Alert, NEW y \in Alert, Recognised(x), PrintOf(x) = PrintOf(y)
  PROVE  x = y
<1>1. /\ Identity(x).source = Identity(y).source
      /\ Identity(x).title = Identity(y).title
      /\ Identity(x).service = Identity(y).service
  <2> DEFINE u == Identity(x)
             v == Identity(y)
  <2>1. /\ u.source \in Words /\ u.title \in Words /\ u.service \in Words
        /\ v.source \in Words /\ v.title \in Words /\ v.service \in Words
    BY Identities
  <2>2. BarFree(u.source) /\ BarFree(u.title) /\ BarFree(u.service)
    BY DEF Recognised
  <2>3. Joined(u.source, u.title, u.service) = Joined(v.source, v.title, v.service)
    BY DEF PrintOf
  <2> HIDE DEF u, v
  <2> DEFINE j == Joined(u.source, u.title, u.service)
  <2>4. ThreeParts(j, u.source, u.title, u.service) /\ ThreeParts(j, v.source, v.title, v.service)
    BY <2>1, <2>3, JoinedParts
  <2> HIDE DEF j
  <2>5. u.source = v.source /\ u.title = v.title /\ u.service = v.service
    BY <2>1, <2>2, <2>4, JoinedApart
  <2>6. QED
    BY <2>5 DEF u, v
<1>2. Identity(x) = Identity(y)
  BY <1>1 DEF Identity
<1>3. QED
  BY <1>2 DEF Recognised

(* What a post of each dialect is known to hold. *)
LEMMA Post ==
  ASSUME NEW x \in Alert, NEW ends \in BOOLEAN, NEW p \in Posts(x, ends)
  PROVE  /\ p.marker = "typed" <=> x.dialect = "datadog"
         /\ x.dialect = "datadog" => /\ p.alertType = IF ends THEN "success" ELSE "error"
                                     /\ p.title.kind # "other"
         /\ x.dialect = "explicit" => p.source.kind = "text" /\ p.source.words = x.source
         /\ x.dialect \in {"grafana", "generic"} => p.source.kind # "text"
         /\ x.dialect = "grafana" => /\ p.title.kind # "other" /\ p.ruleName.kind # "other"
                                     /\ p.state = IF ends THEN "ok" ELSE "alerting"
         /\ x.dialect = "generic" => p.ruleName.kind # "text" /\ p.state = ""
         /\ x.dialect \in {"explicit", "generic"} => (p.status = "resolved" <=> ends)
         /\ p.service.words = x.service
         /\ IF x.title = <<>> THEN Headline(x.dialect, p).kind # "text"
            ELSE /\ Headline(x.dialect, p).kind = "text"
                 /\ Headline(x.dialect, p).words = x.title
<1> DEFINE is(dialect) == x.dialect = dialect
<1>1. p.marker \in IF is("datadog") THEN {"typed"} ELSE {"missing", "mistyped"}
  BY DEF Posts
<1>2. p.alertType \in IF ~is("datadog") THEN {"", "success", "other"}
                      ELSE IF ends THEN {"success"} ELSE {"error"}
  BY DEF Posts
<1>3. p.source \in CASE is("datadog") -> Stray
                     [] is("explicit") -> {[NoText EXCEPT !.kind = "text", !.words = x.source]}
                     [] is("grafana") \/ is("generic") -> {NoText, Other}
  BY DEF Posts
<1>4. p.state \in CASE is("generic") -> {""}
                    [] is("grafana") -> IF ends THEN {"ok"} ELSE {"alerting"}
                    [] is("datadog") \/ is("explicit") -> {"", "alerting", "ok", "other"}
  BY DEF Posts
<1>5. p.status \in IF is("datadog") \/ is("grafana") THEN {"", "firing", "resolved", "other"}
                   ELSE IF ends THEN {"resolved"} ELSE {"", "firing"}
  BY DEF Posts
<1>6. p.service \in IF x.service = <<>> THEN {NoText, Other} ELSE Text({x.service})
  BY DEF Posts
<1>7. /\ is("datadog") \/ is("grafana") => p.title.kind \in {"missing", "text"}
      /\ is("grafana") => p.ruleName.kind \in {"missing", "text"}
      /\ is("generic") => p.ruleName.kind # "text"
      /\ IF x.title = <<>> THEN Headline(x.dialect, p).kind # "text"
         ELSE /\ Headline(x.dialect, p).kind = "text"
              /\ Headline(x.dialect, p).words = x.title
  BY DEF Posts
<1>8. p.service.words = x.service
  <2>1. CASE x.service = <<>>
    BY <1>6, <2>1 DEF NoText, Other
  <2>2. CASE x.service # <<>>
    <3>1. p.service \in Text({x.service})
      BY <1>6, <2>2
    <3>2. QED
      BY <3>1 DEF Text
  <2>3. QED
    BY <2>1, <2>2
<1>9. /\ is("explicit") => p.source.kind = "text" /\ p.source.words = x.source
      /\ is("grafana") \/ is("generic") => p.source.kind # "text"
  <2>1. ASSUME is("explicit") PROVE p.source.kind = "text" /\ p.source.words = x.source
    <3>1. p.source = [NoText EXCEPT !.kind = "text", !.words = x.source]
      BY <1>3, <2>1
    <3>2. QED
      BY <3>1 DEF NoText
  <2>2. ASSUME is("grafana") \/ is("generic") PROVE p.source.kind # "text"
    <3>1. p.source \in {NoText, Other}
      BY <1>3, <2>2
    <3>2. QED
      BY <3>1 DEF NoText, Other
  <2>3. QED
    BY <2>1, <2>2
<1>10. QED
  BY <1>1, <1>2, <1>4, <1>5, <1>7, <1>8, <1>9

(* Whatever else a post of an alert carries, its dialect is recognised,    *)
(* its fingerprint is that of the alert, and it resolves exactly when the  *)
(* alert ends.                                                             *)
LEMMA PostsAreRead ==
  ASSUME NEW x \in Alert, NEW ends \in BOOLEAN, NEW p \in Posts(x, ends)
  PROVE  Reading(p).print = PrintOf(x) /\ Reading(p).resolved = ends
<1> DEFINE parsed == parseWebhookPayload(p)
<1> SUFFICES /\ parsed.source = Identity(x).source
             /\ parsed.title.words = Identity(x).title
             /\ parsed.resolved = ends
  BY Post DEF Reading, PrintOf, Joined, incidentFingerprint, Normal, Identity
<1>1. CASE x.dialect = "datadog"
  <2>1. IsDatadog(p)
    BY <1>1, Post DEF IsDatadog
  <2>2. parsed = [source |-> <<"datadog">>, title |-> FirstText(p.title, Fallback("datadog alert")),
                  resolved |-> p.alertType = "success"]
    BY <2>1 DEF parseWebhookPayload
  <2>3. FirstText(p.title, Fallback("datadog alert")).words = Identity(x).title
    BY <1>1, Post DEF Headline, FirstText, Fallback, Identity
  <2>4. (p.alertType = "success") = ends
    BY <1>1, Post
  <2> HIDE DEF parsed
  <2>5. QED
    BY <1>1, <2>2, <2>3, <2>4 DEF Identity
<1>2. x.dialect # "datadog" => ~IsDatadog(p)
  BY Post DEF IsDatadog
<1>3. CASE x.dialect = "explicit"
  <2>1. parsed = [source |-> p.source.words,
                  title |-> FirstText(p.title, FirstText(p.name, Fallback("alert"))),
                  resolved |-> p.status = "resolved"]
    BY <1>2, <1>3, Post DEF parseWebhookPayload
  <2>2. FirstText(p.title, FirstText(p.name, Fallback("alert"))).words = Identity(x).title
    BY <1>3, Post DEF Headline, FirstText, Fallback, Identity
  <2>3. (p.status = "resolved") = ends /\ p.source.words = x.source
    BY <1>3, Post
  <2> HIDE DEF parsed
  <2>4. QED
    BY <1>3, <2>1, <2>2, <2>3 DEF Identity
<1>4. CASE x.dialect = "grafana"
  <2>1. IsGrafana(p)
    BY <1>4, Post DEF IsGrafana
  <2>2. parsed = [source |-> <<"grafana">>, title |-> FirstText(p.title, p.ruleName),
                  resolved |-> p.state = "ok"]
    BY <1>2, <1>4, <2>1, Post DEF parseWebhookPayload
  <2>3. FirstText(p.title, p.ruleName).words = Identity(x).title
    <3>1. /\ Headline(x.dialect, p) = FirstText(p.title, p.ruleName)
          /\ Identity(x).title = x.title
      BY <1>4 DEF Headline, Identity
    <3> DEFINE head == Headline(x.dialect, p)
    <3>0. IF x.title = <<>> THEN head.kind # "text" ELSE head.words = x.title
      BY Post
    <3>2. CASE x.title # <<>>
      <4>1. head.words = x.title
        BY <3>0, <3>2
      <4>2. QED
        BY <3>1, <4>1
    <3>3. CASE x.title = <<>>
      <4>1. FirstText(p.title, p.ruleName).kind # "text"
        BY <3>0, <3>1, <3>3
      <4>2. FirstText(p.title, p.ruleName) = p.ruleName
        BY <4>1 DEF FirstText
      <4>3. p.ruleName \in Stray \cup Text({x.title})
        BY DEF Posts
      <4>4. p.ruleName \in {NoText, Other}
        BY <4>1, <4>2, <4>3, GateAssumption DEF Text
      <4>5. QED
        BY <3>1, <3>3, <4>2, <4>4 DEF NoText, Other
    <3>4. QED
      BY <3>2, <3>3
  <2>4. (p.state = "ok") = ends
    BY <1>4, Post
  <2> HIDE DEF parsed
  <2>5. QED
    BY <1>4, <2>2, <2>3, <2>4 DEF Identity
<1>5. CASE x.dialect = "generic"
  <2>1. ~IsGrafana(p)
    BY <1>5, Post DEF IsGrafana
  <2>2. parsed = [source |-> <<"generic">>,
                  title |-> FirstText(p.title, FirstText(p.name, Fallback("alert"))),
                  resolved |-> p.status = "resolved"]
    <3>1. ~IsDatadog(p) /\ p.source.kind # "text"
      BY <1>2, <1>5, Post
    <3>2. QED
      BY <2>1, <3>1 DEF parseWebhookPayload
  <2>3. FirstText(p.title, FirstText(p.name, Fallback("alert"))).words = Identity(x).title
    BY <1>5, Post DEF Headline, FirstText, Fallback, Identity
  <2>4. (p.status = "resolved") = ends
    BY <1>5, Post
  <2> HIDE DEF parsed
  <2>5. QED
    BY <1>5, <2>2, <2>3, <2>4 DEF Identity
<1>6. QED
  BY <1>1, <1>3, <1>4, <1>5, AlertAssumption DEF Dialect

(* The posts of an alert name one incident. *)
LEMMA OnePrint ==
  ASSUME NEW x \in Alert, NEW print \in PrintsOf[x]
  PROVE  print = PrintOf(x)
<1>1. PICK ends \in BOOLEAN : \E reading \in Readings[x][ends] : print = reading.print
  BY DEF PrintsOf
<1>2. PICK reading \in Readings[x][ends] : print = reading.print
  BY <1>1
<1>3. PICK p \in Posts(x, ends) : reading = Reading(p)
  BY DEF Readings
<1>4. QED
  BY <1>2, <1>3, PostsAreRead

(* An alert fires exactly while the incident of its fingerprint is open. *)
OpenIsFiring ==
  \A x \in Alert :
    /\ Recognised(x) => (x \in firing <=> PrintOf(x) \in open)
    /\ x \in firing => PrintOf(x) \in PrintsOf[x]

(* An alert that its identity and the absence of bars tell from all others *)
(* has its one incident open exactly while it fires, for any set of        *)
(* alerts, however their posts are written and whichever of them the       *)
(* limiter turns away.                                                     *)
THEOREM ResolutionsMatch == Spec => []ResolutionMatches
<1>1. Init => OpenIsFiring
  BY DEF Init, OpenIsFiring
<1>2. OpenIsFiring /\ [Next]_vars => OpenIsFiring'
  <2> SUFFICES ASSUME OpenIsFiring, [Next]_vars PROVE OpenIsFiring'
    OBVIOUS
  <2>1. CASE UNCHANGED <<open, firing>>
    BY <2>1 DEF OpenIsFiring
  <2>2. ASSUME NEW alert \in Alert, NEW ends \in BOOLEAN,
               NEW reading \in Readings[alert][ends], Accept(alert, ends, reading)
        PROVE  OpenIsFiring'
    <3>1. PICK p \in Posts(alert, ends) : reading = Reading(p)
      BY <2>2 DEF Readings
    <3>2. reading.print = PrintOf(alert) /\ reading.resolved = ends
      BY <3>1, PostsAreRead
    <3>3. PrintOf(alert) \in PrintsOf[alert]
      BY <3>2, PrintPosted
    <3>4. /\ open' = IF ends THEN open \ {PrintOf(alert)} ELSE open \cup {PrintOf(alert)}
          /\ firing' = IF ends THEN firing \ {alert} ELSE firing \cup {alert}
      BY <2>2, <3>2 DEF Accept
    <3> SUFFICES ASSUME NEW x \in Alert
                 PROVE  /\ Recognised(x) => (x \in firing' <=> PrintOf(x) \in open')
                        /\ x \in firing' => PrintOf(x) \in PrintsOf[x]
      BY DEF OpenIsFiring
    <3>5. CASE x = alert
      BY <3>3, <3>4, <3>5
    <3>6. CASE x # alert
      <4>1. Recognised(x) => PrintOf(x) # PrintOf(alert)
        BY <3>6, PrintsApart
      <4>2. QED
        BY <3>4, <3>6, <4>1 DEF OpenIsFiring
    <3>7. QED
      BY <3>5, <3>6
  <2>3. QED
    BY <2>1, <2>2 DEF Next, vars, handleWebhook, cleanup, Tick
<1>3. OpenIsFiring => ResolutionMatches
  <2> SUFFICES ASSUME OpenIsFiring, NEW x \in Alert, Recognised(x)
               PROVE  Cardinality(PrintsOf[x] \cap open) = IF x \in firing THEN 1 ELSE 0
    BY DEF ResolutionMatches
  <2>1. CASE x \in firing
    <3>1. PrintsOf[x] \cap open = {PrintOf(x)}
      BY <2>1, OnePrint DEF OpenIsFiring
    <3>2. QED
      BY <2>1, <3>1, FS_Singleton
  <2>2. CASE x \notin firing
    <3>1. PrintsOf[x] \cap open = {}
      BY <2>2, OnePrint DEF OpenIsFiring
    <3>2. QED
      BY <2>2, <3>1, FS_EmptySet
  <2>3. QED
    BY <2>1, <2>2
<1>4. QED
  BY <1>1, <1>2, <1>3, PTL DEF Spec
============================================================================
