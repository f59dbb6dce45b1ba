---------------------------- MODULE WebhookGate ----------------------------
(***************************************************************************)
(* What handleWebhook does with a request before it looks an incident up:  *)
(* which address the request is charged to, the token bucket of that       *)
(* address with the goroutine that prunes idle ones, and how a body in one *)
(* of the dialects becomes a fingerprint and a firing or a resolved alert. *)
(* A unit of time is what the refill of a token takes. One server process: *)
(* each replica has buckets of its own.                                    *)
(***************************************************************************)
EXTENDS Naturals, Sequences, FiniteSets

CONSTANTS
  Address,         \* IP addresses
  Trusted,         \* those within TRUSTED_PROXY_CIDRS
  Route,           \* machines a request comes by: the sender first, the peer last
  Written,         \* X-Forwarded-For as senders write it
  Garbage,         \* a header that does not parse
  Burst,           \* tokens of a full bucket
  IdleAfter,       \* a client not seen for longer is pruned
  Period,          \* time between two prunings
  Word,            \* what sources, titles and services are made of, small letters
  Stray,           \* what fields hold that a sender's dialect does not need
  Alert            \* what goes wrong, and how its sender writes of it

Bar == "|"
Token == Word \cup {Bar}
Words == Seq(Token)

Dialect == {"datadog", "explicit", "grafana", "generic"}

(* A field is missing, has a JSON type that is no string, or is a text, in *)
(* small letters and without blanks around it or otherwise.                *)
NoText == [kind |-> "missing", words |-> <<>>, style |-> "lower"]
Other == [kind |-> "other", words |-> <<>>, style |-> "lower"]
Text(words) == [kind : {"text"}, words : words, style : {"lower", "upper"}]

ASSUME GateAssumption ==
  /\ Trusted \subseteq Address
  /\ Route \subseteq Seq(Address) \ {<<>>}
  /\ Written \subseteq Seq(Address) /\ Garbage \notin Seq(Address)
  /\ {"datadog", "grafana", "generic", "alert", "datadog alert"} \subseteq Word
  /\ Bar \notin Word
  /\ Stray \subseteq {NoText, Other} \cup Text(Words)

(* A sender names its source or has none. The label is a service that only *)
(* the labels of the post carry.                                           *)
ASSUME AlertAssumption ==
  \A x \in Alert :
    /\ x.dialect \in Dialect
    /\ x.source \in Words /\ (x.source # <<>> <=> x.dialect = "explicit")
    /\ x.title \in Words /\ x.service \in Words
    /\ x.label \in Word \cup {""}

ASSUME LimiterAssumption ==
  /\ Burst \in Nat \ {0} /\ IdleAfter \in Nat /\ Period \in Nat \ {0}
  /\ Burst <= IdleAfter + 1                       \* 20 and 600

----------------------------------------------------------------------------
(* Bodies *)

(* strings.ToLower and TrimSpace; the text of a field that is none is "". *)
Normal(field) == field.words

FirstText(a, b) == IF a.kind = "text" THEN a ELSE b

Fallback(word) == [kind |-> "text", words |-> <<word>>, style |-> "upper"]

(* A dialect is told by fields it has and by their types: a typed decoding *)
(* of the body fails on any field of another type. The marker stands for   *)
(* alert_id and alert_transition, and for the other fields of the struct.  *)
IsDatadog(p) == p.marker = "typed" /\ p.alertType # "other" /\ p.title.kind # "other"

IsGrafana(p) ==
  /\ p.title.kind # "other" /\ p.ruleName.kind # "other" /\ p.state # "other"
  /\ p.state # "" \/ p.ruleName.kind = "text"

parseWebhookPayload(p) ==
  CASE IsDatadog(p) ->
         [source |-> <<"datadog">>, title |-> FirstText(p.title, Fallback("datadog alert")),
          resolved |-> p.alertType = "success"]
    [] ~IsDatadog(p) /\ p.source.kind = "text" ->
         [source |-> p.source.words,
          title |-> FirstText(p.title, FirstText(p.name, Fallback("alert"))),
          resolved |-> p.status = "resolved"]
    [] ~IsDatadog(p) /\ p.source.kind # "text" /\ IsGrafana(p) ->
         [source |-> <<"grafana">>, title |-> FirstText(p.title, p.ruleName),
          resolved |-> p.state = "ok"]
    [] OTHER ->
         [source |-> <<"generic">>,
          title |-> FirstText(p.title, FirstText(p.name, Fallback("alert"))),
          resolved |-> p.status = "resolved"]

(* Mutant: title alone. *)
incidentFingerprint_NoService(source, title, service) == source \o <<Bar>> \o Normal(title)

(* The fields are joined, and nothing in them is escaped; the hash tells   *)
(* apart what differs then. The team is one and the same.                  *)
incidentFingerprint(source, title, service) ==
  source \o <<Bar>> \o Normal(title) \o <<Bar>> \o Normal(service)

(* Where a sender of the dialect has put the title. *)
Headline(dialect, p) ==
  CASE dialect = "datadog" -> p.title
    [] dialect = "grafana" -> FirstText(p.title, p.ruleName)
    [] dialect \in {"explicit", "generic"} -> FirstText(p.title, p.name)

(* What the sender of an alert posts when it fires and when it ends: the   *)
(* fields of its dialect, and anything in the others. The letter case may  *)
(* change from one post to the next, but not that of the source. Without a *)
(* service of its own the post has none at the top level: the labels that  *)
(* docs/grafana-alert-setup.md asks for are not a field of the payload. An *)
(* Alertmanager is a generic sender that has no title either.              *)
Posts(x, ends) ==
  LET is(dialect) == x.dialect = dialect
      field == Stray \cup Text({x.title})
      typed == IF is("datadog") \/ is("grafana") THEN {"missing", "text"}
               ELSE {"missing", "other", "text"}
      post == [marker : IF is("datadog") THEN {"typed"} ELSE {"missing", "mistyped"},
               alertType : IF ~is("datadog") THEN {"", "success", "other"}
                           ELSE IF ends THEN {"success"} ELSE {"error"},
               source : CASE is("datadog") -> Stray
                          [] is("explicit") -> {[NoText EXCEPT !.kind = "text", !.words = x.source]}
                          [] is("grafana") \/ is("generic") -> {NoText, Other},
               title : field, name : field, ruleName : field,
               state : CASE is("generic") -> {""}
                         [] is("grafana") -> IF ends THEN {"ok"} ELSE {"alerting"}
                         [] is("datadog") \/ is("explicit") -> {"", "alerting", "ok", "other"},
               status : IF is("datadog") \/ is("grafana") THEN {"", "firing", "resolved", "other"}
                        ELSE IF ends THEN {"resolved"} ELSE {"", "firing"},
               service : IF x.service = <<>> THEN {NoText, Other} ELSE Text({x.service})]
  IN {p \in post :
        /\ p.title.kind \in typed
        /\ is("grafana") => p.ruleName.kind \in typed
        /\ is("generic") => p.ruleName.kind # "text"
        /\ IF x.title = <<>> THEN Headline(x.dialect, p).kind # "text"
           ELSE /\ Headline(x.dialect, p).kind = "text"
                /\ Headline(x.dialect, p).words = x.title}

(* What becomes of the posts of an alert. *)
Reading(p) ==
  LET parsed == parseWebhookPayload(p)
  IN [print |-> incidentFingerprint(parsed.source, parsed.title, p.service),
      resolved |-> parsed.resolved]

Readings == [x \in Alert |-> [ends \in BOOLEAN |-> {Reading(p) : p \in Posts(x, ends)}]]
PrintsOf == [x \in Alert |-> {r.print : r \in Readings[x][TRUE] \cup Readings[x][FALSE]}]
ReadPrints == UNION {PrintsOf[x] : x \in Alert}

----------------------------------------------------------------------------
VARIABLES
  clients,         \* webhookIPLimiter.clients
  elapsed,         \* time since the last pruning
  open,            \* fingerprints of the open incidents
  excess,          \* history: see RateIsKept
  firing           \* history: alerts whose last post that was let in fires

vars == <<clients, elapsed, open, excess, firing>>

(* tokens as of the last call, idle the time since then. A call that is    *)
(* refused finds no token and leaves none, so the limiter's clock and      *)
(* lastSeen need not be told apart.                                        *)
Client == [tokens : Nat, idle : Nat]
NoClient == [tokens |-> 0]

TypeOK ==
  /\ clients \in [Address -> Client \cup {NoClient}]
  /\ elapsed \in 0 .. Period
  /\ open \subseteq ReadPrints
  /\ excess \in [Address -> Nat]
  /\ firing \subseteq Alert

Init ==
  /\ clients = [ip \in Address |-> NoClient]
  /\ elapsed = 0
  /\ open = {}
  /\ excess = [ip \in Address |-> 0]
  /\ firing = {}

----------------------------------------------------------------------------
(* The address that is charged *)

isTrustedProxy(addr) == addr \in Trusted

(* Every machine but the sender appends the address it was called from. *)
XForwardedFor(route, written) ==
  IF written = Garbage THEN Garbage
  ELSE written \o SubSeq(route, 1, Len(route) - 1)

LastOutside(chain) ==
  LET outside == {k \in DOMAIN chain : ~isTrustedProxy(chain[k])}
  IN IF outside = {} THEN chain[1]
     ELSE chain[CHOOSE k \in outside : \A j \in outside : j <= k]

(* Mutant: the first address of the header, which the sender wrote. *)
webhookClientIP_First(peer, xff) ==
  IF ~isTrustedProxy(peer) \/ xff \in {<<>>, Garbage} THEN peer ELSE xff[1]

webhookClientIP(peer, xff) ==
  IF ~isTrustedProxy(peer) \/ xff \in {<<>>, Garbage} THEN peer ELSE LastOutside(xff)

(* Who a request is to be charged to: the last machine on its way that is  *)
(* not trusted, or its origin. What a sender writes is part of the way     *)
(* only for a sender that is trusted, as all who passed it on are.         *)
Source(route, written) ==
  IF written = Garbage THEN route[Len(route)] ELSE LastOutside(written \o route)

----------------------------------------------------------------------------
(* The limiter; its mutex makes each call one step *)

(* rate.Limiter: what a bucket holds now. *)
Tokens(c) ==
  IF c = NoClient THEN Burst
  ELSE IF c.tokens + c.idle <= Burst THEN c.tokens + c.idle ELSE Burst

(* Mutant: the token is taken whether or not there is one. *)
allow_Overdraws(ip) ==
  clients' = [clients EXCEPT ![ip] = [tokens |-> Tokens(@) - 1, idle |-> 0]]

allow(ip) ==
  LET left == IF Tokens(clients[ip]) = 0 THEN 0 ELSE Tokens(clients[ip]) - 1
  IN clients' = [clients EXCEPT ![ip] = [tokens |-> left, idle |-> 0]]

(* What CreateIncident or ResolveIncidentByFingerprint leaves open. *)
Accept(alert, ends, reading) ==
  /\ open' = IF reading.resolved THEN open \ {reading.print} ELSE open \cup {reading.print}
  /\ firing' = IF ends THEN firing \ {alert} ELSE firing \cup {alert}

handleWebhook(route, written, alert, ends) ==
  LET ip == webhookClientIP(route[Len(route)], XForwardedFor(route, written))
  IN /\ allow(ip)
     /\ \/ /\ Tokens(clients[ip]) = 0                               \* 429
           /\ UNCHANGED <<open, firing, excess>>
        \/ /\ Tokens(clients[ip]) > 0
           /\ \E reading \in Readings[alert][ends] : Accept(alert, ends, reading)
           /\ excess' = [excess EXCEPT ![Source(route, written)] = @ + 1]
     /\ UNCHANGED elapsed

(* Mutant: seconds for minutes. *)
Stale_UnitSlip(c) == c # NoClient /\ c.idle > 0

Stale(c) == c # NoClient /\ c.idle > IdleAfter

(* Mutant: the loop ends with the first client it deletes. *)
cleanup_OnePerSweep ==
  /\ elapsed = Period
  /\ elapsed' = 0
  /\ \/ \E ip \in Address : /\ Stale(clients[ip])
                            /\ clients' = [clients EXCEPT ![ip] = NoClient]
     \/ (\A ip \in Address : ~Stale(clients[ip])) /\ UNCHANGED clients
  /\ UNCHANGED <<open, excess, firing>>

cleanup ==
  /\ elapsed = Period
  /\ elapsed' = 0
  /\ clients' = [ip \in Address |-> IF Stale(clients[ip]) THEN NoClient ELSE clients[ip]]
  /\ UNCHANGED <<open, excess, firing>>

(* The goroutine is on time, on the scale of minutes that it works on. *)
Tick ==
  /\ elapsed < Period
  /\ elapsed' = elapsed + 1
  /\ clients' = [ip \in Address |->
                   IF clients[ip] = NoClient THEN NoClient
                   ELSE [clients[ip] EXCEPT !.idle = @ + 1]]
  /\ excess' = [ip \in Address |-> IF excess[ip] = 0 THEN 0 ELSE excess[ip] - 1]
  /\ UNCHANGED <<open, firing>>

Next ==
  \/ \E route \in Route, written \in Written \cup {Garbage}, alert \in Alert, ends \in BOOLEAN :
       handleWebhook(route, written, alert, ends)
  \/ cleanup
  \/ Tick

Spec == Init /\ [][Next]_vars

----------------------------------------------------------------------------
(* "Each IP gets a token bucket: burst of 20, refill at 1 token/second":   *)
(* excess is the most that any span of time ending now has let through     *)
(* from a source beyond one request a unit. It never exceeds the burst,    *)
(* whatever the senders write into X-Forwarded-For and also over a span in *)
(* which the bucket was pruned and made anew, and a request is refused     *)
(* only when it would.                                                     *)
RateIsKept ==
  \A ip \in Address :
    /\ excess[ip] <= Burst
    /\ excess[ip] < Burst => Tokens(clients[ip]) > 0

(* "Limiters not seen for >10 minutes are pruned to prevent memory         *)
(* growth": at the latest one period after that.                           *)
IdleIsPruned ==
  \A ip \in Address :
    clients[ip] # NoClient => clients[ip].idle <= IdleAfter + Period

(* Which source, title and service the server knows an alert by. *)
Identity(x) ==
  [source |-> IF x.dialect = "explicit" THEN x.source ELSE <<x.dialect>>,
   title |-> IF x.title # <<>> \/ x.dialect = "grafana" THEN x.title
             ELSE IF x.dialect = "datadog" THEN <<"datadog alert">> ELSE <<"alert">>,
   service |-> x.service]

BarFree(words) == \A k \in DOMAIN words : words[k] # Bar

(* No other alert has the same, and no field could be taken for two. *)
Recognised(x) ==
  /\ BarFree(Identity(x).source) /\ BarFree(Identity(x).title) /\ BarFree(Identity(x).service)
  /\ \A y \in Alert \ {x} : Identity(y) # Identity(x)

(* "find and close the matching open incident": an alert that source,      *)
(* title and service tell from all others has its one incident open        *)
(* exactly while it fires, whatever letter case and whatever fields of     *)
(* other dialects its posts come with, and whatever the others do: those   *)
(* that share an identity, and those that a bar in a field confuses.       *)
ResolutionMatches ==
  \A x \in Alert :
    Recognised(x) => Cardinality(PrintsOf[x] \cap open) = IF x \in firing THEN 1 ELSE 0
============================================================================
