------------------------------- MODULE Tc3Auth -------------------------------
(***************************************************************************)
(* Configuration and signatures of one process after the other.  main      *)
(* reads the configuration when it begins; the credentials are read by the *)
(* constructor of cloudTencent_dnspod, after the address check.  From then *)
(* on each request is signed and sent in two calls that communicate        *)
(* through members of the object, while the clock runs on (past midnight,  *)
(* too) and somebody may save a new configuration at any time, in one step *)
(* or by truncating the file and writing it line after line.               *)
(*                                                                         *)
(* Hashes are symbolic: two are equal exactly when their arguments are.    *)
(***************************************************************************)
EXTENDS ConfigFile, FiniteSets

CONSTANTS
    Settings,      \* what the user may want configured: key -> text
    Rests,         \* what may stand behind the value on every line
    Orders,        \* orders the lines of the file may have: sequences of keys
    Accounts,      \* the service's accounts: keyid -> key
    DayLength,     \* ticks of the clock in a day
    Cuts,          \* bound: lines there may be of a half-written file
    MaxClock,      \* bound: the clock stops here
    MaxRequests,   \* bound: requests of one process
    MaxInFlight    \* bound: requests on the network

Key == ConfigKey \cup SecurityKey

(* Whoever saves the file saves credentials of an account, and a line for  *)
(* every key, wherever it stands.                                          *)
ASSUME Tc3AuthAssumption ==
    /\ Settings \subseteq [Key -> STRING]
    /\ Rests \subseteq Seq(Character)
    /\ \A s \in Settings : s["keyid"] \in DOMAIN Accounts
                           /\ Accounts[s["keyid"]] = s["key"]
    /\ DayLength \in Nat \ {0}
    /\ MaxClock \in Nat /\ MaxRequests \in Nat /\ MaxInFlight \in Nat
    /\ Cuts \subseteq Nat
    /\ Orders \subseteq Seq(Key \cup {"other"})
    /\ \A order \in Orders, key \in Key : \E k \in DOMAIN order : order[k] = key

(* The ways to end a line that the readers are made for: not at all, with  *)
(* a CR, or with a ';' and whatever follows it.  (A blank in front of the  *)
(* ';' would be taken for a part of the value.)                            *)
ASSUME LinesEndCleanly ==
    \A rest \in Rests : rest \in {<<>>, <<"CR">>} \/ (rest # <<>> /\ rest[1] = "semicolon")

VARIABLES
    clock,                  \* time(nullptr)
    file,                   \* ddns_config.txt
    writing,                \* the file an editor is about to complete, or <<>>
    saves,                  \* the settings of every save so far (history)
    g_file_config,
    security,               \* security_id and security_key
    request_timestamp, request_time_utc, request_authorization,
    whole,                  \* this process has met no half-written file (history)
    payload,                \* of the request being prepared
    sent,                   \* requests of this process so far
    pc,
    net                     \* requests sent and not yet handled

env    == <<clock, file, writing, saves>>
object == <<security, request_timestamp, request_time_utc, request_authorization>>
vars   == <<clock, file, writing, saves, g_file_config, security, request_timestamp,
            request_time_utc, request_authorization, whole, payload, sent, pc, net>>

-----------------------------------------------------------------------------
Sha256(m)  == [sha |-> m]
Hmac(k, m) == [hmac |-> k, msg |-> m]

Canonical(method, content_type, hashed) ==
    [method |-> method, content_type |-> content_type, host |-> "dnspod",
     signed |-> <<"content-type", "host">>, hashed |-> hashed]

StringToSign(ts, date, canonical) ==
    [timestamp |-> ts, scope |-> <<date, "dnspod">>, hashed |-> Sha256(canonical)]

(* The key is read from the file as it stands there: text and extra.       *)
Signature(key, date, string) ==
    Hmac(Hmac(Hmac(Hmac(<<"TC3", key>>, date), "dnspod"), "tc3_request"), string)

DateOf(t) == t \div DayLength

NoAuthorization == [id |-> EmptyValue, scope |-> <<0, "">>, signature |-> Sha256("")]

(* The settings written to a file, line by line in some order.             *)
Render(s, rest, order) ==
    [k \in DOMAIN order |->
        [key |-> order[k], value |-> IF order[k] \in Key THEN s[order[k]] ELSE "",
         rest |-> rest]]

(* The memory of a new process.                                            *)
NoConfig   == [keys |-> [key \in ConfigKey |-> EmptyValue], domain_full |-> <<>>]
NoSecurity == [key \in SecurityKey |-> EmptyValue]
NoPayload  == [action |-> "none", domain |-> EmptyValue, sub |-> EmptyValue]

Init ==
    /\ clock = 0
    /\ \E s \in Settings, rest \in Rests, order \in Orders :
          file = Render(s, rest, order) /\ saves = <<s>>
    /\ writing = <<>>
    /\ g_file_config = NoConfig
    /\ security = NoSecurity
    /\ request_timestamp = 0
    /\ request_time_utc = 0
    /\ request_authorization = NoAuthorization
    /\ whole = TRUE
    /\ payload = NoPayload
    /\ sent = 0
    /\ pc = "start"
    /\ net = {}

-----------------------------------------------------------------------------
(* main's first call.                                                      *)
ReadConfig ==
    /\ pc = "start"
    /\ g_file_config' = file_config_read(file)
    /\ whole' = (writing = <<>>)
    /\ pc' = "address_check"
    /\ UNCHANGED <<env, object, payload, sent, net>>

(* getInstance constructs the object, which reads the file again.          *)
Construct ==
    /\ pc = "address_check"
    /\ security' = file_security_config_read(file)
    /\ whole' = (whole /\ writing = <<>>)
    /\ pc' = "ready"
    /\ UNCHANGED <<env, g_file_config, request_timestamp, request_time_utc,
                   request_authorization, payload, sent, net>>

(* main asks for the domains, then for the records, then deletes and       *)
(* modifies (Ddns has the details of that).  Without the address of an     *)
(* echo service there is no match, and nothing to modify.                  *)
NextActions ==
    CASE sent = 0 -> {"DescribeDomainList"}
      [] sent = 1 -> {"DescribeRecordFilterList"}
      [] OTHER    -> {"DeleteRecord"} \cup
            (IF \E key \in {"check_ip_url_ipv4", "check_ip_url_ipv6"} :
                   g_file_config.keys[key] # EmptyValue
               THEN {"ModifyRecord"} ELSE {})

(* Mutated form: the names are read again for every request.               *)
PayloadOfReread(action) ==
    LET now == file_config_read(file).keys
    IN  [action |-> action,
         domain |-> IF action = "DescribeDomainList" THEN EmptyValue
                    ELSE now["domain_name"],
         sub    |-> IF action \in {"DescribeDomainList", "DeleteRecord"} THEN EmptyValue
                    ELSE now["domain_subname"]]

(* "{}" for the domain list; DeleteRecord names no sub-domain.             *)
PayloadOf(action) ==
    [action |-> action,
     domain |-> IF action = "DescribeDomainList" THEN EmptyValue
                ELSE g_file_config.keys["domain_name"],
     sub    |-> IF action \in {"DescribeDomainList", "DeleteRecord"} THEN EmptyValue
                ELSE g_file_config.keys["domain_subname"]]

Authorization(ts, date, p) ==
    [id |-> security["keyid"], scope |-> <<date, "dnspod">>,
     signature |-> Signature(security["key"], date,
                     StringToSign(ts, date,
                        Canonical("POST", "application/json", Sha256(p))))]

(* Mutated form: the date is taken once, from the first request.           *)
AuthorizeDateOnce(action) ==
    /\ pc = "ready"
    /\ sent < MaxRequests
    /\ action \in NextActions
    /\ payload' = PayloadOf(action)
    /\ request_timestamp' = clock
    /\ request_time_utc' = IF sent = 0 THEN DateOf(clock) ELSE request_time_utc
    /\ request_authorization' =
          Authorization(request_timestamp', request_time_utc', payload')
    /\ pc' = "signed"
    /\ UNCHANGED <<env, g_file_config, security, whole, sent, net>>

(* generate_http_authorization: one reading of the clock gives timestamp   *)
(* and date.                                                               *)
Authorize(action) ==
    /\ pc = "ready"
    /\ sent < MaxRequests
    /\ action \in NextActions
    /\ payload' = PayloadOf(action)
    /\ request_timestamp' = clock
    /\ request_time_utc' = DateOf(clock)
    /\ request_authorization' =
          Authorization(request_timestamp', request_time_utc', payload')
    /\ pc' = "signed"
    /\ UNCHANGED <<env, g_file_config, security, whole, sent, net>>

(* generate_http_header, then curl_request, which returns with an answer   *)
(* or without one; nobody looks.                                           *)
Send ==
    /\ pc = "signed"
    /\ Cardinality(net) < MaxInFlight
    /\ net' = net \cup {[authorization |-> request_authorization,
                         content_type  |-> "application/json",
                         timestamp     |-> request_timestamp,
                         payload       |-> payload,
                         whole         |-> whole]}
    /\ sent' = sent + 1
    /\ pc' = "ready"
    /\ UNCHANGED <<env, g_file_config, object, whole, payload>>

(* The process ends, having done its work or not; the timer starts another.*)
Exit ==
    /\ pc # "start"
    /\ g_file_config' = NoConfig
    /\ security' = NoSecurity
    /\ request_timestamp' = 0
    /\ request_time_utc' = 0
    /\ request_authorization' = NoAuthorization
    /\ whole' = TRUE
    /\ payload' = NoPayload
    /\ sent' = 0
    /\ pc' = "start"
    /\ UNCHANGED <<env, net>>

-----------------------------------------------------------------------------
(* The service checks a request against its own copy of the key, from the  *)
(* headers and the body it received.                                       *)
Verifies(m) ==
    LET a == m.authorization
    IN  /\ a.id.extra = <<>>
        /\ a.id.text \in DOMAIN Accounts
        /\ a.scope = <<DateOf(m.timestamp), "dnspod">>
        /\ a.signature =
              Signature(Value(Accounts[a.id.text], <<>>), DateOf(m.timestamp),
                 StringToSign(m.timestamp, DateOf(m.timestamp),
                    Canonical("POST", m.content_type, Sha256(m.payload))))

(* A request is handled, any time after it was sent, or lost.              *)
Receive(m) ==
    /\ net' = net \ {m}
    /\ UNCHANGED <<env, g_file_config, object, whole, payload, sent, pc>>

Tick ==
    /\ clock < MaxClock
    /\ clock' = clock + 1
    /\ UNCHANGED <<file, writing, saves, g_file_config, object, whole, payload, sent, pc, net>>

(* Bound: each of the settings is saved once.                              *)
Saved == {saves[i] : i \in DOMAIN saves}

(* The file is replaced by another one, in one step.                       *)
Save ==
    /\ writing = <<>>
    /\ \E s \in Settings \ Saved, rest \in Rests, order \in Orders :
          file' = Render(s, rest, order) /\ saves' = Append(saves, s)
    /\ UNCHANGED <<clock, writing, g_file_config, object, whole, payload, sent, pc, net>>

(* The file is truncated, and some lines are written; then the rest.       *)
SaveBegins ==
    /\ writing = <<>>
    /\ \E s \in Settings \ Saved, rest \in Rests, order \in Orders, n \in Cuts :
          /\ n < Len(order)
          /\ writing' = Render(s, rest, order)
          /\ file' = SubSeq(writing', 1, n)
          /\ saves' = Append(saves, s)
    /\ UNCHANGED <<clock, g_file_config, object, whole, payload, sent, pc, net>>

SaveEnds ==
    /\ writing # <<>>
    /\ file' = writing
    /\ writing' = <<>>
    /\ UNCHANGED <<clock, saves, g_file_config, object, whole, payload, sent, pc, net>>

Next ==
    \/ ReadConfig \/ Construct \/ Send \/ Exit
    \/ \E action \in NextActions : Authorize(action)
    \/ \E m \in net : Receive(m)
    \/ Tick \/ Save \/ SaveBegins \/ SaveEnds

Spec == Init /\ [][Next]_vars

-----------------------------------------------------------------------------
(* A value as read from the file: its text is one that somebody may save,  *)
(* or empty, and never is there a ';' behind it.                           *)
Text == {""} \cup UNION {{s[key] : key \in DOMAIN s} : s \in Settings}

ReadValue(v) == v.text \in Text /\ v.extra \in Seq(Character \ {"semicolon"})

(* Every variable has its type.                                            *)
TypeOK ==
    /\ clock \in 0 .. MaxClock
    /\ saves \in Seq(Settings)
    /\ \A key \in ConfigKey : ReadValue(g_file_config.keys[key])
    /\ \A key \in SecurityKey : ReadValue(security[key])
    /\ request_timestamp \in 0 .. MaxClock
    /\ request_time_utc \in 0 .. MaxClock
    /\ sent \in 0 .. MaxRequests
    /\ pc \in {"start", "address_check", "ready", "signed"}
    /\ Cardinality(net) <= MaxInFlight
    /\ whole \in BOOLEAN

NamedIn(m, s) ==
    /\ m.payload.action # "DescribeDomainList" =>
          m.payload.domain = Value(s["domain_name"], <<>>)
    /\ m.payload.action \in {"DescribeRecordFilterList", "ModifyRecord"} =>
          m.payload.sub = Value(s["domain_subname"], <<>>)

SignedAs(m, s) == m.authorization.id = Value(s["keyid"], <<>>)

(* The file may be replaced between main's reading of the names and the    *)
(* constructor's reading of the credentials, and while requests are sent.  *)
(* The names in a request are those of one save, never a mix of two, and   *)
(* the account that signs it is that of the same save or of a later one:   *)
(* no request of a new configuration goes out under an account since given *)
(* up, however lines end and in whatever order they stand.  Only a process *)
(* that read a half-written file is excepted.                              *)
CredentialsNotOlder ==
    \A m \in net : m.whole =>
        \E i, j \in DOMAIN saves : /\ i <= j
                                   /\ NamedIn(m, saves[i])
                                   /\ SignedAs(m, saves[j])

(* A request of such a process verifies, whenever the service looks at it: *)
(* timestamp, date, scope, payload and headers agree with what was signed, *)
(* also when the clock passes midnight between two requests or between     *)
(* signing and sending, and key and keyid belong together although the     *)
(* file may be replaced between the two readings and while requests are    *)
(* under way.                                                              *)
RequestsAccepted == \A m \in net : m.whole => Verifies(m)

=============================================================================
