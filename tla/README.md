# DDNS_CloudTencent: a TLA+ model, its checks and its proofs

The program is a small dynamic-DNS client for Tencent Cloud's DNSPod. A timer
(cron, systemd) starts it every few minutes. It reads a configuration file,
finds out whether the host itself holds the public address the outside world
sees, lists the records of the configured name, deletes all A and AAAA records
of that name but the first of each type, and points the survivors at the host.
Then it exits. It keeps nothing between two invocations: all lasting state is
the zone at DNSPod.

All of the program's own logic is under `src/src/x86`. `src/doc` and the
`armv7l` tree hold build scripts and the source of curl, OpenSSL and zlib.

## 1. Inventory

| Component | Source (below `src/src/x86`) | State | Operations |
|---|---|---|---|
| Control flow | `main.cpp` 85-118 | the two address objects, the DNSPod object | address check, domain list, record list, trim, modify IPv4, modify IPv6 |
| Address check | `develop/check_ip_wan.cpp`, `.hpp` | `ip_local`, `ip_wan`, `valid_ipwan`, `ip_ddns_modify` of `_IPv4` and `_IPv6` | `check_local_ip`, `check_nat_wan_ip`, `match_wanip_with_localip` |
| Record maintenance | `develop/cloudTencent/custom_cloudTencent.cpp`, `.hpp` | vectors `record_ipv4`, `record_ipv6` | `dnspod_record_list_filter`, `record_delete_remain_one`, `dnspod_record_delete`, `dnspod_record_modify` |
| Record list decoding | `custom_cloudTencent_response_decode.cpp` | fills the two vectors | `tencentcloud_decode_record_list_filter`, `tencentcloud_decode_domain_list` |
| HTTP transfer | `util/curl_request_api.cpp` | none | `curl_request`, timeout of 30 s |
| Configuration | `main.cpp` 36-83, `custom_cloudTencent.cpp` 85-115 | `g_file_config`, credentials | `file_config_read`, `file_security_config_read` |
| Signing (TC3-HMAC-SHA256) | `custom_cloudTencent.cpp` | timestamp, headers | `generate_http_authorization`, `generate_http_header` |
| JSON parser | `util/tretap_CJSON.c` | parse tree on the heap | parse, look up, delete; also print, build and edit, never called |
| Base64 | `util/tretap_base_64.c` | none | encode, decode; never called |
| Stubs | `cloudAlibaba`, `rsa_configFile`, `util/test.c` | none | none |

**Interaction.** `main` calls everything in one thread. The processes of
different timer ticks, or of different hosts configured for the same name,
meet only in the zone: each lists it, and later deletes and modifies records
*by the ids of that listing*. There is no lock, no version and no transaction.

**What is hard here.**

* Two invocations overlap and each trims a listing that the other is changing.
* A request curl gave up on after 30 seconds is not withdrawn. It may be
  handled seconds or minutes later, after later requests of other invocations.
* No result of a delete or a modify is looked at, and a failed listing is
  treated like an empty one. What one invocation leaves half done, a later one
  must repair.
* The process may stop at any point.
* The address is read first and written last, many transfers later.
* Record ids are `uint64_t` in the vectors and `uint32_t` in the delete call.
* The configuration file is read twice by one invocation, and may change in
  between or be half written; each signature needs one consistent reading of
  the clock.
* A transfer that breaks off hands the beginning of an answer to the parser as
  if it were all of it, and the decoders return from the middle of a list when
  a member is missing or die when it has another type.
* Addresses are classified by comparisons at range boundaries and by the
  number of characters before the first colon.

**What makes the components correct.**

* Address check: the walk ends with the *first* public address of its family,
  entries of other kinds do not disturb it, and only an address that the echo
  service confirms is handed on.
* Trimming: a record is deleted only if another live record of the same name
  and type remains; no record of another name or type is ever touched.
* Modifying: a record is pointed only at a public address of its own family
  that the host really held by then.
* Configuration and signing: requests name the domain of one saved file, are
  never signed by an older account than the one saved with it, and a request
  that arrives in time is never refused for its signature.
* Decoding: the vectors hold exactly the served A and AAAA records of a
  complete answer, other rows do not stop the loop, a part of an answer is
  never used, and the parser can release everything it allocated.
* The whole: every invocation ends, and when the world stays put the name has
  exactly one record of the type, with the host's address.

`PROJECT.json` lists each hazard at its line with the properties aimed at it.

## 2. Modules

| Module | Models |
|---|---|
| `IpAddress` | Pure functions of `check_ip_wan.cpp`: `isIPv4_wan`, `isIPv6_wan`, `ip_valid`, the result of `check_local_ip`, `decode_ipwan`, `match_wanip_with_localip`. No state. |
| `IpCheck` | One `Ipaddress` object through a process, the interface walk entry by entry. |
| `MCIpCheck` | Interface lists at and around every range boundary. |
| `IpCheckProofs` | Theorems about `IpCheck` and the classification of `IpAddress`. |
| `Ddns` | Any number of invocations against DNSPod, the network and the host. |
| `MCDdns` | Zones, hosts and listing orders for TLC. |
| `DdnsProofs` | Theorems about `Ddns`, and its refinement of `DnsName`. |
| `DnsName` | Abstract specification: what the tool promises about the records of the name, with everything else hidden. |
| `DdnsRefines` | The mapping from `Ddns` to `DnsName`. |
| `ConfigFile` | Pure functions: what `file_config_read` and `file_security_config_read` take from a file. |
| `Tc3Auth` | The two readings of the file, signing and sending, the clock and the service's check of a signature. |
| `MCTc3Auth` | Two configurations in every way to end a line and two orders of the lines. |
| `Tc3AuthProofs` | Theorems about `Tc3Auth` and the readers of `ConfigFile`. |
| `CJson` | `tretap_CJson_Parse`, `GetObjectItem`, `GetArrayItem` and `Delete` on a heap of nodes. |
| `ResponseDecode` | The two decoders of an answer, on top of `CJson`. |
| `MCResponseDecode` | Answers with every kind of unusual row, and all their beginnings. |
| `ResponseTextProofs` | Lemmas about texts: an answer closes its first bracket with its last token, a part of it never does, and where the values of a list begin and end. |
| `CJsonProofs` | Theorems about the parser of `CJson`, as `ResponseDecode` runs it. |
| `TreeProofs` | Lemmas: the tree on the heap is that of the text, at every step of the parser. |
| `DecodeProofs` | Theorems about the decoders: what the look-ups find and what the loops leave in the object. |
| `Base64` | `tretap_base64_encode` and `tretap_base64_decode` with a caller. |
| `MCBase64` | Bytes and characters at the edges of the tables. |
| `Base64Proofs` | Theorems about `Base64`. |

### IpAddress and IpCheck

An address is a record of its family and two 16-bit words. For IPv4 these are
the halves of the host-order word, so the unsigned comparisons of `isIPv4_wan`
are exact (TLC's integers have 32 bits with a sign). For IPv6, `hi` is the
first hextet, which decides everything the code looks at; `lo` tells addresses
with the same prefix apart. `inet_ntop` prints a hextet without leading zeros,
so "four characters before the colon" is `hi >= 4096`. A text that is no
address is `NoText` (the empty string) or `Junk` (anything else). A body is a
text and what follows it; `decode_ipwan` strips only line ends.

`IpCheck` has an action for each way through the loop of `check_local_ip`
(`VisitEntry`, `SkipNull`, `EndWalk`), one for `check_nat_wan_ip` and one for
`match_wanip_with_localip`. `WalkPicksFirstPublic` shows that the loop computes
the function `check_local_ip` of `IpAddress`, which `Ddns` then uses as one
step.

### Ddns

A slot of `Run` holds one invocation at a time. `pc` and `fam` are the position
in `main` (each stage treats IPv4, then IPv6), `ip` the two address objects,
`resp` the answer to the listing, `rec` the two vectors, `it` the loop
variable of the decoder and then of the trimming loop.

| Actions | Code |
|---|---|
| `Start`, `Terminate`, `Crash` | begin and end of `main`; power loss, a signal, or `std::string(NULL)` when `curl_easy_init` fails |
| `CheckLocalIp`, `CheckNatWanIp` | `check_demo_http_check` with its four calls |
| `SendList`, `RecvList`, `ListFails` | `dnspod_record_list_filter` with an answer, or without a usable one |
| `DecodeEntry`, `DecodeEnds` | the loop over `RecordList`; the end may be the `return` of `FUNC_JSON_CHECK` at an element with a field missing |
| `SendDelete`, `DeleteReturns`, `TrimEnds` | `record_delete_remain_one` and `dnspod_record_delete`, first for `record_ipv4`, then for `record_ipv6` |
| `SendModify`, `SkipModify`, `ModifyReturns` | the two conditional `dnspod_record_modify` calls of `main` |
| `ServeList`, `ServeDelete`, `ServeModify` | DNSPod, as the requests use it (external) |
| `Lose`, `Redial`, `AddRecord`, `BecomeCalm` | network, host, other users of the zone (external) |

`net` is the set of requests sent and neither handled nor dropped. A request is
handled atomically, at any time after it was sent and in any order. If its
client no longer waits for *this* request, the answer goes nowhere, and the
effect on the zone stays. A slot is used again only when no request of its last
invocation is under way; a new process that meets late requests of an older one
is therefore another slot.

The listing is in the order of some member of `Ranks`. With one member the
order is fixed; with several it may differ from call to call.

What the abstraction drops: record lines, TTL, domain id and the
texts of requests, none of which a decision of the code depends on; answers
larger than one page of the service; the domain list request, whose result no
later step of `main` uses; records deleted or renamed by hand (other parties
only add records: a person deleting the kept record between listing and
trimming can leave the name without one, which no code of the tool could
prevent).

`host` is what the interfaces and the outside show now, `held` the host states
visited so far (history): what the host "has held" is read off it, not off all
the states it might ever be in.

`calm` turns TRUE at an arbitrary moment and stays so. From then on nothing is
lost, the echo services answer, no process is killed, the host keeps its
address and nobody adds records. It is used only for liveness; safety holds
before and after.

### DnsName and DdnsRefines

`DnsName` knows the records of the served name by type, their values and the
rest of the zone. Its steps: a duplicate disappears (`Deduplicate`, another
record of the type remains), a record is pointed at an address of its own
family out of `own` (`Point`), other parties add records, and `own` grows when
the host gets another address (`Renumber`). `DdnsRefines` reads these four
variables off the zone and `held` of `Ddns`: `own` are the public addresses that
some interface of the host has held so far. Every step of a process, of the
network and of the timer that is neither a re-dialling nor the handling of a
delete, a modify or an addition is a stutter. `StaysResolved` is the consequence
users care for.

### CJson and ResponseDecode

A document is a sequence of tokens that ends in the NUL. The heap is a sequence
of nodes with `child`, `next` and `prev`; a pointer is an index, a freed node
stays with `live` FALSE, `strings` counts buffers. The recursion of
`parse_value`, `parse_array` and `parse_object` is the `stack` of items under
way, so a failure at any depth is one step (`ParseFails`) that deletes the tree
from the root, as `tretap_CJson_ParseWithOpts` does. malloc may fail at every
node and every buffer if `Alloc` holds FALSE.

| Actions | Code |
|---|---|
| `ParseWithOpts`, `ParseReturns` | `tretap_CJson_ParseWithOpts` (no look at what follows the document) |
| `ParseScalar`, `ParseString`, `ParseBad`, `ReadPastEnd` | `parse_value`, `parse_number`, `parse_string` |
| `OpenArray`, `OpenObject`, `ParseName`, `NextItem`, `Close` | `parse_array`, `parse_object` |
| `NoTree`, `FindList` | the parse result and the two look-ups of a decoder |
| `DecodeRecord`, `DecodeDomain`, `EndLoop` | the loops over `RecordList` and `DomainList`, and `tretap_CJson_Delete` behind them |

`Init` chooses an answer of the service (a list, null instead of a list, an
error object) and either its text or any proper beginning of it, since
`curl_request` returns what had arrived. Inside a string a beginning is a
shorter string, because `parse_string` takes the NUL for a quote; inside a
number a shorter number; inside a literal nothing that parses. A text that ends
inside an escape makes the scan step over the NUL: the model then stops in
`undefined`. Texts are opaque; what a cut may leave of them is the constant
`Shorter`. Record ids are taken to be below 2^53, where a double is exact, and
all numbers below 2^64 - 2^31 (`Scalars`): a negative `int` that is widened to
`uint64_t` lands above that.

`Ddns` has the same loop over rows that are already records, and lets it end at
any row (`DecodeEnds`) or the process die (`Crash`). `ResponseDecode` shows what
lies behind these: `DecodedAsSent` is the step of `DecodeEntry`, including the
prefix an early return leaves, and `CutNeverDecoded` is why a listing that was
cut off is the `ListFails` of `Ddns`, with empty vectors.

### Base64

Both functions loop by loop, on character codes. A caller offers a buffer of
any size in `Sizes`; told that it is too small it offers one of the size asked
for (`Retry`), and decodes what it encoded (`DecodeBack`). An empty input
returns 0 and leaves `*dlen` as it was. Lengths and sizes are `unsigned int`:
what is computed from them wraps at `Word32`, as `slen << 3` does from 2^29
bytes on and `n * 6 + 7` from 715827882 characters on. `LengthsFit` says that
nothing wraps. The program has no call of these functions yet.

### ConfigFile and Tc3Auth

`main` reads the configuration file when it begins; the constructor of
`cloudTencent_dnspod` reads it again for the credentials, after the address
check with its transfers. A line is its key, the value meant and the characters
behind the value; the readers pop one CR at the end of the line and cut at the
first `;`. What stays behind a value stays part of it.

| Actions | Code |
|---|---|
| `ReadConfig`, `Construct` | `file_config_read`; `getInstance` with `file_security_config_read` |
| `Authorize` | `generate_http_authorization`, with the payload it signs |
| `Send` | `generate_http_header` and `curl_request`, from the members `Authorize` left |
| `Exit` | end of the process, at any point |
| `Receive`, `Tick` | service, clock (external) |
| `Save`, `SaveBegins`, `SaveEnds` | the user, or an editor that truncates the file and writes its lines one after the other (external) |

Hashes are symbolic (`Hmac(k, m)` is a record of its arguments), so a signature
verifies exactly when the service puts the same values in. The clock counts
abstract ticks, `DayLength` of them a day. A saved file always holds credentials
of an account and a line for every key, in any of the `Orders`; other lines may
stand between them. `saves` is the sequence of what was saved (history). A request may reach the service any time later, by when another
process with another configuration may run. `whole` remembers whether a process
read the file only when it was complete. `NextActions` is main's order of
requests; a process without the address of an echo service finds no match and
modifies nothing. Only what is signed or decides the verdict is in the request;
that the service refuses a request that is too old is left out.

`Ddns` does not contain signatures: `Tc3Auth` shows that signatures verify, and
a request refused for its age is one more that is lost.

## 3. Runs

| Run | Instance | Shows |
|---|---|---|
| `ip_check` | all lists up to 3 entries over public, private, link-local, link-layer and null entries; every boundary address in front of a public one; 5 echo texts with 4 endings | `TypeOK`, `WalkPicksFirstPublic`, `OnlyConfirmedAddress`, `ClassifiedAsDocumented` |
| `ip_range_ends` | one private address at the end of its range | expected violation of `PrivateNeverPicked` |
| `ip_two_globals` | one host with two global IPv6 addresses | expected violation of `AnyLocalAddressMatches` |
| `ddns_overlap` | 2 slots, 3 ids, the apex served, a record of another name, one record added at any time, one listing order | `TwinsInv`, `OnlyDuplicatesDeleted`, `ForeignRecordsUntouched`, `ImplementsDnsName` |
| `ddns_hosts` | 1 slot, 4 ids, A, AAAA and TXT records, 3 hosts (dual stack, IPv4 behind a NAT whose address is on no interface, IPv4 only), failing echo, changing listing order | `TypeOK`, `OnlyDuplicatesDeleted`, `ForeignRecordsUntouched`, `PointedAtOwnAddress` |
| `ddns_converge` | 1 slot, 3 ids, re-dialling between two addresses, changing listing order, `FairSpec` | `Converges`, `InvocationsEnd` |
| `ddns_overlap_converge` | 2 slots, 2 ids, one address, `FairSpec` | `Converges`, `InvocationsEnd` |
| `ddns_nat` | 1 slot, 3 ids, a host behind a NAT, `FairSpec` | expected violation of `NatAddressServed` |
| `ddns_wide_ids` | ids above the modulus | expected violation of `OnlyDuplicatesDeleted` |
| `tc3_auth` | 2 configurations, 3 line endings, 2 orders of the lines (the sub-domain in front of the echo services and behind them), 4 instants over 2 days, files interrupted after 1, 3 and 5 lines, 3 requests for each process, 2 under way | `TypeOK`, `CredentialsNotOlder`, `RequestsAccepted` |
| `decode` | all lists up to 2 of 5 plain rows, 14 odd rows between two others, domain lists (also with an id that is no number), error and null; each whole or cut anywhere, malloc failing anywhere | `NothingLost`, `CutNeverDecoded`, `DecodedAsSent`, `DomainDecodedAsSent`, `OtherNamesHarmless` |
| `base64` | all inputs up to 4 of 4 bytes and all single bytes, all texts up to 4 of 8 characters and some of 5, buffers of 6 sizes | `StaysInBuffer`, `SizeAskedForSuffices`, `RoundTrip`, `DecodesWellFormedOnly` |

**Why the bounds suffice.** Trimming needs a kept record, a duplicate and a
foreign record: three ids. A third duplicate adds a longer loop but no new kind
of conflict; the proofs cover it. Two slots are the least with a conflict, and
their requests may linger, so up to two requests and two listings of different
age meet. In `ddns_overlap` slots are interchangeable (symmetry over `Run`,
used in no liveness run). Hosts, echo failures and AAAA records do not interact
with overlap (the address check reads nothing of the zone), so they have a run
of their own with one slot. The word of `Uint32` is 100 in the runs where ids
fit, and 4 in `ddns_wide_ids`, where id 5 does not. `ddns_overlap` has one
listing order, since with two orders and two slots trimming is not safe (see
the limits below); with one slot it is, which is in `ddns_hosts`. There the
outward address of the NAT belongs to no interface of any host, so that a
record pointed at it would be told apart.

In `tc3_auth` a day has two ticks, so that midnight falls between two
requests, between signing and sending, and while a request is under way. A
file interrupted after 3 lines has a domain and no sub-domain yet, the case
that matters, with an echo service (second order) or without one (first order);
after 1 or 5 lines keys of both readers are missing or there.

In the decoder's runs INT_MAX is 7 and a record and a domain have id 9, so that
a value that passes through the wrong field is told apart. Every odd row stands
behind a row and before one, so that both the prefix and what is lost behind it
show. The order of members in a row is one; each member is looked up by name.

In `base64` the word is 56, the least in which the sizes of four bytes, and of
the eight characters they become, still fit: `LengthsFit` is tried at its edge.
Four bytes are a whole group and one byte more, and every byte
value occurs; texts mix letters, padding, line ends and foreign characters in
every order.

Deadlock is checked in all runs but those of `IpCheck`: the timer can always
start the tool again, and a decoder or Base64 call that has returned, and only
such a one, stutters.
`IpCheck` ends after the match, as one object's work does.

### Findings

1. `isIPv4_wan` excludes both ends of each private range, which the comment
   above it includes: 10.255.255.255 counts as public. Such an address is
   a network or broadcast address in most subnets, so the effect is small.
2. The comment of `match_wanip_with_localip` promises a match with *any* local
   address; the code compares the first public one only. A host with a stable
   and a temporary IPv6 address may never be updated.
3. `dnspod_record_delete` takes a `uint32_t`. An id of 2^32 or more is reduced
   and names another record, possibly of another name. All
   theorems about deletion assume ids that fit.
4. The repository's README.md (lines 11-14) wants the outward address of an IPv4
   NAT written to the record if it differs. The code never does: without a
   public address on an interface there is no match and no modify. The model
   takes the code's side (`PointedAtOwnAddress`); `ddns_nat` shows the
   difference, for ever and under `FairSpec`.

**Limits of what the code guarantees.** These are hazards no property can claim
to be safe; each is in the model, and excepted by a hypothesis.

* The listing request asks for no order, and each invocation keeps the first
  record of its own listing. Two that overlap and see different orders delete
  each other's (`ddns_overlap` with `Ranks <- AnyOrder` has such a behaviour).
  `TwinsInv` and all theorems about deletion by several slots assume one order.
* A file without a `domain_subname` line is one of the apex. Read while an
  editor has written only its first lines, records of the apex are listed and
  trimmed, and modified too if an echo line stands in front of the sub-domain's.
  The readers accept lines in any order, so the order of the file that comes with the
  program is no protection.
* Names and credentials come from two readings. Older names may be used with a
  newer account; the converse cannot happen (`CredentialsNotOlder`).
* The early returns of the decoders skip `tretap_CJson_Delete`, which
  `tretap_cJSON.h` asks for: an error answer leaves its tree allocated until the
  process ends, soon after.
* `tretap_base64_encode` computes its size from `slen << 3` in 32 bits: for
  2^29 bytes it accepts a buffer of one byte and overruns it. The decoder's
  `n * 6 + 7` wraps as well. Nothing in the program calls either, and the
  theorems carry `LengthsFit`.

One more observation, of no consequence so far: `DomainId` passes through the
32-bit `valueint` on its way into a 64-bit field, so an id above INT_MAX becomes
a number near 2^64 (`DomainDecodedAsSent` states exactly when, for ids that are
numbers; an id of another JSON type becomes 0, and `true` becomes 1). Nothing in `main` uses the
domain id.

### Fairness

`FairSpec` assumes, for each slot, weak fairness of

* `Step`: a running process runs on. A transfer that gets no answer is ended
  by `CURLOPT_TIMEOUT`, which is the guard `TimedOut`.
* `Serve`: a request that is not dropped is handled at last.
* `Start`: the timer starts the tool again whenever the slot is free.

Nothing is assumed about loss, crashes, re-dialling or other users while the
world is not calm. With two slots (`ddns_overlap_converge`) each has its own
fairness, the timers overlap for ever, and both must still reach the same end;
the instance is small (two duplicates, one address), because the graph for
liveness checking grows fast. Re-dialling with stale addresses is in
`ddns_converge`, with one slot.

## 4. Proofs

Every invariant, every action property and the refinement that a passing run checks
is proved for all values of the constants, under the conditions given below; what
stays with TLC is listed at the end of this section.
Each theorem is stated of `Spec`; the assumptions on the constants are the named
ASSUMEs of the modules, which TLC evaluates in the runs.

### Record maintenance

`DdnsProofs` proves, for every set of slots, ids, names,
hosts and zones that satisfies `DdnsAssumption` (ids are naturals and finitely
many, a listing order is injective, constants have their types).

* `TypeCorrect`: `Spec => []TypeOK`. Besides types: `record_ipv4` holds only A
  and `record_ipv6` only AAAA records, and the trimming loop never stands on
  the first element.
* `TwinsInvariant`: `Spec => []TwinsInv`.
* `DeletesOnlyDuplicates`: `Spec => OnlyDuplicatesDeleted`.
* `ForeignRecordsSafe`: `Spec => ForeignRecordsUntouched`.
* `PointsAtOwnAddress`: `Spec => PointedAtOwnAddress`.

The second to fourth carry two conditions as hypotheses: `FixedOrder`, all
invocations see one listing order, and `IdsFit`, ids survive the conversion to
`uint32_t`. Both are needed: finding 3 is what happens without the second, and
the first of the limits in section 3 what happens without the first.

**The argument.** `OnlyDuplicatesDeleted` is not inductive: whether a delete
under way is harmless depends on what every other invocation still plans.
`TwinsInv` says of each id that may still be deleted, wherever it is (in a
request under way, behind the first element of a vector, or in an undecoded
answer behind another matching element), that a live record of the same name
and type stands *before* it in the listing order. The hard step is a delete
that takes away the keeper of some other id: the deleted record itself had a
keeper, which stands before it and hence, by transitivity, before the
other id. The order is what makes this well-founded: no cycle of invocations
deleting each other's keepers is possible. `Knowledge` adds that name and type
of a listed record never change (the tool writes back the values it read), and
`Decoding` that the vectors hold elements the decoder has already passed.
That a listing is strictly increasing follows from `InOrder`; that one exists
for a finite set is not needed.

`PointsAtOwnAddress` rests on an invariant over the address objects and the
modify requests under way: an `ip_local` with `valid_ipwan` is what
`check_local_ip` picked from a host state in `held`, and a request carries such
an address for its own record type. `held` only grows.

**The refinement.** `DdnsProofs` also has

* `RefinesDnsName`: `Spec => ImplementsDnsName`, under `FixedOrder` and `IdsFit`;
* `NameStaysResolved`: `Spec => Abstract!StaysResolved`, the same conditions.

Initial zones map to initial states of `DnsName`. For steps, the invariants
above do the work: a delete that is handled names a record with a keeper
(`TwinsInv`), so it is `Deduplicate`; a modify that is handled names a served
record of its type (`Knowledge`) and an address the host held (`AddressInv`), so
it is `Point`; a re-dialling is `Renumber`; all other steps leave the zone alone
or add to it. The second
theorem is proved of `DnsName` alone and carried over by the first.

### Address check

`IpCheckProofs`, for every interface list, echo text and ending of it:
`TypeCorrect`, `PicksFirstPublic`, `ConfirmsOnlyOwnAddress` and
`ClassifiesAsDocumented`. The inductive invariant `WalkInv` says that nothing
the walk has passed was a candidate (`NoneBefore`), that the flag, `ip_local`
and the position of the walk belong together (`Picked`), and that success means
three equal texts (`Confirmed`). The last theorem also needs that the unsigned
comparisons of `isIPv4_wan` and the four-characters rule of `isIPv6_wan` agree
with the documented ranges, but for the ends of the private ones, over
all 16-bit halves: this is where finding 1 enters the proof.

### Configuration and signing

`Tc3AuthProofs`, for every set of configurations, accounts, orders of lines, day
length and number of requests: `TypeCorrect`, `CredentialsFollowNames` and
`AcceptedByService`. The invariant `Inv` follows a value from the disk to the
service. `FileInv`: the file is the first n lines of the last save, all of them
unless an editor is at work. `ReadInv`: what a reader took are
the values of one save, or nothing for keys whose lines were not there yet, and
the save of the credentials is not before that of the names. `SignedInv`: between signing and sending, date, timestamp,
payload and signature belong together. `NetInv`: the two properties of the
requests under way. `ReadKeyOfWritten` is the lemma about the readers: of a file
in any order they take the last line of a key.
`LinesEndCleanly` is assumed: behind
a value there is nothing, one CR, or a comment that begins with `;`. Without it
`Accounts` need not know the key that is read, since anything else stays part of
the value.

### JSON parser and decoders

* `ParserLosesNothing`: `Spec => []NothingLost`, for every answer, every
  beginning of it and every failure of malloc.
* `CutTextNeverUsed`: `Spec => []CutNeverDecoded`.
* `ParserBuildsTree`: `Spec => []TreeOfAnswer`, the tree is that of the text.
* `RecordsAsSent`: `Spec => []DecodedAsSent`.
* `OthersHarmless`: `Spec => []OtherNamesHarmless`.
* `DomainAsSent`: `Spec => []DomainDecodedAsSent`.

`ParserInv` is the invariant of the first. `DocInv`: the text ends in the NUL
and the parser is inside. `StackInv`: the calls of `parse_value` under way hold
different items, none with a successor, all but the innermost of bracket type,
and what the innermost is about to fill in is empty. `HeapInv`: nothing is
allocated, or the tree stands, which means that each node but the root hangs
below or behind an *older* one (`HungUp`), `prev` undoes `next`, and the buffers
are counted. From `HungUp` it follows that `Visited` holds every node; this is
an induction over the nodes, carried out as the choice of a least
counterexample. The fields have to be empty before they are filled: otherwise
`StackInv` could not exclude that a buffer is overwritten and lost.

For the second theorem, `ResponseTextProofs` shows by the nesting depth of
brackets (`Depths`) that the text of an answer returns to depth 0 exactly at its
last token, whatever its rows are, so that a proper beginning, with whatever a
cut token leaves, is at depth 0 nowhere but at its start. `DepthInv` says that
the parser's stack is that depth and one more. Were the call for the root to
return, the depth would be 0 in the middle of the text (`NoReturn`).
`DecodeAssumption` gives the answers: any number of rows with any members, each
a name with a string, number or literal.

**The tree.** `ParserBuildsTree` must say of a text nested to any depth which
part of the tree stands when the parser is at its p-th token. There is no
recursion in the invariant. `TreeInv` gives each item k the token `at[k]` at
which its value begins; items are allocated in the order of their values, so
`at` increases. An item that is parsed has type, value and name of that token
and of those in front of it (`ItemOf`, `NameIs`). Its `child` is the item of the
first value in its brackets (`ChildIs`), its `next` the item of the value behind
the comma that follows its own last token (`NextIs`); where a value ends, the
nesting depth says (`Ends`). The items on the stack are those whose values are
still open at p (`UnderWay`). Only the item on top of the stack changes in a
step, so what is said of the others is kept (`Kept`). When the root is parsed,
all items are settled (`Settled`).

**The look-ups.** `ResponseTextProofs` splits the text of an answer into values:
a list of parts with commas between them is a `Series`, with the offset of each
part. With `Settled` this gives the chain of children of an array or an object,
one for each part, in order (`ArrayKids`, `ObjectKids`). Hence `GetObjectItem`
finds the first member whose name agrees up to case, or none (`GetFirst`,
`GetNone`), and `GetArrayItem` the i-th row. `TextInv` ties the document to
the answer, `Rows` the item `list` to its rows.

**The loops.** `LoopInv`: before row i the vectors hold what the rows in front
of it say, and no row in front was defective. The k-th element of a vector
belongs to the row with k wanted rows up to and including itself; this count
(`Held`) is what `DecodedAsSent` states. For a domain list the object
holds the last row of the name so far (`DomainOf`). A step at row i either
extends this by one row or ends with the row that stops it, and the case
distinction of `FUNC_JSON_CHECK` and of the null pointers is then exactly
`Defective` (`StepIs`). `OtherNamesHarmless` is what these cases have in common.

These theorems need three more facts about answers, which are part of
`DecodeAssumption` and `Answer`. Only an answer with a list has rows. The name
"CountInfo", a member in front of the list, is not the name of the list in
another spelling. Numbers are small enough that no id equals what a negative
`int` becomes in 64 bits; otherwise an id that does not fit could survive by
accident, and the equivalence of `DomainDecodedAsSent` would fail.

### Base64

`Base64Proofs`, for every word, size offered, and inputs and texts of every length
whose sizes fit the word: `NeverBehindBuffer`, `AsksOnlyOnce`,
`RejectsExactlyMalformed` and `DecodesBack`. `LengthsFit` is a hypothesis of each;
section 3 says what happens without it. `Fits` carries it along: if the sizes of
some bytes fit, so do those of the text they are encoded to, and then sizes are
the plain ones (`EncodeSizeFits`, `DecodeSizeFits`). `BufferInv` counts: the encoder has written four characters for
every three bytes it read, the decoder at most three bytes for every four
characters, and the first loop has counted all characters before the second one
writes. `FormInv` follows the number of `=` through both loops. `TripInv` says
which group of four characters stands for which three bytes, and that the
decoder has restored the groups it has passed.

### Only model-checked

* Liveness (`Converges`, `InvocationsEnd`): fairness is out of the prover's
  reach.
* Trimming with a changing listing order, which is safe for one slot only.

## 5. Not modelled, and the plan

All operations of the program that change state are modelled, and the proofs
planned are done. What could be added is the proof that trimming is safe for one
slot under a changing listing order, which needs an invariant of its own: nobody
else deletes, so every element of the last listing but those already deleted is
live.

Not modelled, and why:

* **Vendored libraries.** `src/doc` holds releases of curl, OpenSSL and zlib, more
  than 99 % of the repository's lines of code, kept to be cross-built for the
  target. They are other projects' code, with state machines of their own (TLS,
  HTTP, deflate) of which this program reaches a handful of calls. Transfers and
  hashes are modelled by how the program uses them.
* **The rest of the JSON library**: printing, building, editing, duplicating and
  minifying trees. No caller in the program. Also escapes and fractions inside
  tokens.
* **API calls `main` does not make** (`dnspod_record_list`,
  `dnspod_record_line_list`, `dnspod_record_TXT_modify`): they send a request and
  print the answer, and keep nothing.
* **Stubs** for other platforms, build and install scripts, output.
