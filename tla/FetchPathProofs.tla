----------------------------- MODULE FetchPathProofs -----------------------------
(***************************************************************************)
(* Proofs about the fetch path (module FetchPath) for every set of jobs,   *)
(* site, redirects, lookups and configuration: where a request may         *)
(* connect, and what a page may be reported as.                            *)
(***************************************************************************)
EXTENDS FetchPath, TLAPS

USE DEF fetch, pools

-----------------------------------------------------------------------------
(* Addresses.                                                              *)

(* Octets and groups as the arithmetic the provers work with.              *)
LEMMA Octets == \A n : n \in Octet <=> n \in Int /\ 0 <= n /\ n <= 255
  BY DEF Octet

(* The same for groups: MAX_GROUP is expanded last.                        *)
LEMMA Groups == \A n : n \in Group <=> n \in Int /\ 0 <= n /\ n <= 65535
<1>1. MAX_GROUP \in Int
  BY DEF MAX_GROUP
<1>2. \A n : n \in Group <=> n \in Int /\ 0 <= n /\ n <= MAX_GROUP
  BY <1>1 DEF Group
<1>3. QED  BY <1>2 DEF MAX_GROUP

(* isPrivateIPv4 refuses every special-purpose block.                      *)
LEMMA PrivateIPv4 ==
  ASSUME NEW o \in [1 .. 4 -> Octet], Reserved4(o)
  PROVE  IsPrivateIPv4(o)
<1> DEFINE x == o[1]  y == o[2]
<1>1. x \in Int /\ y \in Int /\ 0 <= x /\ x <= 255 /\ 0 <= y /\ y <= 255
  BY Octets
<1>2. PICK block \in RESERVED : x * 256 + y \in block[1] .. block[1] + block[2] - 1
  BY DEF Reserved4
<1> HIDE DEF x, y
<1>3. \E first, size \in Nat :
        /\ <<first, size>> \in RESERVED
        /\ first <= x * 256 + y /\ x * 256 + y < first + size
  <2>1. \A b \in RESERVED : b[1] \in Nat /\ b[2] \in Nat /\ b = <<b[1], b[2]>>
    BY DEF RESERVED
  <2>2. block[1] <= x * 256 + y /\ x * 256 + y < block[1] + block[2]
    BY <1>1, <1>2, <2>1
  <2>3. QED  BY <2>1, <2>2
<1>4. \/ x \in {0, 10, 127} \/ x >= 224
      \/ x = 100 /\ 64 <= y /\ y <= 127
      \/ x = 169 /\ y = 254
      \/ x = 172 /\ 16 <= y /\ y <= 31
      \/ x = 192 /\ y = 168
      \/ x = 198 /\ y \in {18, 19}
  BY <1>1, <1>3 DEF RESERVED
<1>5. QED  BY <1>1, <1>4 DEF IsPrivateIPv4, x, y

(* isPrivateIPv6 refuses loopback, the unspecified address, the private    *)
(* and the multicast ranges, and an IPv4 address it would refuse.          *)
LEMMA PrivateIPv6 ==
  ASSUME NEW g \in [1 .. 8 -> Group], Reserved6(g)
  PROVE  g = None \/ IsPrivateIPv6(g)
<1>1. \A i \in 1 .. 8 : g[i] \in Int /\ 0 <= g[i] /\ g[i] <= 65535
  BY Groups
<1>2. CASE g \in {<<0, 0, 0, 0, 0, 0, 0, 0>>, <<0, 0, 0, 0, 0, 0, 0, 1>>}
  <2>1. /\ g[1] = 0 /\ g[2] = 0 /\ g[3] = 0 /\ g[4] = 0 /\ g[5] = 0 /\ g[6] = 0 /\ g[7] = 0
        /\ g[8] \in {0, 1}
    BY <1>2
  <2>2. \A i \in 1 .. 7 : g[i] = 0
    BY <2>1
  <2>3. QED  BY <2>1, <2>2 DEF IsPrivateIPv6
<1>3. CASE g[1] \in 64512 .. 65023 \cup 65152 .. 65215 \cup 65280 .. 65535
  <2>1. g[1] \div 512 = 126 \/ g[1] \div 64 = 1018 \/ g[1] \div 256 = 255
    BY <1>1, <1>3
  <2>2. QED  BY <2>1 DEF IsPrivateIPv6
<1>4. CASE /\ SubSeq(g, 1, 6) = <<0, 0, 0, 0, 0, 65535>>
           /\ Reserved4(<<g[7] \div 256, g[7] % 256, g[8] \div 256, g[8] % 256>>)
  <2> DEFINE o == <<g[7] \div 256, g[7] % 256, g[8] \div 256, g[8] % 256>>
  <2>1. o \in [1 .. 4 -> Octet]
    <3>1. /\ g[7] \div 256 \in Octet /\ g[7] % 256 \in Octet
          /\ g[8] \div 256 \in Octet /\ g[8] % 256 \in Octet
      BY <1>1, Octets
    <3>2. QED  BY <3>1
  <2>2. IsPrivateIPv4(o)
    BY <1>4, <2>1, PrivateIPv4
  <2>3. /\ g[1] = 0 /\ g[2] = 0 /\ g[3] = 0 /\ g[4] = 0 /\ g[5] = 0
        /\ g[6] = 65535
    <3>1. PICK head : head = SubSeq(g, 1, 6)
      OBVIOUS
    <3>2. \A i \in 1 .. 6 : head[i] = g[i]
      BY <3>1
    <3>3. head = <<0, 0, 0, 0, 0, 65535>>
      BY <1>4, <3>1
    <3>4. /\ head[1] = 0 /\ head[2] = 0 /\ head[3] = 0 /\ head[4] = 0 /\ head[5] = 0
          /\ head[6] = 65535
      BY <3>3
    <3>5. QED  BY <3>2, <3>4
  <2>4. \A i \in 1 .. 5 : g[i] = 0
    BY <2>3
  <2>5. QED  BY <2>2, <2>3, <2>4 DEF IsPrivateIPv6
<1>5. QED  BY <1>2, <1>3, <1>4 DEF Reserved6

(* An address that is let through is in no reserved block; one that did    *)
(* not expand is not let through.                                          *)
LEMMA PrivateCoversReserved ==
  ASSUME NEW address \in Address, ~IsPrivateAddress(address)
  PROVE  ~Reserved(address)
<1>1. CASE address.family = 4
  <2>1. address.groups \in [1 .. 4 -> Octet]
    BY <1>1 DEF Address
  <2>2. QED  BY <1>1, <2>1, PrivateIPv4 DEF IsPrivateAddress, Reserved
<1>2. CASE address.family = 6
  <2>1. address.groups # None
    BY <1>2 DEF IsPrivateAddress, IsPrivateIPv6
  <2>2. address.groups \in [1 .. 8 -> Group]
    BY <1>2, <2>1 DEF Address
  <2>3. QED  BY <1>2, <2>1, <2>2, PrivateIPv6 DEF IsPrivateAddress, Reserved
<1>3. QED  BY <1>1, <1>2 DEF Address

(* A guard that lets a request through gives an address, and one out of    *)
(* the reserved blocks unless the target is a fixture.                     *)
LEMMA GuardVets ==
  ASSUME NEW url, NEW records \in Seq(Address),
         url # None /\ IsLiteral(url) => url.host.address \in Address,
         Guard(url, records).code = None
  PROVE  AllowListed(url) \/ ~Reserved(Guard(url, records).address)
<1> DEFINE guard == Guard(url, records)
<1>1. \A code \in ERROR_CODES : Refuse(code).code # None
  BY NoneAssumption DEF Refuse
<1>2. /\ url # None
      /\ \/ guard = GuardLiteral(url) /\ IsLiteral(url)
         \/ guard = GuardRecords(url, records)
  BY <1>1 DEF Guard, ERROR_CODES
<1>3. CASE guard = GuardLiteral(url) /\ IsLiteral(url)
  <2>1. /\ guard.address = url.host.address
        /\ AllowListed(url) \/ ~IsPrivateAddress(url.host.address)
    BY <1>1, <1>3 DEF GuardLiteral, Pass, ERROR_CODES
  <2>2. QED  BY <1>2, <1>3, <2>1, PrivateCoversReserved
<1>4. CASE guard = GuardRecords(url, records)
  <2>1. /\ records # <<>> /\ guard.address = Head(records)
        /\ AllowListed(url) \/ \A r \in ToSet(records) : ~IsPrivateAddress(r)
    BY <1>1, <1>4 DEF GuardRecords, Pass, ERROR_CODES
  <2>2. Head(records) \in Address /\ Head(records) \in ToSet(records)
    BY <2>1 DEF ToSet
  <2>3. QED  BY <2>1, <2>2, PrivateCoversReserved
<1>5. QED  BY <1>2, <1>3, <1>4

-----------------------------------------------------------------------------
(* The invariant.                                                          *)

Fetching == {"guard", "send", "body"}
Rendering == {"browser", "closing", "launching", "rendering"}
Places == {"queued", "done"} \cup Fetching \cup Rendering

(* The arrays are as wide as the jobs.                                     *)
Arrays == /\ pc \in [Jobs -> Places]
          /\ DOMAIN stage = Jobs /\ DOMAIN request = Jobs /\ DOMAIN pinned = Jobs
          /\ DOMAIN reply = Jobs /\ DOMAIN answer = Jobs /\ DOMAIN outcome = Jobs

(* A job that fetches asks for a URL of the site, and connects to an       *)
(* address its guard let through.                                          *)
Asking(j) ==
  /\ pc[j] \in Fetching => request[j].url \in DOMAIN Parsed
  /\ pc[j] \in {"send", "body"} => AllowListed(Parsed[request[j].url]) \/ ~Reserved(pinned[j])

(* A link target is checked, a page is fetched or rendered.                *)
Staged(j) == IF j \in Pages THEN stage[j] \in {"fetch", "render"} ELSE stage[j] = "check"

(* A job has an outcome only once it is done, a body is read of a          *)
(* response, and only a page that was served comes to the browser.         *)
Underway(j) ==
  /\ pc[j] # "done" => outcome[j] = None
  /\ pc[j] = "body" => reply[j].status \in Nat
  /\ pc[j] \in Rendering =>
       /\ j \in Pages /\ stage[j] = "render"
       /\ ~answer[j].error /\ answer[j].body /\ answer[j].status \in Nat

Served(j) == ~answer[j].error /\ answer[j].body /\ answer[j].status < 400

(* What a page is reported as is what came of it.                          *)
Reported(j) ==
  j \in Pages /\ outcome[j] # None =>
    /\ outcome[j] = "audited" => Served(j)
    /\ outcome[j] = "failed" => ~Served(j) \/ (answer[j].empty /\ stage[j] = "render")
    /\ outcome[j] = "unchanged" => answer[j].notModified /\ j \in Hinted

Sound(j) == Asking(j) /\ Staged(j) /\ Underway(j) /\ Reported(j)

FetchInv == Arrays /\ \A j \in Jobs : Sound(j)

(* The invariant implies both properties.                                  *)
LEMMA FetchInvTells ==
  ASSUME FetchInv PROVE VettedConnections /\ AuditedIsServed
<1>1. VettedConnections
  BY DEF FetchInv, Sound, Asking, VettedConnections
<1>2. AuditedIsServed
  BY DEF FetchInv, Sound, Reported, Served, AuditedIsServed, Jobs
<1>3. QED  BY <1>1, <1>2

-----------------------------------------------------------------------------
(* The steps.                                                              *)

(* A step that changes one job alone is judged by that job.                *)
LEMMA OneJob ==
  ASSUME FetchInv, NEW j \in Jobs, Arrays', Sound(j)',
         \A k \in Jobs \ {j} :
           /\ pc'[k] = pc[k] /\ stage'[k] = stage[k] /\ request'[k] = request[k]
           /\ pinned'[k] = pinned[k] /\ reply'[k] = reply[k]
           /\ answer'[k] = answer[k] /\ outcome'[k] = outcome[k]
  PROVE  FetchInv'
<1>1. ASSUME NEW k \in Jobs \ {j} PROVE Sound(k)'
  <2>1. Asking(k)' /\ Staged(k)' /\ Underway(k)' /\ Reported(k)'
    BY <1>1 DEF FetchInv, Sound, Asking, Staged, Underway, Reported, Served
  <2>2. QED  BY <2>1 DEF Sound
<1>2. QED  BY <1>1 DEF FetchInv

(* The start of a fetch, whatever the politeness window says.              *)
LEMMA BeginFetch ==
  ASSUME FetchInv, NEW j \in Jobs, NEW method, pc[j] = "queued",
         \/ Begin(j, method) /\ pc' = [pc EXCEPT ![j] = "guard"]
         \/ UNCHANGED <<request, pc>>,
         UNCHANGED <<stage, pinned, reply, answer, outcome>>
  PROVE  FetchInv'
<1>1. CASE UNCHANGED <<request, pc>>
  BY <1>1 DEF FetchInv, Arrays, Sound, Asking, Staged, Underway, Reported, Served
<1>2. CASE Begin(j, method) /\ pc' = [pc EXCEPT ![j] = "guard"]
  <2>1. Arrays'
    BY <1>2 DEF FetchInv, Arrays, Begin, Places, Fetching
  <2>2. pc'[j] = "guard" /\ request'[j].url = Target[j]
    BY <1>2 DEF FetchInv, Arrays, Begin
  <2>3. Target[j] \in DOMAIN Parsed
    BY UrlsAssumption
  <2>4. Sound(j)'
    BY <2>2, <2>3 DEF FetchInv, Sound, Asking, Staged, Underway, Reported, Served, Rendering
  <2>5. QED  BY <1>2, <2>1, <2>4, OneJob DEF FetchInv, Arrays, Begin
<1>3. QED  BY <1>1, <1>2

(* The end of a fetch: what each job makes of the result.                  *)
LEMMA FinishFetch ==
  ASSUME FetchInv, NEW j \in Jobs, NEW result, pc[j] \in Fetching, result.status \in Nat,
         Finish(j, result)
  PROVE  FetchInv'
<1> USE DEF FetchInv, Arrays
<1>1. /\ pc' = [pc EXCEPT ![j] = pc'[j]] /\ pc'[j] \in {"done", "queued", "browser", "guard"}
      /\ DOMAIN stage' = Jobs /\ DOMAIN outcome' = Jobs
      /\ \A k \in Jobs \ {j} : stage'[k] = stage[k] /\ outcome'[k] = outcome[k]
  BY DEF Finish, ProcessFetch, ProcessRender, CheckLink, Settled
<1>2. /\ DOMAIN answer' = Jobs /\ DOMAIN request' = Jobs
      /\ DOMAIN pinned' = Jobs /\ DOMAIN reply' = Jobs
      /\ \A k \in Jobs \ {j} :
            /\ answer'[k] = answer[k] /\ request'[k] = request[k]
            /\ pinned'[k] = pinned[k] /\ reply'[k] = reply[k]
  BY DEF Finish, Begin
<1>3. Arrays'
  BY <1>1, <1>2 DEF Places, Fetching, Rendering
<1>4. /\ j \in Pages => answer'[j] = result
      /\ Staged(j) /\ outcome[j] = None
  BY DEF Finish, Sound, Underway, Fetching
<1>5. CASE ProcessFetch(j, result)
  <2>1. j \in Pages /\ answer'[j] = result
    BY <1>4, <1>5 DEF ProcessFetch, Staged
  <2>2. Staged(j)'
    BY <1>5, <2>1 DEF ProcessFetch, Staged
  <2>3. /\ pc'[j] \in {"done", "queued"} /\ (pc'[j] = "queued" => outcome'[j] = None)
        /\ pc'[j] = "done" =>
             \/ outcome'[j] = "unchanged" /\ result.notModified /\ j \in Hinted
             \/ outcome'[j] = "failed" /\ (result.error \/ ~result.body \/ result.status >= 400)
             \/ /\ outcome'[j] = "audited"
                /\ ~(result.error \/ ~result.body \/ result.status >= 400)
    BY <1>4, <1>5 DEF ProcessFetch, Settled
  <2>4. Asking(j)' /\ Underway(j)'
    BY <2>3 DEF Asking, Underway, Fetching, Rendering
  <2>5. Reported(j)'
    BY <2>1, <2>3 DEF Reported, Served
  <2>6. Sound(j)'
    BY <2>2, <2>4, <2>5 DEF Sound
  <2>7. QED  BY <1>1, <1>2, <1>3, <2>6, OneJob
<1>6. CASE ProcessRender(j, result)
  <2>1. j \in Pages /\ answer'[j] = result /\ stage'[j] = "render"
    BY <1>4, <1>6 DEF ProcessRender, Staged
  <2>2. \/ /\ pc'[j] = "done" /\ outcome'[j] = "failed" /\ (result.error \/ ~result.body)
        \/ pc'[j] = "browser" /\ outcome'[j] = None /\ ~result.error /\ result.body
    BY <1>4, <1>6 DEF ProcessRender, Settled
  <2>3. Asking(j)' /\ Underway(j)'
    BY <2>1, <2>2 DEF Asking, Underway, Fetching, Rendering
  <2>4. Reported(j)'
    BY <2>1, <2>2 DEF Reported, Served
  <2>5. Sound(j)'
    BY <2>1, <2>3, <2>4 DEF Sound, Staged
  <2>6. QED  BY <1>1, <1>2, <1>3, <2>5, OneJob
<1>7. CASE CheckLink(j, result)
  <2>1. j \notin Pages /\ stage'[j] = "check"
    BY <1>4, <1>7 DEF CheckLink, Staged
  <2>2. \/ pc'[j] = "guard" /\ outcome'[j] = None /\ request'[j].url \in DOMAIN Parsed
        \/ pc'[j] = "done"
    <3>1. CASE RefusesHead(j, result)
      <4>1. pc'[j] = "guard" /\ outcome'[j] = None
        BY <1>4, <1>7, <3>1 DEF CheckLink
      <4>2. request'[j].url = Target[j]
        BY <3>1 DEF Finish, Begin
      <4>3. Target[j] \in DOMAIN Parsed
        BY UrlsAssumption
      <4>4. QED  BY <4>1, <4>2, <4>3
    <3>2. CASE ~RefusesHead(j, result)
      BY <1>7, <3>2 DEF CheckLink, Settled
    <3>3. QED  BY <3>1, <3>2
  <2>3. Asking(j)' /\ Underway(j)' /\ Reported(j)'
    BY <2>1, <2>2 DEF Asking, Underway, Reported, Fetching, Rendering
  <2>4. Sound(j)'
    BY <2>1, <2>3 DEF Sound, Staged
  <2>5. QED  BY <1>1, <1>2, <1>3, <2>4, OneJob
<1>8. QED  BY <1>5, <1>6, <1>7 DEF Finish

(* What fails has no status to show.                                       *)
LEMMA FailFetch ==
  ASSUME FetchInv, NEW j \in Jobs, pc[j] \in Fetching, Fail(j) PROVE FetchInv'
<1>1. Failure.status \in Nat
  BY DEF Failure
<1>2. QED  BY <1>1, FinishFetch DEF Fail

(* The guard: GuardVets at work, for the URL of the hop.                   *)
LEMMA GuardStep ==
  ASSUME FetchInv, NEW j \in Jobs, GuardRequest(j) PROVE FetchInv'
<1> DEFINE url == Parsed[request[j].url]
<1>1. PICK records \in RecordsOf(url) :
        \/ Fail(j)
        \/ /\ Guard(url, records).code = None
           /\ pinned' = [pinned EXCEPT ![j] = Guard(url, records).address]
           /\ pc' = [pc EXCEPT ![j] = "send"]
           /\ UNCHANGED <<stage, request, reply, answer, outcome>>
  BY DEF GuardRequest
<1>2. pc[j] = "guard" /\ request[j].url \in DOMAIN Parsed
  BY DEF GuardRequest, FetchInv, Sound, Asking, Fetching
<1>3. CASE Fail(j)
  BY <1>2, <1>3, FailFetch DEF Fetching
<1>4. CASE /\ Guard(url, records).code = None
           /\ pinned' = [pinned EXCEPT ![j] = Guard(url, records).address]
           /\ pc' = [pc EXCEPT ![j] = "send"]
           /\ UNCHANGED <<stage, request, reply, answer, outcome>>
  <2>1. records \in Seq(Address) /\ (url # None /\ IsLiteral(url) => url.host.address \in Address)
    BY <1>2, UrlsAssumption
  <2>2. AllowListed(url) \/ ~Reserved(Guard(url, records).address)
    BY <1>4, <2>1, GuardVets
  <2>3. pc'[j] = "send" /\ pinned'[j] = Guard(url, records).address
    BY <1>4 DEF FetchInv, Arrays
  <2>4. Asking(j)'
    BY <1>2, <1>4, <2>2, <2>3 DEF Asking
  <2>5. Staged(j)' /\ Underway(j)' /\ Reported(j)'
    BY <1>2, <1>4, <2>3 DEF FetchInv, Sound, Staged, Underway, Reported, Served, Rendering
  <2>6. Arrays'
    BY <1>4 DEF FetchInv, Arrays, Places, Fetching
  <2>7. Sound(j)'
    BY <2>4, <2>5 DEF Sound
  <2>8. QED  BY <1>4, <2>6, <2>7, OneJob DEF FetchInv, Arrays
<1>5. QED  BY <1>1, <1>3, <1>4

(* A response: a redirect is guarded anew, any other is read or done with. *)
LEMMA RespondStep ==
  ASSUME FetchInv, NEW j \in Jobs, Respond(j) PROVE FetchInv'
<1>1. pc[j] = "send" /\ pc[j] \in Fetching /\ request[j].url \in DOMAIN Parsed
  BY DEF Respond, FetchInv, Sound, Asking, Fetching
<1>2. PICK response \in Serves[request[j].url] :
        IF IsRedirect(response) THEN Redirected(j, response)
        ELSE IF SkipBody(request[j].method, response) THEN Finish(j, Answer(response, FALSE))
        ELSE /\ reply' = [reply EXCEPT ![j] = response]
             /\ pc' = [pc EXCEPT ![j] = "body"]
             /\ UNCHANGED <<stage, request, pinned, answer, outcome, window, stored, pools, deaths>>
  BY DEF Respond
<1>3. response.status \in Nat /\ response.location \in DOMAIN Parsed \cup {None}
  BY <1>1, ServesAssumption
<1>4. CASE Redirected(j, response)
  <2>1. CASE Fail(j)
    BY <1>1, <2>1, FailFetch
  <2>2. CASE ~Fail(j)
    <3>1. /\ response.location # None
          /\ request' = [request EXCEPT ![j] =
                           [url |-> response.location, hops |-> request[j].hops + 1,
                            method |-> NextMethod(request[j].method, response.status)]]
          /\ pinned' = [pinned EXCEPT ![j] = None]
          /\ pc' = [pc EXCEPT ![j] = "guard"]
          /\ UNCHANGED <<stage, reply, answer, outcome>>
      BY <1>4, <2>2 DEF Redirected
    <3>2. Arrays'
      BY <3>1 DEF FetchInv, Arrays, Places, Fetching
    <3>3. pc'[j] = "guard" /\ request'[j].url = response.location
      BY <3>1 DEF FetchInv, Arrays
    <3>4. Sound(j)'
      BY <1>1, <1>3, <3>1, <3>3
         DEF FetchInv, Sound, Asking, Staged, Underway, Reported, Served, Rendering
    <3>5. QED  BY <3>1, <3>2, <3>4, OneJob DEF FetchInv, Arrays
  <2>3. QED  BY <2>1, <2>2
<1>5. CASE Finish(j, Answer(response, FALSE))
  <2>1. Answer(response, FALSE).status \in Nat
    BY <1>3 DEF Answer
  <2>2. QED  BY <1>1, <1>5, <2>1, FinishFetch
<1>6. CASE /\ reply' = [reply EXCEPT ![j] = response]
           /\ pc' = [pc EXCEPT ![j] = "body"]
           /\ UNCHANGED <<stage, request, pinned, answer, outcome>>
  <2>1. Arrays'
    BY <1>6 DEF FetchInv, Arrays, Places, Fetching
  <2>2. pc'[j] = "body" /\ reply'[j] = response
    BY <1>6 DEF FetchInv, Arrays
  <2>3. Sound(j)'
    BY <1>1, <1>3, <1>6, <2>2
       DEF FetchInv, Sound, Asking, Staged, Underway, Reported, Served, Rendering
  <2>4. QED  BY <1>6, <2>1, <2>3, OneJob DEF FetchInv, Arrays
<1>7. QED  BY <1>2, <1>4, <1>5, <1>6

(* A body, read to its end or not.                                         *)
LEMMA BodyStep ==
  ASSUME FetchInv, NEW j \in Jobs, ReadBody(j) \/ BreakOff(j) PROVE FetchInv'
<1>1. pc[j] \in Fetching
  BY DEF ReadBody, BreakOff, Fetching
<1>2. CASE Fail(j)
  BY <1>1, <1>2, FailFetch
<1>3. CASE ReadBody(j) /\ ~Fail(j)
  <2>1. Finish(j, Answer(reply[j], TRUE)) /\ reply[j].status \in Nat
    BY <1>3 DEF ReadBody, FetchInv, Sound, Underway
  <2>2. Answer(reply[j], TRUE).status \in Nat
    BY <2>1 DEF Answer
  <2>3. QED  BY <1>1, <2>1, <2>2, FinishFetch
<1>4. QED  BY <1>2, <1>3 DEF BreakOff

(* The browser: what a page was served as stays until it is audited.       *)
LEMMA BrowserStep ==
  ASSUME FetchInv, NEW j \in Jobs, pc[j] \in Rendering,
         UNCHANGED <<stage, request, pinned, reply, answer>>,
         \/ UNCHANGED outcome /\ \E place \in Rendering : pc' = [pc EXCEPT ![j] = place]
         \/ Audit(j, FALSE) \/ Audit(j, answer[j].empty)
  PROVE  FetchInv'
<1>1. /\ j \in Pages /\ stage[j] = "render" /\ outcome[j] = None
      /\ ~answer[j].error /\ answer[j].body /\ answer[j].status \in Nat
  BY DEF FetchInv, Sound, Underway, Rendering
<1>2. CASE UNCHANGED outcome /\ \E place \in Rendering : pc' = [pc EXCEPT ![j] = place]
  <2>1. PICK place \in Rendering : pc' = [pc EXCEPT ![j] = place]
    BY <1>2
  <2>2. Arrays' /\ pc'[j] \in Rendering
    BY <1>2, <2>1 DEF FetchInv, Arrays, Places
  <2>3. Sound(j)'
    BY <1>1, <1>2, <2>2 DEF Sound, Asking, Staged, Underway, Reported, Fetching, Rendering
  <2>4. QED  BY <1>2, <2>1, <2>2, <2>3, OneJob DEF FetchInv, Arrays
<1>3. ASSUME NEW empty, empty => answer[j].empty, Audit(j, empty) PROVE FetchInv'
  <2>1. /\ pc' = [pc EXCEPT ![j] = "done"]
        /\ outcome' = [outcome EXCEPT ![j] =
                         IF empty \/ answer[j].status >= 400 THEN "failed" ELSE "audited"]
    BY <1>3 DEF Audit, Settled
  <2>2. Arrays'
    BY <2>1 DEF FetchInv, Arrays, Places
  <2>3. /\ pc'[j] = "done"
        /\ \/ outcome'[j] = "failed" /\ (answer[j].empty \/ answer[j].status >= 400)
           \/ outcome'[j] = "audited" /\ ~(answer[j].status >= 400)
    BY <1>3, <2>1 DEF FetchInv, Arrays
  <2>4. Reported(j)'
    BY <1>1, <2>3 DEF Reported, Served
  <2>5. Asking(j)' /\ Staged(j)' /\ Underway(j)'
    BY <1>1, <2>3 DEF Asking, Staged, Underway, Fetching, Rendering
  <2>6. Sound(j)'
    BY <2>4, <2>5 DEF Sound
  <2>7. QED  BY <2>1, <2>2, <2>6, OneJob DEF FetchInv, Arrays
<1>4. QED  BY <1>2, <1>3

(* Deliveries start again from their queues, without an address and        *)
(* without an answer; what is done stays done.                             *)
LEMMA DieStep ==
  ASSUME FetchInv, Die PROVE FetchInv'
<1>1. Arrays'
  BY DEF FetchInv, Arrays, Die, Places
<1>2. ASSUME NEW j \in Jobs PROVE Sound(j)'
  <2>1. /\ pc'[j] \in {"queued", "done"} /\ (pc'[j] = "done" <=> pc[j] = "done")
        /\ stage'[j] = stage[j] /\ outcome'[j] = outcome[j]
        /\ pc[j] = "done" => answer'[j] = answer[j]
    BY <1>2 DEF FetchInv, Arrays, Die
  <2>2. Asking(j)' /\ Staged(j)' /\ Underway(j)'
    BY <2>1 DEF FetchInv, Sound, Asking, Staged, Underway, Fetching, Rendering
  <2>3. Reported(j)'
    BY <2>1 DEF FetchInv, Sound, Underway, Reported, Served
  <2>4. QED  BY <2>2, <2>3 DEF Sound
<1>3. QED  BY <1>1, <1>2 DEF FetchInv

(* Every step of the process preserves the invariant.                      *)
LEMMA FetchStep ==
  ASSUME FetchInv, [Next]_vars PROVE FetchInv'
<1>1. ASSUME NEW j \in Jobs, Step(j) PROVE FetchInv'
  <2>1. CASE GatePoliteness(j)
    BY <2>1, BeginFetch DEF GatePoliteness
  <2>2. CASE StartLinkCheck(j)
    BY <2>2, BeginFetch DEF StartLinkCheck
  <2>3. CASE StartRender(j)
    BY <2>3, BeginFetch DEF StartRender
  <2>4. CASE GuardRequest(j)
    BY <2>4, GuardStep
  <2>5. CASE Respond(j)
    BY <2>5, RespondStep
  <2>6. CASE ReadBody(j) \/ BreakOff(j)
    BY <2>6, BodyStep
  <2>7. CASE GetBrowser(j)
    BY <2>7, BrowserStep DEF GetBrowser, Rendering
  <2>8. CASE Close(j)
    BY <2>8, BrowserStep DEF Close, Rendering
  <2>9. CASE Launch(j)
    BY <2>9, BrowserStep DEF Launch, Rendering
  <2>10. CASE Render(j)
    BY <2>10, BrowserStep DEF Render, Rendering
  <2>11. CASE RenderFails(j)
    BY <2>11, BrowserStep DEF RenderFails, Rendering
  <2>12. QED
    BY <1>1, <2>1, <2>2, <2>3, <2>4, <2>5, <2>6, <2>7, <2>8, <2>9, <2>10, <2>11 DEF Step
<1>2. CASE NextWindow \/ ForgetConfig \/ CrashBrowser \/ UNCHANGED vars
  <2>1. UNCHANGED <<pc, stage, request, pinned, reply, answer, outcome>>
    BY <1>2 DEF NextWindow, ForgetConfig, CrashBrowser, vars
  <2>2. QED
    BY <2>1 DEF FetchInv, Arrays, Sound, Asking, Staged, Underway, Reported, Served
<1>3. CASE Die
  BY <1>3, DieStep
<1>4. QED  BY <1>1, <1>2, <1>3 DEF Next, Work

(* Nothing is fetched yet.                                                 *)
LEMMA FetchInit == ASSUME Init PROVE FetchInv
<1>1. Arrays
  BY DEF Init, Arrays, Places, FirstStage
<1>2. ASSUME NEW j \in Jobs PROVE Sound(j)
  BY <1>2 DEF Init, FirstStage, Sound, Asking, Staged, Underway, Reported, Fetching, Rendering
<1>3. QED  BY <1>1, <1>2 DEF FetchInv

(* FetchInv is an invariant of the fetch path.                             *)
LEMMA FetchInvariant == Spec => []FetchInv
BY FetchInit, FetchStep, PTL DEF Spec

-----------------------------------------------------------------------------
(* The theorems.                                                           *)

(* SafeFetcher: no request goes to an address of a reserved block unless   *)
(* its target is a fixture, for any pages, redirects, lookups that change  *)
(* their answer, deaths and losses of the configuration.                   *)
THEOREM VettedCorrect == Spec => []VettedConnections
BY FetchInvariant, FetchInvTells, PTL

(* processFetch, processRendered: a page that was served is audited, one   *)
(* that was not has failed, whatever becomes of the browser.               *)
THEOREM ServedCorrect == Spec => []AuditedIsServed
BY FetchInvariant, FetchInvTells, PTL
=============================================================================
