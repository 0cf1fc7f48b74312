-------------------------- MODULE ReportLinksProofs --------------------------
(***************************************************************************)
(* Proofs about ReportLinks for any number of jobs, requests and keys, and *)
(* any faults.                                                             *)
(***************************************************************************)
EXTENDS ReportLinks, FiniteSetTheorems, TLAPS

Minting == {"find", "render", "upload", "insert", "refind"}

\* A mint has an id that no row and no other request has, and a token of its own unless
\* that is a key; rows and mints under a key are for jobs the key was sent for.
Books ==
    /\ \A h \in Handlers : handler[h].pc # "idle" =>
          /\ handler[h].job \in Shared
          /\ handler[h].token \in Tokens
          /\ handler[h].id \in 1 .. visits
    /\ \A h \in Handlers : handler[h].pc \in Minting =>
          /\ handler[h].look \in Looks
          /\ handler[h].token \in Keys => handler[h].job \in claims[handler[h].token]
          /\ handler[h].token \notin Keys => handler[h].token = handler[h].id
    /\ \A h \in Handlers : handler[h].pc \in {"find", "refind"} => handler[h].token \in Keys
    /\ \A v \in Tokens : link[v] # NoLink =>
          /\ link[v].id \in 1 .. visits
          /\ v \in Keys => link[v].job \in claims[v]
          /\ v \notin Keys => link[v].id = v
    /\ \A h \in Handlers : handler[h].pc \in Minting =>
          /\ \A v \in Tokens : link[v].id # handler[h].id
          /\ \A g \in Handlers \ {h} : handler[g].pc # "idle" => handler[g].id # handler[h].id

LinkTypeInv == LinkTypeOK /\ Books

\* Request h goes to step s.
Went(h, s) ==
    /\ handler' \in [Handlers -> LinkRequest]
    /\ \A g \in Handlers \ {h} : handler'[g] = handler[g]
    /\ handler'[h].pc = s
    /\ handler'[h].job = handler[h].job
    /\ handler'[h].token = handler[h].token
    /\ handler'[h].id = handler[h].id
    /\ handler'[h].look = handler[h].look
    /\ handler'[h].hits = handler[h].hits

\* Request h ends.
Left(h) ==
    /\ handler' \in [Handlers -> LinkRequest]
    /\ \A g \in Handlers \ {h} : handler'[g] = handler[g]
    /\ handler'[h] = IdleHandler

\* Request h begins at s, about job j, token v and id n, with look l and hits c.
Came(h, s, j, v, n, l, c) ==
    /\ handler[h].pc = "idle"
    /\ handler' \in [Handlers -> LinkRequest]
    /\ \A g \in Handlers \ {h} : handler'[g] = handler[g]
    /\ handler'[h].pc = s
    /\ handler'[h].job = j
    /\ handler'[h].token = v
    /\ handler'[h].id = n
    /\ handler'[h].look = l
    /\ handler'[h].hits = c
-----------------------------------------------------------------------------
(* How a request and a row move. *)

LEMMA HandlerFields ==
    ASSUME LinkTypeOK, NEW h \in Handlers
    PROVE  /\ handler[h] \in LinkRequest
           /\ handler[h].pc \in LinkSteps \union {"idle"}
           /\ handler[h].job \in Shared \union {NoShared}
           /\ handler[h].token \in Tokens \union {0}
           /\ handler[h].id \in 0 .. MaxVisits
           /\ handler[h].look \in Looks \union {Missing}
           /\ handler[h].hits \in Nat
BY DEF LinkTypeOK, LinkRequest

LEMMA RowFields ==
    ASSUME LinkTypeOK, NEW v \in Tokens
    PROVE  /\ link[v] \in LinkRow
           /\ link[v].id \in 0 .. MaxVisits
           /\ link[v].job \in Shared \union {NoShared}
           /\ link[v].look \in Looks \union {Missing}
           /\ link[v].expired \in BOOLEAN
           /\ link[v].hits \in Nat
           /\ link[v] # NoLink => link[v].job \in Shared /\ link[v].look \in Looks
BY DEF LinkTypeOK, LinkRow

LEMMA IdleType == IdleHandler \in LinkRequest
BY LinkBoundAssumption DEF IdleHandler, LinkRequest

LEMMA NoLinkType == NoLink \in LinkRow /\ NoLink.id = 0
BY LinkBoundAssumption DEF NoLink, LinkRow

LEMMA GoMoves ==
    ASSUME LinkTypeOK, NEW h \in Handlers, NEW s \in LinkSteps, Go(h, s)
    PROVE  Went(h, s)
BY HandlerFields DEF Go, LinkTypeOK, LinkRequest, Went

LEMMA LeaveMoves ==
    ASSUME LinkTypeOK, NEW h \in Handlers, Leave(h)
    PROVE  Left(h)
BY IdleType DEF Leave, LinkTypeOK, Left

LEMMA CameMoves ==
    ASSUME LinkTypeOK, NEW h \in Handlers, Is(h, "idle"),
           NEW s \in LinkSteps, NEW j \in Shared, NEW v \in Tokens, NEW n \in 0 .. MaxVisits,
           NEW l \in Looks \union {Missing}, NEW i \in BOOLEAN, NEW c \in Nat,
           handler' = [handler EXCEPT ![h] =
               [pc |-> s, job |-> j, token |-> v, id |-> n, look |-> l, inline |-> i,
                hits |-> c]]
    PROVE  Came(h, s, j, v, n, l, c)
<1> DEFINE e == [pc |-> s, job |-> j, token |-> v, id |-> n, look |-> l, inline |-> i,
                 hits |-> c]
<1>1. e \in LinkRequest
  BY DEF LinkRequest
<1>2. /\ e.pc = s /\ e.job = j /\ e.token = v /\ e.id = n /\ e.look = l /\ e.hits = c
  OBVIOUS
<1>3. handler' = [handler EXCEPT ![h] = e]
  OBVIOUS
<1> HIDE DEF e
<1> QED
  BY <1>1, <1>2, <1>3 DEF LinkTypeOK, Came, Is

LEMMA HitchType ==
    ASSUME LinkTypeOK, NEW kind, Hitch(kind)
    PROVE  /\ hitches' \in 0 .. MaxLinkFaults /\ hitches' = hitches + 1
           /\ hitches \in Nat
BY LinkBoundAssumption DEF LinkTypeOK, Hitch
-----------------------------------------------------------------------------
(* The shapes of a step. *)

Same == <<link, object, given, claims, renders, served, revoked, torn>>

\* A mint begins.
Opens(h) == /\ visits' = visits + 1
            /\ visits < MaxVisits
            /\ \E j \in Shared, l \in Looks :
                  \/ /\ Came(h, "render", j, visits + 1, visits + 1, l, 0)
                     /\ claims' = claims
                  \/ \E k \in Keys :
                        /\ Came(h, "find", j, k, visits + 1, l, 0)
                        /\ claims' = [claims EXCEPT ![k] = @ \union {j}]
            /\ UNCHANGED <<link, object, given, renders, served, revoked, torn, hitches>>

\* A mint is answered with a link that is there.
Reuses(h) == /\ handler[h].pc \in {"find", "refind"}
             /\ link[handler[h].token] # NoLink
             /\ Left(h)
             /\ given' = given \union {<<handler[h].job, handler[h].token>>}
             /\ UNCHANGED <<link, object, visits, claims, renders, served, revoked, torn,
                            hitches>>

Starts(h) == /\ handler[h].pc = "find"
             /\ LET row == link[handler[h].token] IN
                \/ row = NoLink \/ row.expired \/ object[handler[h].job] = Missing
             /\ Went(h, "render")
             /\ UNCHANGED <<Same, visits, hitches>>

Passes(h) == /\ \/ handler[h].pc = "render" /\ Went(h, "upload") /\ hitches' = hitches
                \/ /\ handler[h].pc = "insert" /\ Went(h, "refind")
                   /\ \/ link[handler[h].token] # NoLink /\ hitches' = hitches
                      \/ handler[h].token \in Keys /\ hitches' = hitches + 1
                \/ handler[h].pc = "fetch" /\ Went(h, "count") /\ hitches' = hitches
             /\ hitches' \in 0 .. MaxLinkFaults
             /\ UNCHANGED <<Same, visits>>

Leaves(h) == /\ handler[h].pc # "idle"
             /\ Left(h)
             /\ \/ handler[h].pc # "insert" /\ hitches' = hitches
                \/ hitches' = hitches + 1
             /\ hitches' \in 0 .. MaxLinkFaults
             /\ UNCHANGED <<Same, visits>>

Stores(h) == /\ handler[h].pc = "upload"
             /\ object' = [object EXCEPT ![handler[h].job] = handler[h].look]
             /\ renders' = [renders EXCEPT ![handler[h].token] = @ + 1]
             /\ Went(h, "insert")
             /\ UNCHANGED <<link, given, claims, served, revoked, torn, visits, hitches>>

Inserts(h) == /\ handler[h].pc = "insert"
              /\ link[handler[h].token] = NoLink
              /\ link' = [link EXCEPT ![handler[h].token] =
                     [id |-> handler[h].id, job |-> handler[h].job, look |-> handler[h].look,
                      expired |-> FALSE, hits |-> 0]]
              /\ served' = [served EXCEPT ![handler[h].token] = 0]
              /\ given' = given \union {<<handler[h].job, handler[h].token>>}
              /\ Left(h)
              /\ UNCHANGED <<object, claims, renders, revoked, torn, visits, hitches>>

\* A request for a row begins.
Comes(h) == /\ \E v \in Tokens, s \in {"erase", "fetch"}, c \in Nat :
                  /\ link[v] # NoLink
                  /\ s = "fetch" => c = link[v].hits /\ ~link[v].expired
                  /\ Came(h, s, link[v].job, v, link[v].id, Missing, c)
            /\ visits' \in {visits, visits + 1}
            /\ visits' \in 0 .. MaxVisits
            /\ UNCHANGED <<Same, hitches>>

Tears(h) == /\ handler[h].pc = "erase"
            /\ Went(h, "drop")
            /\ \/ /\ object' = [object EXCEPT ![handler[h].job] = Missing]
                  /\ torn' = torn \union {handler[h].job}
                  /\ hitches' = hitches
               \/ object' = object /\ torn' = torn /\ hitches' = hitches + 1
            /\ hitches' \in 0 .. MaxLinkFaults
            /\ UNCHANGED <<link, given, claims, renders, served, revoked, visits>>

Drops(h) == /\ handler[h].pc = "drop"
            /\ link[handler[h].token].id = handler[h].id
            /\ link' = [link EXCEPT ![handler[h].token] = NoLink]
            /\ revoked' = revoked \union {handler[h].token}
            /\ Left(h)
            /\ UNCHANGED <<object, given, claims, renders, served, torn, visits, hitches>>

Counts(h) == /\ handler[h].pc = "count"
             /\ link[handler[h].token].id = handler[h].id
             /\ link' = [link EXCEPT ![handler[h].token] =
                    [@ EXCEPT !.hits = handler[h].hits + 1]]
             /\ served' = [served EXCEPT ![handler[h].token] = @ + 1]
             /\ Left(h)
             /\ UNCHANGED <<object, given, claims, renders, revoked, torn, visits, hitches>>

HandlerStep(h) ==
    \/ Opens(h) \/ Reuses(h) \/ Starts(h) \/ Passes(h) \/ Leaves(h) \/ Stores(h)
    \/ Inserts(h) \/ Comes(h) \/ Tears(h) \/ Drops(h) \/ Counts(h)

LEMMA OpenShape ==
    ASSUME LinkTypeInv, NEW h \in Handlers, NEW j \in Shared, NEW l \in Looks,
           \/ Mint(h, j, l)
           \/ \E k \in Keys, i \in BOOLEAN : MintKeyed(h, j, k, l, i)
    PROVE  Opens(h)
<1>1. LinkTypeOK /\ visits \in 0 .. MaxVisits
  BY DEF LinkTypeInv, LinkTypeOK
<1>2. CASE Mint(h, j, l)
  <2>1. visits + 1 \in Tokens /\ visits + 1 \in 0 .. MaxVisits
    BY <1>1, <1>2, LinkBoundAssumption DEF Mint, Tokens
  <2>2. Came(h, "render", j, visits + 1, visits + 1, l, 0)
    <3>1. "render" \in LinkSteps /\ FALSE \in BOOLEAN /\ 0 \in Nat
      BY DEF LinkSteps
    <3>2. handler' = [handler EXCEPT ![h] =
              [pc |-> "render", job |-> j, token |-> visits + 1, id |-> visits + 1,
               look |-> l, inline |-> FALSE, hits |-> 0]]
      BY <1>2 DEF Mint
    <3>3. Is(h, "idle")
      BY <1>2 DEF Mint
    <3> QED
      BY <1>1, <2>1, <3>1, <3>2, <3>3, CameMoves
  <2> QED
    BY <1>2, <2>2, Zenon DEF Mint, Opens
<1>3. ASSUME NEW k \in Keys, NEW i \in BOOLEAN, MintKeyed(h, j, k, l, i)
      PROVE  Opens(h)
  <2>1. k \in Tokens /\ visits + 1 \in 0 .. MaxVisits
    BY <1>1, <1>3, LinkBoundAssumption DEF MintKeyed, Tokens
  <2>2. Came(h, "find", j, k, visits + 1, l, 0)
    <3>1. "find" \in LinkSteps /\ 0 \in Nat
      BY DEF LinkSteps
    <3>2. handler' = [handler EXCEPT ![h] =
              [pc |-> "find", job |-> j, token |-> k, id |-> visits + 1,
               look |-> l, inline |-> i, hits |-> 0]]
      BY <1>3 DEF MintKeyed
    <3>3. Is(h, "idle")
      BY <1>3 DEF MintKeyed
    <3> QED
      BY <1>1, <2>1, <3>1, <3>2, <3>3, CameMoves
  <2>3. claims' = [claims EXCEPT ![k] = @ \union {j}]
    BY <1>3 DEF MintKeyed
  <2>4. /\ visits' = visits + 1 /\ visits < MaxVisits
        /\ UNCHANGED <<link, object, given, renders, served, revoked, torn, hitches>>
    BY <1>3 DEF MintKeyed
  <2> QED
    BY <2>2, <2>3, <2>4, Zenon DEF Opens
<1> QED
  BY <1>2, <1>3

LEMMA ComeShape ==
    ASSUME LinkTypeInv, NEW h \in Handlers, NEW v \in Tokens, Revoke(h, v) \/ Serve(h, v)
    PROVE  Comes(h)
<1>1. LinkTypeOK /\ visits \in 0 .. MaxVisits
  BY DEF LinkTypeInv, LinkTypeOK
<1>2. Is(h, "idle") /\ link[v] # NoLink
  BY DEF Revoke, Serve
<1>3. /\ link[v].job \in Shared /\ link[v].id \in 0 .. MaxVisits /\ link[v].hits \in Nat
      /\ Missing \in Looks \union {Missing} /\ FALSE \in BOOLEAN /\ 0 \in Nat
      /\ "erase" \in LinkSteps /\ "fetch" \in LinkSteps
  BY <1>1, <1>2, RowFields DEF LinkSteps
<1>4. CASE Revoke(h, v)
  <2> DEFINE e == [IdleHandler EXCEPT !.pc = "erase", !.job = link[v].job, !.token = v,
                                      !.id = link[v].id]
  <2>1. /\ e \in LinkRequest /\ e.pc = "erase" /\ e.job = link[v].job /\ e.token = v
        /\ e.id = link[v].id /\ e.look = Missing /\ e.hits = 0
    BY <1>3, IdleType DEF IdleHandler, LinkRequest
  <2>2. handler' = [handler EXCEPT ![h] = e]
    BY <1>4 DEF Revoke
  <2> HIDE DEF e
  <2>3. Came(h, "erase", link[v].job, v, link[v].id, Missing, 0)
    BY <1>1, <1>2, <2>1, <2>2 DEF Came, Is, LinkTypeOK
  <2>4. UNCHANGED <<Same, visits, hitches>>
    BY <1>4 DEF Revoke, Same
  <2> QED
    BY <1>1, <1>2, <2>3, <2>4 DEF Comes
<1>5. CASE Serve(h, v)
  <2> DEFINE e == [IdleHandler EXCEPT !.pc = "fetch", !.job = link[v].job, !.token = v,
                                      !.id = link[v].id, !.hits = link[v].hits]
  <2>1. /\ e \in LinkRequest /\ e.pc = "fetch" /\ e.job = link[v].job /\ e.token = v
        /\ e.id = link[v].id /\ e.look = Missing /\ e.hits = link[v].hits
    BY <1>3, IdleType DEF IdleHandler, LinkRequest
  <2>2. handler' = [handler EXCEPT ![h] = e]
    BY <1>5 DEF Serve
  <2> HIDE DEF e
  <2>3. Came(h, "fetch", link[v].job, v, link[v].id, Missing, link[v].hits)
    BY <1>1, <1>2, <2>1, <2>2 DEF Came, Is, LinkTypeOK
  <2>4. /\ UNCHANGED <<Same, hitches>> /\ visits' = visits + 1 /\ visits < MaxVisits
        /\ ~link[v].expired
    BY <1>5 DEF Serve, Same
  <2>5. visits' \in 0 .. MaxVisits
    BY <1>1, <2>4, LinkBoundAssumption
  <2> QED
    BY <1>2, <1>3, <2>3, <2>4, <2>5 DEF Comes
<1> QED
  BY <1>4, <1>5

LEMMA MintShape ==
    ASSUME LinkTypeInv, NEW h \in Handlers, MintStep(h)
    PROVE  HandlerStep(h)
<1>1. LinkTypeOK /\ hitches \in 0 .. MaxLinkFaults
  BY DEF LinkTypeInv, LinkTypeOK
<1>2. \A s \in LinkSteps : Go(h, s) => Went(h, s)
  BY <1>1, GoMoves
<1>3. Leave(h) => Left(h)
  BY <1>1, LeaveMoves
<1>4. Find(h) => Reuses(h) \/ Starts(h)
  BY <1>2, <1>3 DEF Find, Answer, Reuses, Starts, Is, TokenOf, Same, LinkSteps
<1>5. Render(h) => Passes(h) \/ Leaves(h)
  BY <1>1, <1>2, <1>3 DEF Render, Passes, Leaves, Is, Same, LinkSteps
<1>6. Upload(h) => Stores(h)
  BY <1>2 DEF Upload, Stores, Is, TokenOf, LinkSteps
<1>7. InsertLink(h) => Inserts(h) \/ Passes(h)
  BY <1>1, <1>2, <1>3 DEF InsertLink, Answer, Inserts, Passes, Is, TokenOf, Same, LinkSteps
<1>8. Refind(h) => Reuses(h) \/ Leaves(h)
  BY <1>1, <1>3 DEF Refind, Answer, Reuses, Leaves, Is, TokenOf, Same
<1> QED
  BY <1>4, <1>5, <1>6, <1>7, <1>8 DEF MintStep, HandlerStep

LEMMA FaultShape ==
    ASSUME LinkTypeInv, NEW h \in Handlers, LinkFault(h)
    PROVE  HandlerStep(h)
<1>1. LinkTypeOK
  BY DEF LinkTypeInv
<1>2. hitches' = hitches + 1 /\ hitches' \in 0 .. MaxLinkFaults
  BY <1>1, HitchType DEF LinkFault, UploadFails, InsertHitch, HandlerDies
<1>3. UploadFails(h) \/ HandlerDies(h) => Leaves(h)
  BY <1>1, <1>2, LeaveMoves DEF UploadFails, HandlerDies, Leaves, Is, Same
<1>4. InsertHitch(h) => Passes(h) \/ Leaves(h)
  <2>1. Go(h, "refind") => Went(h, "refind")
    BY <1>1, GoMoves DEF LinkSteps
  <2> QED
    BY <1>1, <1>2, <2>1, LeaveMoves
       DEF InsertHitch, Passes, Leaves, Is, Same, Keyed, TokenOf
<1> QED
  BY <1>3, <1>4 DEF LinkFault, HandlerStep

LEMMA RowShape ==
    ASSUME LinkTypeInv, NEW h \in Handlers,
           Erase(h) \/ DropRow(h) \/ FetchReport(h) \/ Count(h)
    PROVE  HandlerStep(h)
<1>1. LinkTypeOK /\ hitches \in 0 .. MaxLinkFaults
  BY DEF LinkTypeInv, LinkTypeOK
<1>2. Leave(h) => Left(h)
  BY <1>1, LeaveMoves
<1>3. Erase(h) => Tears(h)
  <2>1. Go(h, "drop") => Went(h, "drop")
    BY <1>1, GoMoves DEF LinkSteps
  <2> QED
    BY <1>1, <2>1, HitchType DEF Erase, Tears, Is
<1>4. DropRow(h) => Drops(h) \/ Leaves(h)
  BY <1>1, <1>2 DEF DropRow, Drops, Leaves, Is, TokenOf, Same
<1>5. FetchReport(h) => Passes(h) \/ Leaves(h)
  <2>1. Go(h, "count") => Went(h, "count")
    BY <1>1, GoMoves DEF LinkSteps
  <2> QED
    BY <1>1, <1>2, <2>1 DEF FetchReport, Passes, Leaves, Is, Same
<1>6. Count(h) => Counts(h) \/ Leaves(h)
  BY <1>1, <1>2 DEF Count, Counts, Leaves, Is, TokenOf, Same
<1> QED
  BY <1>3, <1>4, <1>5, <1>6 DEF HandlerStep

LEMMA LinkShape ==
    ASSUME LinkTypeInv, LinkNext
    PROVE  (\E h \in Handlers : HandlerStep(h)) \/ (\E v \in Tokens : ExpireLink(v))
<1>1. ASSUME NEW h \in Handlers, RequestStep(h)
      PROVE  HandlerStep(h)
  <2>1. ASSUME NEW j \in Shared, NEW l \in Looks,
               \/ Mint(h, j, l)
               \/ \E k \in Keys, i \in BOOLEAN : MintKeyed(h, j, k, l, i)
        PROVE  Opens(h)
    BY <2>1, OpenShape
  <2>2. ASSUME NEW v \in Tokens, Revoke(h, v) \/ Serve(h, v)
        PROVE  Comes(h)
    BY <2>2, ComeShape
  <2> QED
    BY <1>1, <2>1, <2>2 DEF RequestStep, HandlerStep
<1> QED
  BY <1>1, MintShape, FaultShape, RowShape, Zenon DEF LinkNext
-----------------------------------------------------------------------------
(* Type correctness, and ids. *)

\* What a step keeps of a row.
Kept(v) == /\ link[v] # NoLink
           /\ link'[v] # NoLink
           /\ link'[v].id = link[v].id
           /\ link'[v].job = link[v].job
           /\ link'[v].look = link[v].look

LEMMA ExpireMoves ==
    ASSUME LinkTypeInv, NEW v \in Tokens, ExpireLink(v)
    PROVE  /\ link' \in [Tokens -> LinkRow]
           /\ \A u \in Tokens : u # v => link'[u] = link[u]
           /\ Kept(v)
           /\ link'[v].hits = link[v].hits
           /\ link'[v].expired
           /\ UNCHANGED <<object, handler, visits, given, claims, renders, served, revoked,
                          torn, hitches>>
<1> DEFINE e == [link[v] EXCEPT !.expired = TRUE]
<1>1. link[v] \in LinkRow /\ link[v] # NoLink
  BY RowFields DEF LinkTypeInv, ExpireLink
<1>2. /\ e \in LinkRow /\ e.id = link[v].id /\ e.job = link[v].job /\ e.look = link[v].look
      /\ e.hits = link[v].hits /\ e.expired
  BY <1>1 DEF LinkRow
<1>3. link' = [link EXCEPT ![v] = e]
  BY DEF ExpireLink
<1> HIDE DEF e
<1>4. e # NoLink
  BY <1>2 DEF NoLink
<1> QED
  BY <1>1, <1>2, <1>3, <1>4 DEF LinkTypeInv, LinkTypeOK, Kept, ExpireLink

LEMMA CountMoves ==
    ASSUME LinkTypeInv, NEW h \in Handlers, Counts(h)
    PROVE  /\ handler[h].token \in Tokens
           /\ link' \in [Tokens -> LinkRow]
           /\ \A u \in Tokens : u # handler[h].token => link'[u] = link[u]
           /\ Kept(handler[h].token)
           /\ link'[handler[h].token].hits = handler[h].hits + 1
           /\ link'[handler[h].token].expired = link[handler[h].token].expired
           /\ served' \in [Tokens -> Nat]
           /\ \A u \in Tokens : u # handler[h].token => served'[u] = served[u]
           /\ served'[handler[h].token] = served[handler[h].token] + 1
<1> DEFINE v == handler[h].token
           e == [link[v] EXCEPT !.hits = handler[h].hits + 1]
<1>1. v \in Tokens /\ handler[h].id \in 1 .. visits /\ handler[h].hits \in Nat
  BY HandlerFields DEF LinkTypeInv, Books, Counts
<1>2. link[v].id = handler[h].id /\ link' = [link EXCEPT ![v] = e]
  BY DEF Counts
<1>3. link[v] \in LinkRow
  BY <1>1, RowFields DEF LinkTypeInv
<1>4. link[v] # NoLink
  BY <1>1, <1>2, NoLinkType DEF LinkTypeInv, LinkTypeOK
<1>5. /\ e \in LinkRow /\ e.id = link[v].id /\ e.job = link[v].job /\ e.look = link[v].look
      /\ e.hits = handler[h].hits + 1 /\ e.expired = link[v].expired
  BY <1>1, <1>3 DEF LinkRow
<1>6. served' = [served EXCEPT ![v] = served[v] + 1] /\ served \in [Tokens -> Nat]
  BY DEF Counts, LinkTypeInv, LinkTypeOK
<1>7. e # NoLink
  <2>1. e.hits > 0
    BY <1>1, <1>5
  <2> HIDE DEF e
  <2> QED
    BY <2>1 DEF NoLink
<1> HIDE DEF e, v
<1>8. /\ link' \in [Tokens -> LinkRow]
      /\ \A u \in Tokens : u # v => link'[u] = link[u]
      /\ link'[v] = e
  BY <1>1, <1>2, <1>5 DEF LinkTypeInv, LinkTypeOK
<1>9. /\ served' \in [Tokens -> Nat]
      /\ \A u \in Tokens : u # v => served'[u] = served[u]
      /\ served'[v] = served[v] + 1
  BY <1>1, <1>6
<1> QED
  BY <1>1, <1>4, <1>5, <1>7, <1>8, <1>9 DEF Kept, v

LEMMA InsertMoves ==
    ASSUME LinkTypeInv, NEW h \in Handlers, Inserts(h)
    PROVE  /\ handler[h].token \in Tokens /\ handler[h].job \in Shared
           /\ link' \in [Tokens -> LinkRow]
           /\ \A u \in Tokens : u # handler[h].token => link'[u] = link[u]
           /\ link'[handler[h].token] # NoLink
           /\ link'[handler[h].token].id = handler[h].id
           /\ link'[handler[h].token].job = handler[h].job
           /\ link'[handler[h].token].look = handler[h].look
           /\ ~link'[handler[h].token].expired
           /\ link'[handler[h].token].hits = 0
           /\ handler[h].look \in Looks
<1> DEFINE v == handler[h].token
           e == [id |-> handler[h].id, job |-> handler[h].job, look |-> handler[h].look,
                 expired |-> FALSE, hits |-> 0]
<1>1. v \in Tokens /\ handler[h].job \in Shared /\ handler[h].look \in Looks
  BY DEF LinkTypeInv, Books, Inserts, Minting
<1>2. handler[h].id \in 0 .. MaxVisits
  BY HandlerFields DEF LinkTypeInv
<1>3. e \in LinkRow
  BY <1>1, <1>2 DEF LinkRow
<1>4. e.job # NoShared
  BY <1>1, LinkSetsAssumption
<1>5. link' = [link EXCEPT ![v] = e]
  BY DEF Inserts
<1>6. e # NoLink
  BY <1>4 DEF NoLink
<1>7. /\ e.id = handler[h].id /\ e.job = handler[h].job /\ e.look = handler[h].look
      /\ ~e.expired /\ e.hits = 0
  OBVIOUS
<1> HIDE DEF e, v
<1>8. /\ link' \in [Tokens -> LinkRow]
      /\ \A u \in Tokens : u # v => link'[u] = link[u]
      /\ link'[v] = e
  BY <1>1, <1>3, <1>5 DEF LinkTypeInv, LinkTypeOK
<1> QED
  BY <1>1, <1>6, <1>7, <1>8 DEF v

LEMMA DropMoves ==
    ASSUME LinkTypeInv, NEW h \in Handlers, Drops(h)
    PROVE  /\ handler[h].token \in Tokens
           /\ link' \in [Tokens -> LinkRow]
           /\ \A u \in Tokens : u # handler[h].token => link'[u] = link[u]
           /\ link'[handler[h].token] = NoLink
<1>1. handler[h].token \in Tokens
  BY DEF LinkTypeInv, Books, Drops
<1> QED
  BY <1>1, NoLinkType DEF LinkTypeInv, LinkTypeOK, Drops

\* A request goes on or ends, or a row gets older, or goes.
LEMMA BooksKept ==
    ASSUME LinkTypeInv, visits' = visits, claims' = claims,
           \/ handler' = handler
           \/ \E h \in Handlers : Left(h)
           \/ \E h \in Handlers, s \in LinkSteps :
                 /\ handler[h].pc # "idle"
                 /\ Went(h, s)
                 /\ s \in Minting => handler[h].pc \in Minting
                 /\ s \in {"find", "refind"} => handler[h].token \in Keys,
           \A v \in Tokens : link'[v] = link[v] \/ link'[v] = NoLink \/ Kept(v)
    PROVE  Books'
<1> DEFINE GoesOn(g) ==
        /\ handler[g].pc # "idle"
        /\ handler'[g].job = handler[g].job
        /\ handler'[g].token = handler[g].token
        /\ handler'[g].id = handler[g].id
        /\ handler'[g].look = handler[g].look
        /\ handler'[g].pc \in Minting => handler[g].pc \in Minting
        /\ handler'[g].pc \in {"find", "refind"} => handler[g].token \in Keys
<1>1. \A g \in Handlers : handler'[g].pc # "idle" => GoesOn(g)
  <2>1. CASE handler' = handler
    BY <2>1 DEF LinkTypeInv, Books
  <2>2. ASSUME NEW h \in Handlers, Left(h)
        PROVE  \A g \in Handlers : handler'[g].pc # "idle" => GoesOn(g)
    BY <2>2 DEF LinkTypeInv, Books, Left, IdleHandler
  <2>3. ASSUME NEW h \in Handlers, NEW s \in LinkSteps,
               handler[h].pc # "idle", Went(h, s),
               s \in Minting => handler[h].pc \in Minting,
               s \in {"find", "refind"} => handler[h].token \in Keys
        PROVE  \A g \in Handlers : handler'[g].pc # "idle" => GoesOn(g)
    BY <2>3 DEF LinkTypeInv, Books, Went
  <2> QED
    BY <2>1, <2>2, <2>3
<1>2. "idle" \notin Minting
  BY DEF Minting
<1>3. \A v \in Tokens : link'[v] # NoLink =>
          /\ link[v] # NoLink
          /\ link'[v].id = link[v].id
          /\ link'[v].job = link[v].job
  BY DEF Kept
<1>4. \A v \in Tokens : link'[v].id = link[v].id \/ link'[v].id = 0
  BY NoLinkType DEF Kept
<1>5. \A g \in Handlers : handler'[g].pc \in Minting =>
          /\ \A v \in Tokens : link'[v].id # handler'[g].id
          /\ \A f \in Handlers \ {g} : handler'[f].pc # "idle" => handler'[f].id # handler'[g].id
  <2>1. visits \in Nat
    BY DEF LinkTypeInv, LinkTypeOK
  <2> SUFFICES ASSUME NEW g \in Handlers, handler'[g].pc \in Minting
               PROVE  /\ \A v \in Tokens : link'[v].id # handler'[g].id
                      /\ \A f \in Handlers \ {g} :
                            handler'[f].pc # "idle" => handler'[f].id # handler'[g].id
    OBVIOUS
  <2>2. handler[g].pc \in Minting /\ handler'[g].id = handler[g].id /\ handler[g].pc # "idle"
    BY <1>1, <1>2
  <2>3. handler[g].id \in 1 .. visits
    BY <2>2 DEF LinkTypeInv, Books
  <2>4. \A v \in Tokens : link'[v].id # handler'[g].id
    BY <1>4, <2>1, <2>2, <2>3 DEF LinkTypeInv, Books
  <2>5. \A f \in Handlers \ {g} : handler'[f].pc # "idle" => handler'[f].id # handler'[g].id
    BY <1>1, <2>2 DEF LinkTypeInv, Books
  <2> QED
    BY <2>4, <2>5
<1>6. \A g \in Handlers : handler'[g].pc # "idle" =>
          /\ handler'[g].job \in Shared
          /\ handler'[g].token \in Tokens
          /\ handler'[g].id \in 1 .. visits'
  BY <1>1 DEF LinkTypeInv, Books
<1>7. \A g \in Handlers : handler'[g].pc \in Minting =>
          /\ handler'[g].look \in Looks
          /\ handler'[g].token \in Keys => handler'[g].job \in claims'[handler'[g].token]
          /\ handler'[g].token \notin Keys => handler'[g].token = handler'[g].id
  BY <1>1, <1>2 DEF LinkTypeInv, Books
<1>8. \A g \in Handlers : handler'[g].pc \in {"find", "refind"} => handler'[g].token \in Keys
  BY <1>1
<1>9. \A v \in Tokens : link'[v] # NoLink =>
          /\ link'[v].id \in 1 .. visits'
          /\ v \in Keys => link'[v].job \in claims'[v]
          /\ v \notin Keys => link'[v].id = v
  BY <1>3 DEF LinkTypeInv, Books
<1> QED
  BY <1>5, <1>6, <1>7, <1>8, <1>9 DEF Books

LEMMA BooksInsert ==
    ASSUME LinkTypeInv, NEW h \in Handlers, Inserts(h)
    PROVE  Books'
<1> DEFINE n == handler[h].token
<1>1. /\ handler[h].pc \in Minting
      /\ \A g \in Handlers \ {h} : handler'[g] = handler[g]
      /\ handler'[h].pc = "idle"
      /\ visits' = visits /\ claims' = claims
  BY DEF Inserts, Left, IdleHandler, Minting
<1>2. /\ n \in Tokens
      /\ \A v \in Tokens : v # n => link'[v] = link[v]
      /\ link'[n].id = handler[h].id /\ link'[n].job = handler[h].job
  BY InsertMoves
<1>3. "idle" \notin Minting
  BY DEF Minting
<1>4. /\ handler[h].id \in 1 .. visits
      /\ n \in Keys => handler[h].job \in claims[n]
      /\ n \notin Keys => handler[h].id = n
  BY <1>1, <1>3 DEF LinkTypeInv, Books
<1>5. \A g \in Handlers \ {h} : handler[g].pc \in Minting => handler[g].id # handler[h].id
  BY <1>1, <1>3 DEF LinkTypeInv, Books
<1> HIDE DEF n
<1>6. \A g \in Handlers : handler'[g].pc # "idle" =>
          /\ handler'[g].job \in Shared
          /\ handler'[g].token \in Tokens
          /\ handler'[g].id \in 1 .. visits'
  BY <1>1 DEF LinkTypeInv, Books
<1>7. \A g \in Handlers : handler'[g].pc \in Minting =>
          /\ handler'[g].look \in Looks
          /\ handler'[g].token \in Keys => handler'[g].job \in claims'[handler'[g].token]
          /\ handler'[g].token \notin Keys => handler'[g].token = handler'[g].id
  BY <1>1, <1>3 DEF LinkTypeInv, Books
<1>8. \A g \in Handlers : handler'[g].pc \in {"find", "refind"} => handler'[g].token \in Keys
  BY <1>1 DEF LinkTypeInv, Books
<1>9. \A v \in Tokens : link'[v] # NoLink =>
          /\ link'[v].id \in 1 .. visits'
          /\ v \in Keys => link'[v].job \in claims'[v]
          /\ v \notin Keys => link'[v].id = v
  BY <1>1, <1>2, <1>4 DEF LinkTypeInv, Books
<1>10. \A g \in Handlers : handler'[g].pc \in Minting =>
          /\ \A v \in Tokens : link'[v].id # handler'[g].id
          /\ \A f \in Handlers \ {g} : handler'[f].pc # "idle" => handler'[f].id # handler'[g].id
  BY <1>1, <1>2, <1>3, <1>5 DEF LinkTypeInv, Books
<1> QED
  BY <1>6, <1>7, <1>8, <1>9, <1>10 DEF Books

LEMMA BooksCome ==
    ASSUME LinkTypeInv, NEW h \in Handlers, Comes(h)
    PROVE  Books'
<1>1. PICK v \in Tokens, s \in {"erase", "fetch"}, c \in Nat :
          link[v] # NoLink /\ Came(h, s, link[v].job, v, link[v].id, Missing, c)
  BY DEF Comes
<1>2. link' = link /\ claims' = claims /\ visits' \in {visits, visits + 1} /\ visits \in Nat
  BY DEF Comes, Same, LinkTypeInv, LinkTypeOK
<1>3. /\ \A g \in Handlers \ {h} : handler'[g] = handler[g]
      /\ handler'[h].pc \notin Minting /\ handler[h].pc = "idle"
      /\ handler'[h].job = link[v].job /\ handler'[h].token = v
      /\ handler'[h].id = link[v].id
  BY <1>1 DEF Came, Minting
<1>4. link[v].job \in Shared /\ link[v].id \in 1 .. visits
  BY <1>1, RowFields DEF LinkTypeInv, Books
<1>5. 1 .. visits \subseteq 1 .. visits'
  BY <1>2
<1>6. \A g \in Handlers : handler'[g].pc # "idle" =>
          /\ handler'[g].job \in Shared
          /\ handler'[g].token \in Tokens
          /\ handler'[g].id \in 1 .. visits'
  BY <1>3, <1>4, <1>5 DEF LinkTypeInv, Books
<1>7. \A g \in Handlers : handler'[g].pc \in Minting =>
          /\ handler'[g].look \in Looks
          /\ handler'[g].token \in Keys => handler'[g].job \in claims'[handler'[g].token]
          /\ handler'[g].token \notin Keys => handler'[g].token = handler'[g].id
  BY <1>2, <1>3 DEF LinkTypeInv, Books
<1>8. \A g \in Handlers : handler'[g].pc \in {"find", "refind"} => handler'[g].token \in Keys
  BY <1>3 DEF LinkTypeInv, Books, Minting
<1>9. \A u \in Tokens : link'[u] # NoLink =>
          /\ link'[u].id \in 1 .. visits'
          /\ u \in Keys => link'[u].job \in claims'[u]
          /\ u \notin Keys => link'[u].id = u
  BY <1>2, <1>5 DEF LinkTypeInv, Books
<1>10. \A g \in Handlers : handler'[g].pc \in Minting =>
          /\ \A u \in Tokens : link'[u].id # handler'[g].id
          /\ \A f \in Handlers \ {g} : handler'[f].pc # "idle" => handler'[f].id # handler'[g].id
  <2> SUFFICES ASSUME NEW g \in Handlers, handler'[g].pc \in Minting
               PROVE  /\ \A u \in Tokens : link'[u].id # handler'[g].id
                      /\ \A f \in Handlers \ {g} :
                            handler'[f].pc # "idle" => handler'[f].id # handler'[g].id
    OBVIOUS
  <2>1. g # h /\ handler'[g] = handler[g]
    BY <1>3
  <2>2. \A u \in Tokens : link'[u].id # handler[g].id
    BY <1>2, <2>1 DEF LinkTypeInv, Books
  <2>3. \A f \in Handlers \ {g} : handler'[f].pc # "idle" => handler'[f].id # handler[g].id
    BY <1>2, <1>3, <2>1, <2>2 DEF LinkTypeInv, Books
  <2> QED
    BY <2>1, <2>2, <2>3
<1> QED
  BY <1>6, <1>7, <1>8, <1>9, <1>10 DEF Books

LEMMA BooksOpen ==
    ASSUME LinkTypeInv, NEW h \in Handlers, Opens(h)
    PROVE  Books'
<1>1. link' = link /\ visits' = visits + 1 /\ visits \in Nat
  BY DEF Opens, LinkTypeInv, LinkTypeOK
<1>2. /\ \A g \in Handlers \ {h} : handler'[g] = handler[g]
      /\ handler[h].pc = "idle"
      /\ handler'[h].job \in Shared /\ handler'[h].look \in Looks
      /\ handler'[h].id = visits + 1
  BY DEF Opens, Came
<1>3. \A k \in Keys : claims[k] \subseteq claims'[k]
  BY DEF Opens, LinkTypeInv, LinkTypeOK
<1> DEFINE Named == /\ handler'[h].token \in Tokens
                    /\ handler'[h].token \in Keys => handler'[h].job \in claims'[handler'[h].token]
                    /\ handler'[h].token \notin Keys => handler'[h].token = handler'[h].id
                    /\ handler'[h].pc \in {"find", "refind"} => handler'[h].token \in Keys
<1>4. Named
  <2>1. PICK j \in Shared, l \in Looks :
            \/ /\ Came(h, "render", j, visits + 1, visits + 1, l, 0)
               /\ claims' = claims
            \/ \E k \in Keys :
                  /\ Came(h, "find", j, k, visits + 1, l, 0)
                  /\ claims' = [claims EXCEPT ![k] = @ \union {j}]
    BY DEF Opens
  <2>2. CASE Came(h, "render", j, visits + 1, visits + 1, l, 0)
    <3>1. visits + 1 \in Nat /\ visits + 1 \notin Keys
      BY <1>1, LinkSetsAssumption
    <3>2. visits + 1 \in Tokens
      BY <1>1, LinkBoundAssumption DEF Opens, Tokens
    <3> QED
      BY <2>2, <3>1, <3>2 DEF Came
  <2>3. ASSUME NEW k \in Keys,
               Came(h, "find", j, k, visits + 1, l, 0),
               claims' = [claims EXCEPT ![k] = @ \union {j}]
        PROVE  Named
    BY <2>3 DEF Came, Tokens, LinkTypeInv, LinkTypeOK
  <2> QED
    BY <2>1, <2>2, <2>3
<1>5. 1 .. visits \subseteq 1 .. visits' /\ visits + 1 \in 1 .. visits' /\ visits + 1 \notin 1 .. visits
  BY <1>1
<1>6. \A g \in Handlers : handler'[g].pc # "idle" =>
          /\ handler'[g].job \in Shared
          /\ handler'[g].token \in Tokens
          /\ handler'[g].id \in 1 .. visits'
  BY <1>2, <1>4, <1>5 DEF LinkTypeInv, Books
<1>7. \A g \in Handlers : handler'[g].pc \in Minting =>
          /\ handler'[g].look \in Looks
          /\ handler'[g].token \in Keys => handler'[g].job \in claims'[handler'[g].token]
          /\ handler'[g].token \notin Keys => handler'[g].token = handler'[g].id
  BY <1>2, <1>3, <1>4 DEF LinkTypeInv, Books
<1>8. \A g \in Handlers : handler'[g].pc \in {"find", "refind"} => handler'[g].token \in Keys
  BY <1>2, <1>4 DEF LinkTypeInv, Books
<1>9. \A u \in Tokens : link'[u] # NoLink =>
          /\ link'[u].id \in 1 .. visits'
          /\ u \in Keys => link'[u].job \in claims'[u]
          /\ u \notin Keys => link'[u].id = u
  BY <1>1, <1>3, <1>5 DEF LinkTypeInv, Books
<1>10. \A u \in Tokens : link'[u].id # visits + 1
  BY <1>1, <1>5, NoLinkType DEF LinkTypeInv, Books
<1>11. \A g \in Handlers \ {h} : handler'[g].pc # "idle" => handler'[g].id # visits + 1
  BY <1>2, <1>5 DEF LinkTypeInv, Books
<1>12. \A g \in Handlers : handler'[g].pc \in Minting =>
          /\ \A u \in Tokens : link'[u].id # handler'[g].id
          /\ \A f \in Handlers \ {g} : handler'[f].pc # "idle" => handler'[f].id # handler'[g].id
  BY <1>1, <1>2, <1>10, <1>11 DEF LinkTypeInv, Books, Minting
<1> QED
  BY <1>6, <1>7, <1>8, <1>9, <1>12 DEF Books

LEMMA BooksStep ==
    ASSUME LinkTypeInv, NEW h \in Handlers, HandlerStep(h)
    PROVE  Books'
<1>1. CASE Opens(h)
  BY <1>1, BooksOpen
<1>2. CASE Comes(h)
  BY <1>2, BooksCome
<1>3. CASE Inserts(h)
  BY <1>3, BooksInsert
<1>4. CASE Reuses(h) \/ Leaves(h)
  BY <1>4, BooksKept DEF Reuses, Leaves, Same
<1>5. CASE Starts(h) \/ Passes(h) \/ Stores(h) \/ Tears(h)
  <2>1. visits' = visits /\ claims' = claims /\ link' = link
    BY <1>5 DEF Starts, Passes, Stores, Tears, Same
  <2>2. PICK s \in LinkSteps : /\ Went(h, s)
                               /\ handler[h].pc # "idle"
                               /\ s \in Minting => handler[h].pc \in Minting
                               /\ s \in {"find", "refind"} => handler[h].pc = "insert" /\ s = "refind"
    BY <1>5 DEF Starts, Passes, Stores, Tears, LinkSteps, Minting
  <2>3. s = "refind" => handler[h].token \in Keys
    <3>1. ASSUME s = "refind"
          PROVE  handler[h].token \in Keys
      <4>1. handler[h].pc = "insert" /\ handler'[h].pc = "refind"
        BY <2>2, <3>1 DEF Went
      <4>2. \/ link[handler[h].token] # NoLink
            \/ handler[h].token \in Keys
        BY <1>5, <4>1 DEF Starts, Passes, Stores, Tears, Went
      <4>3. ASSUME handler[h].token \notin Keys, link[handler[h].token] # NoLink
            PROVE  FALSE
        <5>1. /\ handler[h].token \in Tokens /\ handler[h].token = handler[h].id
              /\ link[handler[h].token].id # handler[h].id
          BY <4>1, <4>3 DEF LinkTypeInv, Books, Minting
        <5> QED
          BY <4>3, <5>1 DEF LinkTypeInv, Books
      <4> QED
        BY <4>2, <4>3
    <3> QED
      BY <3>1
  <2> QED
    BY <2>1, <2>2, <2>3, BooksKept
<1>6. CASE Drops(h)
  BY <1>6, DropMoves, BooksKept DEF Drops
<1>7. CASE Counts(h)
  BY <1>7, CountMoves, BooksKept DEF Counts
<1> QED
  BY <1>1, <1>2, <1>3, <1>4, <1>5, <1>6, <1>7 DEF HandlerStep

LEMMA LinkTypeStep ==
    ASSUME LinkTypeInv, NEW h \in Handlers, HandlerStep(h)
    PROVE  LinkTypeOK'
<1> USE DEF LinkTypeInv
<1>1. handler[h].pc # "idle" => handler[h].job \in Shared /\ handler[h].token \in Tokens
  BY DEF Books
<1>2. handler[h].pc \in Minting => handler[h].look \in Looks
  BY DEF Books
<1>3. CASE Opens(h)
  <2>1. handler' \in [Handlers -> LinkRequest]
    BY <1>3 DEF Opens, Came
  <2>2. visits' \in 0 .. MaxVisits
    BY <1>3, LinkBoundAssumption DEF Opens, LinkTypeOK
  <2>3. claims' \in [Keys -> SUBSET Shared]
    BY <1>3 DEF Opens, LinkTypeOK
  <2> QED
    BY <1>3, <2>1, <2>2, <2>3 DEF Opens, LinkTypeOK
<1>4. CASE Reuses(h)
  <2>1. given' \subseteq Shared \X Tokens
    BY <1>1, <1>4 DEF Reuses, LinkTypeOK
  <2> QED
    BY <1>4, <2>1 DEF Reuses, Left, LinkTypeOK
<1>5. CASE Starts(h) \/ Passes(h) \/ Leaves(h)
  <2>1. handler' \in [Handlers -> LinkRequest] /\ hitches' \in 0 .. MaxLinkFaults
    BY <1>5 DEF Starts, Passes, Leaves, Went, Left, LinkTypeOK
  <2> QED
    BY <1>5, <2>1 DEF Starts, Passes, Leaves, Same, LinkTypeOK
<1>6. CASE Stores(h)
  <2>1. handler[h].look \in Looks /\ handler[h].job \in Shared /\ handler[h].token \in Tokens
    BY <1>1, <1>2, <1>6 DEF Stores, Minting
  <2>2. object' \in [Shared -> Looks \union {Missing}] /\ renders' \in [Tokens -> Nat]
    BY <1>6, <2>1 DEF Stores, LinkTypeOK
  <2> QED
    BY <1>6, <2>2 DEF Stores, Went, LinkTypeOK
<1>7. CASE Inserts(h)
  <2>1. \A v \in Tokens : link'[v] # NoLink => link'[v].job \in Shared /\ link'[v].look \in Looks
    BY <1>7, InsertMoves, RowFields
  <2>2. given' \subseteq Shared \X Tokens
    <3>1. handler[h].job \in Shared /\ handler[h].token \in Tokens
      BY <1>7, InsertMoves
    <3>2. given' = given \union {<<handler[h].job, handler[h].token>>}
      BY <1>7 DEF Inserts
    <3>3. given \subseteq Shared \X Tokens
      BY DEF LinkTypeOK
    <3> QED
      BY <3>1, <3>2, <3>3
  <2>3. served' \in [Tokens -> Nat]
    BY <1>7 DEF Inserts, LinkTypeOK
  <2>4. link' \in [Tokens -> LinkRow]
    BY <1>7, InsertMoves
  <2> QED
    BY <1>7, <2>1, <2>2, <2>3, <2>4 DEF Inserts, Left, LinkTypeOK
<1>8. CASE Comes(h)
  <2>1. handler' \in [Handlers -> LinkRequest]
    BY <1>8 DEF Comes, Came
  <2> QED
    BY <1>8, <2>1 DEF Comes, Same, LinkTypeOK
<1>9. CASE Tears(h)
  <2>1. handler[h].job \in Shared
    BY <1>1, <1>9 DEF Tears
  <2>2. object' \in [Shared -> Looks \union {Missing}] /\ torn' \subseteq Shared
    BY <1>9, <2>1 DEF Tears, LinkTypeOK
  <2> QED
    BY <1>9, <2>2 DEF Tears, Went, LinkTypeOK
<1>10. CASE Drops(h)
  <2>1. \A v \in Tokens : link'[v] # NoLink => link'[v].job \in Shared /\ link'[v].look \in Looks
    BY <1>10, DropMoves, RowFields
  <2>2. link' \in [Tokens -> LinkRow] /\ handler[h].token \in Tokens
    BY <1>10, DropMoves
  <2>3. revoked' \subseteq Tokens
    BY <1>10, <2>2 DEF Drops, LinkTypeOK
  <2> QED
    BY <1>10, <2>1, <2>2, <2>3 DEF Drops, Left, LinkTypeOK
<1>11. CASE Counts(h)
  <2>1. \A v \in Tokens : link'[v] # NoLink => link'[v].job \in Shared /\ link'[v].look \in Looks
    BY <1>11, CountMoves, RowFields DEF Kept
  <2>2. link' \in [Tokens -> LinkRow] /\ served' \in [Tokens -> Nat]
    BY <1>11, CountMoves
  <2> QED
    BY <1>11, <2>1, <2>2 DEF Counts, Left, LinkTypeOK
<1> QED
  BY <1>3, <1>4, <1>5, <1>6, <1>7, <1>8, <1>9, <1>10, <1>11 DEF HandlerStep

\* The rows, objects, requests and records have their types, and no two mints share an id.
THEOREM LinkTypeCorrect == LinkSpec => []LinkTypeInv
<1>1. LinkInit => LinkTypeInv
  <2> SUFFICES ASSUME LinkInit PROVE LinkTypeInv
    OBVIOUS
  <2>1. IdleHandler.pc = "idle"
    BY DEF IdleHandler
  <2>2. LinkTypeOK
    BY NoLinkType, IdleType, LinkBoundAssumption DEF LinkInit, LinkTypeOK
  <2>3. Books
    BY <2>1 DEF LinkInit, Books, Minting
  <2> QED
    BY <2>2, <2>3 DEF LinkTypeInv
<1>2. LinkTypeInv /\ [LinkNext]_linkVars => LinkTypeInv'
  <2> SUFFICES ASSUME LinkTypeInv, [LinkNext]_linkVars
               PROVE  LinkTypeInv'
    OBVIOUS
  <2>1. CASE UNCHANGED linkVars
    BY <2>1 DEF LinkTypeInv, LinkTypeOK, Books, linkVars
  <2>2. ASSUME NEW h \in Handlers, HandlerStep(h)
        PROVE  LinkTypeInv'
    BY <2>2, BooksStep, LinkTypeStep DEF LinkTypeInv
  <2>3. ASSUME NEW v \in Tokens, ExpireLink(v)
        PROVE  LinkTypeInv'
    <3>1. \A u \in Tokens :
              link'[u] # NoLink => link'[u].job \in Shared /\ link'[u].look \in Looks
      BY <2>3, ExpireMoves, RowFields DEF LinkTypeInv, Kept
    <3>2. LinkTypeOK'
      BY <2>3, <3>1, ExpireMoves DEF LinkTypeInv, LinkTypeOK
    <3>3. Books'
      BY <2>3, ExpireMoves, BooksKept
    <3> QED
      BY <3>2, <3>3 DEF LinkTypeInv
  <2> QED
    BY <2>1, <2>2, <2>3, LinkShape
<1> QED
  BY <1>1, <1>2, PTL DEF LinkSpec
-----------------------------------------------------------------------------
(* What a client was answered with. *)

\* A link that was given out is there; one without a key shows the job it was minted for.
Promises ==
    \A j \in Shared, v \in Tokens :
        <<j, v>> \in given /\ v \notin revoked
            => link[v] # NoLink /\ (v \notin Keys => link[v].job = j)

LEMMA PromisesStep ==
    ASSUME LinkTypeInv, Promises, NEW h \in Handlers, HandlerStep(h)
    PROVE  Promises'
<1>1. CASE Opens(h) \/ Starts(h) \/ Passes(h) \/ Leaves(h) \/ Stores(h) \/ Comes(h) \/ Tears(h)
  BY <1>1 DEF Opens, Starts, Passes, Leaves, Stores, Comes, Tears, Same, Promises
<1>2. CASE Reuses(h)
  <2>1. handler[h].token \in Keys
    BY <1>2 DEF Reuses, LinkTypeInv, Books
  <2> QED
    BY <1>2, <2>1 DEF Reuses, Promises
<1>3. CASE Inserts(h)
  <2>1. given' = given \union {<<handler[h].job, handler[h].token>>} /\ revoked' = revoked
    BY <1>3 DEF Inserts
  <2>2. link[handler[h].token] = NoLink
    BY <1>3 DEF Inserts
  <2> QED
    BY <1>3, <2>1, <2>2, InsertMoves DEF Promises
<1>4. CASE Drops(h)
  BY <1>4, DropMoves DEF Drops, Promises
<1>5. CASE Counts(h)
  <2>1. given' = given /\ revoked' = revoked
    BY <1>5 DEF Counts
  <2> QED
    BY <1>5, <2>1, CountMoves DEF Promises, Kept
<1> QED
  BY <1>1, <1>2, <1>3, <1>4, <1>5 DEF HandlerStep

\* generate_and_store: whatever mints race for a token, and whatever fails, a client that
\* was answered has a link, to the report of the job it asked for unless its key was sent
\* for another job as well.
THEOREM AnsweredLinkAlwaysExists == LinkSpec => []AnsweredLinkExists
<1>1. LinkInit => Promises
  BY DEF LinkInit, Promises
<1>2. LinkTypeInv /\ Promises /\ [LinkNext]_linkVars => Promises'
  <2> SUFFICES ASSUME LinkTypeInv, Promises, [LinkNext]_linkVars
               PROVE  Promises'
    OBVIOUS
  <2>1. CASE UNCHANGED linkVars
    BY <2>1 DEF Promises, linkVars
  <2>2. ASSUME NEW v \in Tokens, ExpireLink(v)
        PROVE  Promises'
    BY <2>2, ExpireMoves DEF Promises, Kept
  <2> QED
    BY <2>1, <2>2, PromisesStep, LinkShape
<1>3. LinkTypeInv /\ Promises => AnsweredLinkExists
  <2> SUFFICES ASSUME LinkTypeInv, Promises, NEW j \in Shared, NEW v \in Tokens,
                      <<j, v>> \in given, v \notin revoked
               PROVE  link[v] # NoLink /\ (link[v].job = j \/ (v \in Keys /\ claims[v] # {j}))
    BY DEF AnsweredLinkExists
  <2>1. link[v] # NoLink /\ (v \notin Keys => link[v].job = j)
    BY DEF Promises
  <2>2. v \in Keys => link[v].job \in claims[v]
    BY <2>1 DEF LinkTypeInv, Books
  <2> QED
    BY <2>1, <2>2
<1> QED
  BY <1>1, <1>2, <1>3, LinkTypeCorrect, PTL DEF LinkSpec
-----------------------------------------------------------------------------
(* What a link has to show. *)

\* The object is there when a row is about to be inserted, and as long as there is one.
Shows == /\ LinkHasReport
         /\ \A h \in Handlers : handler[h].pc = "insert" =>
               object[handler[h].job] # Missing \/ handler[h].job \in torn

LEMMA ShowsStep ==
    ASSUME LinkTypeInv, Shows, NEW h \in Handlers, HandlerStep(h)
    PROVE  Shows'
<1> USE DEF Shows, LinkHasReport
<1>1. CASE Opens(h) \/ Comes(h)
  <2>1. /\ link' = link /\ object' = object /\ torn' = torn
        /\ \A g \in Handlers \ {h} : handler'[g] = handler[g]
        /\ handler'[h].pc # "insert"
    BY <1>1 DEF Opens, Comes, Came, Same
  <2> QED
    BY <2>1
<1>2. CASE Starts(h) \/ Passes(h)
  <2>1. /\ link' = link /\ object' = object /\ torn' = torn
        /\ \A g \in Handlers \ {h} : handler'[g] = handler[g]
        /\ handler'[h].pc # "insert"
    BY <1>2 DEF Starts, Passes, Went, Same
  <2> QED
    BY <2>1
<1>3. CASE Reuses(h) \/ Leaves(h)
  <2>1. /\ link' = link /\ object' = object /\ torn' = torn
        /\ \A g \in Handlers \ {h} : handler'[g] = handler[g]
        /\ handler'[h].pc # "insert"
    BY <1>3 DEF Reuses, Leaves, Left, IdleHandler, Same
  <2> QED
    BY <2>1
<1>4. CASE Stores(h)
  <2>1. handler[h].look # Missing /\ handler[h].job \in Shared
    BY <1>4, LinkSetsAssumption DEF Stores, LinkTypeInv, Books, Minting
  <2>2. /\ link' = link /\ torn' = torn
        /\ \A g \in Handlers \ {h} : handler'[g] = handler[g]
        /\ handler'[h].job = handler[h].job
        /\ object'[handler[h].job] = handler[h].look
        /\ \A j \in Shared : j # handler[h].job => object'[j] = object[j]
    BY <1>4, <2>1 DEF Stores, Went, LinkTypeInv, LinkTypeOK
  <2>3. \A j \in Shared : object[j] # Missing => object'[j] # Missing
    BY <2>1, <2>2
  <2>4. \A g \in Handlers : handler[g].pc = "insert" => handler[g].job \in Shared
    BY DEF LinkTypeInv, Books
  <2>5. \A v \in Tokens : link[v] # NoLink => link[v].job \in Shared
    BY RowFields DEF LinkTypeInv
  <2> QED
    BY <2>1, <2>2, <2>3, <2>4, <2>5
<1>5. CASE Inserts(h)
  <2>1. /\ object' = object /\ torn' = torn
        /\ \A g \in Handlers \ {h} : handler'[g] = handler[g]
        /\ handler'[h].pc # "insert"
        /\ handler[h].pc = "insert"
    BY <1>5 DEF Inserts, Left, IdleHandler
  <2> QED
    BY <1>5, <2>1, InsertMoves
<1>6. CASE Tears(h)
  <2>1. /\ link' = link
        /\ \A g \in Handlers \ {h} : handler'[g] = handler[g]
        /\ handler'[h].pc # "insert"
    BY <1>6 DEF Tears, Went
  <2>2. \A j \in Shared : (object[j] # Missing \/ j \in torn) => (object'[j] # Missing \/ j \in torn')
    BY <1>6 DEF Tears, LinkTypeInv, LinkTypeOK
  <2>3. \A g \in Handlers : handler[g].pc = "insert" => handler[g].job \in Shared
    BY DEF LinkTypeInv, Books
  <2>4. \A v \in Tokens : link[v] # NoLink => link[v].job \in Shared
    BY RowFields DEF LinkTypeInv
  <2> QED
    BY <2>1, <2>2, <2>3, <2>4
<1>7. CASE Drops(h)
  <2>1. /\ object' = object /\ torn' = torn
        /\ \A g \in Handlers \ {h} : handler'[g] = handler[g]
        /\ handler'[h].pc # "insert"
    BY <1>7 DEF Drops, Left, IdleHandler
  <2> QED
    BY <1>7, <2>1, DropMoves
<1>8. CASE Counts(h)
  <2>1. /\ object' = object /\ torn' = torn
        /\ \A g \in Handlers \ {h} : handler'[g] = handler[g]
        /\ handler'[h].pc # "insert"
    BY <1>8 DEF Counts, Left, IdleHandler
  <2> QED
    BY <1>8, <2>1, CountMoves DEF Kept
<1> QED
  BY <1>1, <1>2, <1>3, <1>4, <1>5, <1>6, <1>7, <1>8 DEF HandlerStep

\* generate_and_store uploads before it inserts: a link has a report to show unless a link
\* of its job was revoked.
THEOREM LinkAlwaysHasReport == LinkSpec => []LinkHasReport
<1>1. LinkInit => Shows
  BY DEF LinkInit, Shows, LinkHasReport, IdleHandler
<1>2. LinkTypeInv /\ Shows /\ [LinkNext]_linkVars => Shows'
  <2> SUFFICES ASSUME LinkTypeInv, Shows, [LinkNext]_linkVars
               PROVE  Shows'
    OBVIOUS
  <2>1. CASE UNCHANGED linkVars
    BY <2>1 DEF Shows, LinkHasReport, linkVars
  <2>2. ASSUME NEW v \in Tokens, ExpireLink(v)
        PROVE  Shows'
    BY <2>2, ExpireMoves DEF Shows, LinkHasReport, Kept
  <2> QED
    BY <2>1, <2>2, ShowsStep, LinkShape
<1>3. Shows => LinkHasReport
  BY DEF Shows
<1> QED
  BY <1>1, <1>2, <1>3, LinkTypeCorrect, PTL DEF LinkSpec
-----------------------------------------------------------------------------
(* Hits. *)

\* A request that will count has loaded no more hits than were served, as long as its row
\* is there.
Tallies ==
    /\ HitsAreHonest
    /\ \A h \in Handlers : handler[h].pc \in {"fetch", "count"} =>
          (link[handler[h].token].id = handler[h].id
             => handler[h].hits <= served[handler[h].token])

LEMMA TalliesStep ==
    ASSUME LinkTypeInv, Tallies, NEW h \in Handlers, HandlerStep(h)
    PROVE  Tallies'
<1> USE DEF Tallies, HitsAreHonest
<1>1. \A g \in Handlers : handler[g].pc \in {"fetch", "count"} =>
          /\ handler[g].token \in Tokens
          /\ handler[g].id \in 1 .. visits
          /\ handler[g].hits \in Nat
  BY HandlerFields DEF LinkTypeInv, Books
<1>2. \A v \in Tokens : served[v] \in Nat /\ link[v].hits \in Nat
  BY RowFields DEF LinkTypeInv, LinkTypeOK
<1>3. ASSUME UNCHANGED <<link, served>>,
             \A g \in Handlers \ {h} : handler'[g] = handler[g],
             \/ handler'[h].pc \notin {"fetch", "count"}
             \/ /\ handler[h].pc = "fetch"
                /\ handler'[h].token = handler[h].token
                /\ handler'[h].id = handler[h].id
                /\ handler'[h].hits = handler[h].hits
      PROVE  Tallies'
  BY <1>3
<1>4. CASE Opens(h)
  <2>1. handler'[h].pc \notin {"fetch", "count"}
    BY <1>4 DEF Opens, Came
  <2>2. UNCHANGED <<link, served>> /\ \A g \in Handlers \ {h} : handler'[g] = handler[g]
    BY <1>4 DEF Opens, Came
  <2> QED
    BY <1>3, <2>1, <2>2
<1>5. CASE Starts(h) \/ Stores(h) \/ Tears(h)
  <2>1. /\ UNCHANGED <<link, served>> /\ \A g \in Handlers \ {h} : handler'[g] = handler[g]
        /\ handler'[h].pc \notin {"fetch", "count"}
    BY <1>5 DEF Starts, Stores, Tears, Went, Same
  <2> QED
    BY <1>3, <2>1
<1>6. CASE Passes(h)
  <2>1. /\ UNCHANGED <<link, served>> /\ \A g \in Handlers \ {h} : handler'[g] = handler[g]
        /\ \/ handler'[h].pc \notin {"fetch", "count"}
           \/ /\ handler[h].pc = "fetch"
              /\ handler'[h].token = handler[h].token
              /\ handler'[h].id = handler[h].id
              /\ handler'[h].hits = handler[h].hits
    BY <1>6 DEF Passes, Went, Same
  <2> QED
    BY <1>3, <2>1
<1>7. CASE Reuses(h) \/ Leaves(h)
  <2>1. /\ UNCHANGED <<link, served>> /\ \A g \in Handlers \ {h} : handler'[g] = handler[g]
        /\ handler'[h].pc = "idle"
    BY <1>7 DEF Reuses, Leaves, Left, IdleHandler, Same
  <2> QED
    BY <1>3, <2>1
<1>8. CASE Comes(h)
  <2>1. PICK v \in Tokens, s \in {"erase", "fetch"}, c \in Nat :
            /\ link[v] # NoLink
            /\ s = "fetch" => c = link[v].hits
            /\ Came(h, s, link[v].job, v, link[v].id, Missing, c)
    BY <1>8 DEF Comes
  <2>2. UNCHANGED <<link, served>>
    BY <1>8 DEF Comes, Same
  <2>3. /\ \A g \in Handlers \ {h} : handler'[g] = handler[g]
        /\ handler'[h].pc = s /\ handler'[h].token = v /\ handler'[h].hits = c
    BY <2>1 DEF Came
  <2>4. link[v].hits <= served[v]
    BY <2>1
  <2> QED
    BY <2>1, <2>2, <2>3, <2>4
<1>9. CASE Inserts(h)
  <2> DEFINE n == handler[h].token
  <2>1. /\ n \in Tokens /\ link'[n].hits = 0 /\ link'[n].id = handler[h].id
        /\ \A v \in Tokens : v # n => link'[v] = link[v]
    BY <1>9, InsertMoves
  <2>2. /\ served'[n] = 0 /\ \A v \in Tokens : v # n => served'[v] = served[v]
    BY <1>9, <2>1 DEF Inserts, LinkTypeInv, LinkTypeOK
  <2>3. /\ \A g \in Handlers \ {h} : handler'[g] = handler[g]
        /\ handler'[h].pc = "idle" /\ handler[h].pc \in Minting
    BY <1>9 DEF Inserts, Left, IdleHandler, Minting
  <2>4. \A g \in Handlers \ {h} : handler[g].pc # "idle" => handler[g].id # handler[h].id
    BY <2>3 DEF LinkTypeInv, Books
  <2> HIDE DEF n
  <2>5. HitsAreHonest'
    BY <2>1, <2>2
  <2>6. \A g \in Handlers : handler'[g].pc \in {"fetch", "count"} =>
            (link'[handler'[g].token].id = handler'[g].id
               => handler'[g].hits <= served'[handler'[g].token])
    BY <1>1, <2>1, <2>2, <2>3, <2>4
  <2> QED
    BY <2>5, <2>6
<1>10. CASE Drops(h)
  <2>1. /\ \A g \in Handlers \ {h} : handler'[g] = handler[g]
        /\ handler'[h].pc = "idle" /\ served' = served
    BY <1>10 DEF Drops, Left, IdleHandler
  <2> QED
    BY <1>1, <1>10, <2>1, DropMoves, NoLinkType
<1>11. CASE Counts(h)
  <2> DEFINE n == handler[h].token
  <2>1. /\ n \in Tokens /\ link'[n].hits = handler[h].hits + 1 /\ link'[n].id = link[n].id
        /\ \A v \in Tokens : v # n => link'[v] = link[v]
        /\ served'[n] = served[n] + 1
        /\ \A v \in Tokens : v # n => served'[v] = served[v]
    BY <1>11, CountMoves DEF Kept
  <2>2. /\ handler[h].hits <= served[n] /\ handler[h].hits \in Nat
    BY <1>1, <1>11 DEF Counts
  <2>3. /\ \A g \in Handlers \ {h} : handler'[g] = handler[g]
        /\ handler'[h].pc = "idle"
    BY <1>11 DEF Counts, Left, IdleHandler
  <2> HIDE DEF n
  <2>4. HitsAreHonest'
    BY <1>2, <2>1, <2>2
  <2>5. \A g \in Handlers : handler'[g].pc \in {"fetch", "count"} =>
            (link'[handler'[g].token].id = handler'[g].id
               => handler'[g].hits <= served'[handler'[g].token])
    BY <1>1, <1>2, <2>1, <2>3
  <2> QED
    BY <2>4, <2>5
<1> QED
  BY <1>4, <1>5, <1>6, <1>7, <1>8, <1>9, <1>10, <1>11 DEF HandlerStep

LEMMA TalliesHold == LinkSpec => []Tallies
<1>1. LinkInit => Tallies
  BY DEF LinkInit, Tallies, HitsAreHonest, IdleHandler
<1>2. LinkTypeInv /\ Tallies /\ [LinkNext]_linkVars => Tallies'
  <2> SUFFICES ASSUME LinkTypeInv, Tallies, [LinkNext]_linkVars
               PROVE  Tallies'
    OBVIOUS
  <2>1. CASE UNCHANGED linkVars
    BY <2>1 DEF Tallies, HitsAreHonest, linkVars
  <2>2. ASSUME NEW v \in Tokens, ExpireLink(v)
        PROVE  Tallies'
    <3>1. \A h \in Handlers : handler[h].pc \in {"fetch", "count"} => handler[h].token \in Tokens
      BY DEF LinkTypeInv, Books
    <3> QED
      BY <2>2, <3>1, ExpireMoves DEF Tallies, HitsAreHonest, Kept
  <2> QED
    BY <2>1, <2>2, TalliesStep, LinkShape
<1> QED
  BY <1>1, <1>2, LinkTypeCorrect, PTL DEF LinkSpec

\* serve_html_report and its siblings: hits may be lost to a concurrent request, but those of a link
\* count nothing that was not sent, and never fall back to none.
THEOREM HitsAlwaysHonest == LinkSpec => []HitsAreHonest
<1>1. Tallies => HitsAreHonest
  BY DEF Tallies
<1> QED
  BY <1>1, TalliesHold, PTL
-----------------------------------------------------------------------------
(* Retries. *)

Inserting(k) == {h \in Handlers : handler[h].token = k /\ handler[h].pc = "insert"}
Rendering(k) == {h \in Handlers : handler[h].token = k /\ handler[h].pc \in {"render", "upload"}}

Waived(k) == \/ k \in revoked
             \/ link[k].expired
             \/ Cardinality(claims[k]) > 1
             \/ claims[k] \intersect torn # {}

\* Until there is a link each upload is one of a request about to insert, or was lost to a
\* fault; from then on nobody starts another.
Thrift == /\ \A k \in Keys : IsFiniteSet(claims[k])
          /\ \A k \in Keys :
                \/ Waived(k)
                \/ link[k] = NoLink /\ renders[k] <= hitches + Cardinality(Inserting(k))
                \/ /\ link[k] # NoLink
                   /\ renders[k] + Cardinality(Rendering(k)) <= hitches + Cardinality(Handlers)

LEMMA CrewSizes ==
    ASSUME NEW k \in Keys
    PROVE  /\ Cardinality(Handlers) \in Nat
           /\ IsFiniteSet(Inserting(k)) /\ Cardinality(Inserting(k)) \in Nat
           /\ IsFiniteSet(Rendering(k)) /\ Cardinality(Rendering(k)) \in Nat
           /\ Cardinality(Inserting(k)) + Cardinality(Rendering(k)) <= Cardinality(Handlers)
<1>1. IsFiniteSet(Handlers)
  BY LinkSetsAssumption
<1>2. Inserting(k) \subseteq Handlers /\ Rendering(k) \subseteq Handlers
  BY DEF Inserting, Rendering
<1>3. IsFiniteSet(Inserting(k)) /\ IsFiniteSet(Rendering(k))
  BY <1>1, <1>2, FS_Subset
<1>4. /\ Cardinality(Handlers) \in Nat /\ Cardinality(Inserting(k)) \in Nat
      /\ Cardinality(Rendering(k)) \in Nat
  BY <1>1, <1>3, FS_CardinalityType
<1>5. Inserting(k) \intersect Rendering(k) = {}
  BY DEF Inserting, Rendering
<1>6. Cardinality(Inserting(k) \union Rendering(k))
        = Cardinality(Inserting(k)) + Cardinality(Rendering(k)) - Cardinality({})
  BY <1>3, <1>5, FS_Union
<1>7. Cardinality({}) = 0
  BY FS_EmptySet
<1>8. Cardinality(Inserting(k) \union Rendering(k)) <= Cardinality(Handlers)
  <2>1. Inserting(k) \union Rendering(k) \subseteq Handlers
    BY <1>2
  <2> QED
    BY <1>1, <2>1, FS_Subset
<1> QED
  BY <1>3, <1>4, <1>6, <1>7, <1>8

\* Two jobs under one key are a waiver.
LEMMA OneClaim ==
    ASSUME NEW S, IsFiniteSet(S), ~(Cardinality(S) > 1), NEW i \in S, NEW j \in S
    PROVE  i = j
<1> SUFFICES ASSUME i # j PROVE FALSE
  OBVIOUS
<1>1. Cardinality({i}) = 1 /\ IsFiniteSet({i})
  BY FS_Singleton
<1>2. Cardinality({i} \union {j}) = 2 /\ IsFiniteSet({i} \union {j})
  <2>1. j \notin {i}
    OBVIOUS
  <2>2. Cardinality({i} \union {j}) = Cardinality({i}) + 1
    BY <1>1, <2>1, FS_AddElement
  <2> QED
    BY <1>1, <2>2, FS_AddElement
<1>3. {i} \union {j} \subseteq S
  OBVIOUS
<1>4. Cardinality({i} \union {j}) <= Cardinality(S) /\ Cardinality(S) \in Nat
  BY <1>3, FS_Subset, FS_CardinalityType
<1> QED
  BY <1>2, <1>4

LEMMA WaivedStays ==
    ASSUME LinkTypeInv, Thrift, NEW k \in Keys, Waived(k),
           revoked \subseteq revoked', torn \subseteq torn',
           claims[k] \subseteq claims'[k], IsFiniteSet(claims'[k]),
           link[k].expired => link'[k].expired \/ k \in revoked'
    PROVE  Waived(k)'
<1>1. Cardinality(claims[k]) <= Cardinality(claims'[k])
      /\ Cardinality(claims[k]) \in Nat /\ Cardinality(claims'[k]) \in Nat
  BY FS_Subset, FS_CardinalityType DEF Thrift
<1> QED
  BY <1>1 DEF Waived

\* What keeps the bound of one key.
LEMMA ThriftKept ==
    ASSUME LinkTypeInv, Thrift, NEW k \in Keys, ~Waived(k),
           link'[k] = NoLink <=> link[k] = NoLink,
           renders' = renders,
           hitches' \in Nat, hitches' >= hitches,
           Rendering(k)' \subseteq Rendering(k),
           \/ Inserting(k)' = Inserting(k)
           \/ link[k] # NoLink
           \/ \E h \in Handlers : /\ h \in Inserting(k)
                                  /\ Inserting(k)' = Inserting(k) \ {h}
                                  /\ hitches' = hitches + 1
    PROVE  \/ link'[k] = NoLink /\ renders'[k] <= hitches' + Cardinality(Inserting(k)')
           \/ /\ link'[k] # NoLink
              /\ renders'[k] + Cardinality(Rendering(k)') <= hitches' + Cardinality(Handlers)
<1>1. renders[k] \in Nat /\ hitches \in Nat
  BY LinkBoundAssumption DEF LinkTypeInv, LinkTypeOK, Tokens
<1>2. CASE link[k] # NoLink
  <2>1. /\ Cardinality(Rendering(k)') <= Cardinality(Rendering(k))
        /\ Cardinality(Rendering(k)') \in Nat
    BY CrewSizes, FS_Subset, FS_CardinalityType
  <2>2. renders[k] + Cardinality(Rendering(k)) <= hitches + Cardinality(Handlers)
    BY <1>2 DEF Thrift
  <2> QED
    BY <1>1, <1>2, <2>1, <2>2, CrewSizes
<1>3. CASE link[k] = NoLink
  <2>1. renders[k] <= hitches + Cardinality(Inserting(k))
    BY <1>3 DEF Thrift
  <2>2. CASE Inserting(k)' = Inserting(k)
    BY <1>1, <1>3, <2>1, <2>2, CrewSizes
  <2>3. ASSUME NEW h \in Inserting(k), Inserting(k)' = Inserting(k) \ {h},
               hitches' = hitches + 1
        PROVE  renders'[k] <= hitches' + Cardinality(Inserting(k)')
    <3>1. Cardinality(Inserting(k) \ {h}) = Cardinality(Inserting(k)) - 1
      BY CrewSizes, FS_RemoveElement
    <3> QED
      BY <1>1, <2>1, <2>3, <3>1, CrewSizes
  <2> QED
    BY <1>3, <2>2, <2>3
<1> QED
  BY <1>2, <1>3

LEMMA ThriftStep ==
    ASSUME LinkTypeInv, LinkHasReport, Thrift, NEW h \in Handlers, HandlerStep(h)
    PROVE  Thrift'
<1>1. /\ hitches \in Nat /\ hitches' \in Nat /\ hitches' >= hitches
  <2>1. hitches \in Nat
    BY LinkBoundAssumption DEF LinkTypeInv, LinkTypeOK
  <2> QED
    BY <2>1 DEF HandlerStep, Opens, Reuses, Starts, Passes, Leaves, Stores, Inserts, Comes,
                Tears, Drops, Counts
<1>2. \A k \in Keys : IsFiniteSet(claims'[k]) /\ claims[k] \subseteq claims'[k]
  <2>1. CASE claims' = claims
    BY <2>1 DEF Thrift
  <2>2. ASSUME NEW k \in Keys, NEW j \in Shared, claims' = [claims EXCEPT ![k] = @ \union {j}]
        PROVE  \A n \in Keys : IsFiniteSet(claims'[n]) /\ claims[n] \subseteq claims'[n]
    <3>1. IsFiniteSet(claims[k] \union {j})
      BY FS_AddElement DEF Thrift
    <3> QED
      BY <2>2, <3>1 DEF Thrift, LinkTypeInv, LinkTypeOK
  <2>3. claims' = claims \/ \E k \in Keys, j \in Shared : claims' = [claims EXCEPT ![k] = @ \union {j}]
    BY DEF HandlerStep, Opens, Reuses, Starts, Passes, Leaves, Stores, Inserts, Comes,
           Tears, Drops, Counts, Same
  <2> QED
    BY <2>1, <2>2, <2>3
<1>3. revoked \subseteq revoked' /\ torn \subseteq torn'
  BY DEF HandlerStep, Opens, Reuses, Starts, Passes, Leaves, Stores, Inserts, Comes,
         Tears, Drops, Counts, Same
<1> SUFFICES ASSUME NEW k \in Keys, ~Waived(k)'
             PROVE  \/ link'[k] = NoLink /\ renders'[k] <= hitches' + Cardinality(Inserting(k)')
                    \/ /\ link'[k] # NoLink
                       /\ renders'[k] + Cardinality(Rendering(k)') <= hitches' + Cardinality(Handlers)
  BY <1>2 DEF Thrift
<1> DEFINE Goal == \/ link'[k] = NoLink /\ renders'[k] <= hitches' + Cardinality(Inserting(k)')
                   \/ /\ link'[k] # NoLink
                      /\ renders'[k] + Cardinality(Rendering(k)') <= hitches' + Cardinality(Handlers)
<1>4. k \in Tokens /\ renders[k] \in Nat
  BY DEF Tokens, LinkTypeInv, LinkTypeOK
<1>5. \/ link' = link
      \/ Inserts(h) \/ Drops(h) \/ Counts(h)
  BY DEF HandlerStep, Opens, Reuses, Starts, Passes, Leaves, Stores, Comes, Tears, Same
<1>6. link[k].expired => link'[k].expired \/ k \in revoked'
  <2>1. CASE Inserts(h)
    <3>1. link[handler[h].token] = NoLink /\ ~NoLink.expired
      BY <2>1 DEF Inserts, NoLink
    <3> QED
      BY <1>4, <2>1, <3>1, InsertMoves
  <2>2. CASE Drops(h)
    BY <1>4, <2>2, DropMoves DEF Drops
  <2>3. CASE Counts(h)
    BY <1>4, <2>3, CountMoves
  <2> QED
    BY <1>5, <2>1, <2>2, <2>3
<1>7. ~Waived(k)
  BY <1>2, <1>3, <1>6, WaivedStays
<1>8. ASSUME link'[k] = NoLink <=> link[k] = NoLink, renders' = renders,
             \A g \in Handlers \ {h} : handler'[g] = handler[g],
             handler'[h].token = k => handler'[h].pc \notin {"render", "upload", "insert"},
             handler[h].token = k /\ handler[h].pc = "insert" =>
                 link[k] # NoLink \/ hitches' = hitches + 1
      PROVE  Goal
  <2>1. Rendering(k)' \subseteq Rendering(k)
    BY <1>8 DEF Rendering
  <2>2. CASE h \in Inserting(k)
    <3>1. Inserting(k)' = Inserting(k) \ {h}
      BY <1>8 DEF Inserting
    <3>2. link[k] # NoLink \/ hitches' = hitches + 1
      BY <1>8, <2>2 DEF Inserting
    <3> QED
      BY <1>1, <1>7, <1>8, <2>1, <2>2, <3>1, <3>2, ThriftKept
  <2>3. CASE h \notin Inserting(k)
    <3>1. Inserting(k)' = Inserting(k)
      BY <1>8, <2>3 DEF Inserting
    <3> QED
      BY <1>1, <1>7, <1>8, <2>1, <3>1, ThriftKept
  <2> QED
    BY <2>2, <2>3
<1>9. CASE Opens(h)
  <2>1. /\ link' = link /\ renders' = renders
        /\ \A g \in Handlers \ {h} : handler'[g] = handler[g]
        /\ handler[h].pc = "idle"
    BY <1>9 DEF Opens, Came
  <2>2. handler'[h].pc = "find" \/ (handler'[h].token = visits + 1 /\ visits \in Nat)
    BY <1>9 DEF Opens, Came, LinkTypeInv, LinkTypeOK
  <2>3. handler'[h].token = k => handler'[h].pc \notin {"render", "upload", "insert"}
    BY <2>2, LinkSetsAssumption
  <2> QED
    BY <1>8, <2>1, <2>3
<1>10. CASE Reuses(h) \/ Leaves(h)
  <2>1. /\ link' = link /\ renders' = renders
        /\ \A g \in Handlers \ {h} : handler'[g] = handler[g]
        /\ handler'[h].pc = "idle"
        /\ handler[h].pc = "insert" => hitches' = hitches + 1
    BY <1>10 DEF Reuses, Leaves, Left, IdleHandler, Same
  <2> QED
    BY <1>8, <2>1
<1>11. CASE Starts(h)
  <2>1. /\ link' = link /\ renders' = renders /\ hitches' = hitches
        /\ \A g \in Handlers \ {h} : handler'[g] = handler[g]
        /\ handler[h].pc = "find"
        /\ handler'[h].token = handler[h].token /\ handler'[h].pc = "render"
    BY <1>11 DEF Starts, Went, Same
  <2>2. CASE handler[h].token # k
    BY <1>8, <2>1, <2>2
  <2>3. CASE handler[h].token = k
    <3>1. /\ handler[h].job \in claims[k]
          /\ link[k] # NoLink => link[k].job \in claims[k]
      BY <1>4, <2>1, <2>3 DEF LinkTypeInv, Books, Minting
    <3>2. link[k] # NoLink => link[k].job = handler[h].job
      BY <1>7, <3>1, OneClaim DEF Thrift, Waived
    <3>3. link[k] = NoLink
      BY <1>4, <1>7, <1>11, <2>3, <3>1, <3>2 DEF Starts, Waived, LinkHasReport
    <3>4. Inserting(k)' = Inserting(k)
      BY <2>1 DEF Inserting
    <3> QED
      BY <1>7, <2>1, <3>3, <3>4 DEF Thrift
  <2> QED
    BY <2>2, <2>3
<1>12. CASE Passes(h)
  <2>1. /\ link' = link /\ renders' = renders
        /\ \A g \in Handlers \ {h} : handler'[g] = handler[g]
        /\ handler'[h].token = handler[h].token
    BY <1>12 DEF Passes, Went, Same
  <2>2. CASE handler[h].pc = "render"
    <3>1. handler'[h].pc = "upload"
      BY <1>12, <2>2 DEF Passes, Went
    <3>2. Inserting(k)' = Inserting(k)
      BY <2>1, <2>2, <3>1 DEF Inserting
    <3>3. Rendering(k)' \subseteq Rendering(k)
      BY <2>1, <2>2, <3>1 DEF Rendering
    <3> QED
      BY <1>1, <1>7, <2>1, <3>2, <3>3, ThriftKept
  <2>3. CASE handler[h].pc # "render"
    <3>1. handler'[h].pc \notin {"render", "upload", "insert"}
      BY <1>12, <2>3 DEF Passes, Went
    <3>2. handler[h].token = k /\ handler[h].pc = "insert" =>
              link[k] # NoLink \/ hitches' = hitches + 1
      BY <1>12 DEF Passes
    <3> QED
      BY <1>8, <2>1, <3>1, <3>2
  <2> QED
    BY <2>2, <2>3
<1>13. CASE Stores(h)
  <2>1. /\ link' = link /\ hitches' = hitches
        /\ renders' = [renders EXCEPT ![handler[h].token] = @ + 1]
        /\ \A g \in Handlers \ {h} : handler'[g] = handler[g]
        /\ handler[h].pc = "upload"
        /\ handler'[h].token = handler[h].token /\ handler'[h].pc = "insert"
    BY <1>13 DEF Stores, Went
  <2>2. CASE handler[h].token # k
    <3>1. Inserting(k)' = Inserting(k) /\ Rendering(k)' = Rendering(k)
      BY <2>1, <2>2 DEF Inserting, Rendering
    <3>2. renders'[k] = renders[k]
      BY <1>4, <2>1, <2>2 DEF LinkTypeInv, LinkTypeOK
    <3> QED
      BY <1>7, <2>1, <3>1, <3>2 DEF Thrift
  <2>3. CASE handler[h].token = k
    <3>1. /\ Inserting(k)' = Inserting(k) \union {h} /\ h \notin Inserting(k)
      BY <2>1, <2>3 DEF Inserting
    <3>2. Rendering(k)' = Rendering(k) \ {h} /\ h \in Rendering(k)
      BY <2>1, <2>3 DEF Rendering
    <3>3. renders'[k] = renders[k] + 1
      BY <1>4, <2>1, <2>3 DEF LinkTypeInv, LinkTypeOK
    <3>4. Cardinality(Inserting(k)') = Cardinality(Inserting(k)) + 1
      BY <3>1, CrewSizes, FS_AddElement
    <3>5. Cardinality(Rendering(k)') = Cardinality(Rendering(k)) - 1
      BY <3>2, CrewSizes, FS_RemoveElement
    <3>6. \/ link[k] = NoLink /\ renders[k] <= hitches + Cardinality(Inserting(k))
          \/ /\ link[k] # NoLink
             /\ renders[k] + Cardinality(Rendering(k)) <= hitches + Cardinality(Handlers)
      BY <1>7 DEF Thrift
    <3> HIDE DEF Goal
    <3>7. CASE link[k] = NoLink
      <4>1. renders'[k] <= hitches' + Cardinality(Inserting(k)')
        BY <1>1, <1>4, <2>1, <3>3, <3>4, <3>6, <3>7, CrewSizes
      <4> QED
        BY <2>1, <3>7, <4>1 DEF Goal
    <3>8. CASE link[k] # NoLink
      <4>1. renders'[k] + Cardinality(Rendering(k)') <= hitches' + Cardinality(Handlers)
        BY <1>1, <1>4, <2>1, <3>3, <3>5, <3>6, <3>8, CrewSizes
      <4> QED
        BY <2>1, <3>8, <4>1 DEF Goal
    <3> QED
      BY <3>7, <3>8
  <2> QED
    BY <2>2, <2>3
<1>14. CASE Inserts(h)
  <2>1. /\ renders' = renders /\ hitches' = hitches
        /\ \A g \in Handlers \ {h} : handler'[g] = handler[g]
        /\ handler'[h].pc = "idle" /\ handler[h].pc = "insert"
        /\ link[handler[h].token] = NoLink
    BY <1>14 DEF Inserts, Left, IdleHandler
  <2>2. CASE handler[h].token # k
    <3>1. link'[k] = link[k]
      BY <1>4, <1>14, <2>2, InsertMoves
    <3> QED
      BY <1>8, <2>1, <2>2, <3>1
  <2>3. CASE handler[h].token = k
    <3>1. link'[k] # NoLink
      BY <1>14, <2>3, InsertMoves
    <3>2. Rendering(k)' = Rendering(k)
      BY <2>1 DEF Rendering
    <3>3. renders[k] <= hitches + Cardinality(Inserting(k))
      BY <1>7, <2>1, <2>3 DEF Thrift
    <3>4. renders'[k] + Cardinality(Rendering(k)') <= hitches' + Cardinality(Handlers)
      BY <1>1, <1>4, <2>1, <3>2, <3>3, CrewSizes
    <3> QED
      BY <3>1, <3>4
  <2> QED
    BY <2>2, <2>3
<1>15. CASE Comes(h) \/ Tears(h)
  <2>1. /\ link' = link /\ renders' = renders
        /\ \A g \in Handlers \ {h} : handler'[g] = handler[g]
        /\ handler'[h].pc \notin {"render", "upload", "insert"}
        /\ handler[h].pc # "insert"
    BY <1>15 DEF Comes, Came, Tears, Went, Same
  <2> QED
    BY <1>8, <2>1
<1>16. CASE Drops(h)
  <2>1. /\ renders' = renders
        /\ \A g \in Handlers \ {h} : handler'[g] = handler[g]
        /\ handler'[h].pc = "idle" /\ handler[h].pc = "drop"
        /\ handler[h].token \in revoked'
    BY <1>16 DEF Drops, Left, IdleHandler
  <2>2. handler[h].token # k
    BY <2>1 DEF Waived
  <2>3. link'[k] = link[k]
    BY <1>4, <1>16, <2>2, DropMoves
  <2> QED
    BY <1>8, <2>1, <2>3
<1>17. CASE Counts(h)
  <2>1. /\ renders' = renders
        /\ \A g \in Handlers \ {h} : handler'[g] = handler[g]
        /\ handler'[h].pc = "idle" /\ handler[h].pc = "count"
    BY <1>17 DEF Counts, Left, IdleHandler
  <2>2. link'[k] = NoLink <=> link[k] = NoLink
    BY <1>4, <1>17, CountMoves DEF Kept
  <2> QED
    BY <1>8, <2>1, <2>2
<1> QED
  BY <1>9, <1>10, <1>11, <1>12, <1>13, <1>14, <1>15, <1>16, <1>17 DEF HandlerStep

\* The fast path of generate_and_store with the deterministic token: for one key and one
\* job the report is uploaded once by each racing request at most, and once more for each
\* fault, however often the client repeats the request.
THEOREM RetriesAlwaysFree == LinkSpec => []RetriesAreFree
<1>1. LinkInit => Thrift
  <2> SUFFICES ASSUME LinkInit PROVE Thrift
    OBVIOUS
  <2>1. \A k \in Keys : claims[k] = {} /\ link[k] = NoLink /\ renders[k] = 0 /\ hitches = 0
    BY DEF LinkInit, Tokens
  <2>2. \A k \in Keys : renders[k] <= hitches + Cardinality(Inserting(k))
    BY <2>1, CrewSizes
  <2>3. \A k \in Keys : IsFiniteSet(claims[k])
    BY <2>1, FS_EmptySet
  <2> QED
    BY <2>1, <2>2, <2>3 DEF Thrift
<1>2. LinkTypeInv /\ LinkHasReport /\ Thrift /\ [LinkNext]_linkVars => Thrift'
  <2> SUFFICES ASSUME LinkTypeInv, LinkHasReport, Thrift, [LinkNext]_linkVars
               PROVE  Thrift'
    OBVIOUS
  <2>1. CASE UNCHANGED linkVars
    BY <2>1 DEF Thrift, Waived, Inserting, Rendering, linkVars
  <2>2. ASSUME NEW v \in Tokens, ExpireLink(v)
        PROVE  Thrift'
    <3>1. UNCHANGED <<handler, claims, renders, revoked, torn, hitches>>
      BY <2>2, ExpireMoves
    <3> SUFFICES ASSUME NEW k \in Keys, ~Waived(k)'
                 PROVE  \/ link'[k] = NoLink /\ renders'[k] <= hitches' + Cardinality(Inserting(k)')
                        \/ /\ link'[k] # NoLink
                           /\ renders'[k] + Cardinality(Rendering(k)')
                                 <= hitches' + Cardinality(Handlers)
      BY <3>1 DEF Thrift
    <3>2. k \in Tokens
      BY DEF Tokens
    <3>3. k # v
      BY <2>2, ExpireMoves DEF Waived
    <3>4. link'[k] = link[k]
      BY <2>2, <3>2, <3>3, ExpireMoves
    <3>5. ~Waived(k) /\ Inserting(k)' = Inserting(k) /\ Rendering(k)' = Rendering(k)
      BY <3>1, <3>4 DEF Waived, Inserting, Rendering
    <3> QED
      BY <3>1, <3>4, <3>5 DEF Thrift
  <2> QED
    BY <2>1, <2>2, ThriftStep, LinkShape
<1>3. LinkTypeInv /\ Thrift => RetriesAreFree
  <2> SUFFICES ASSUME LinkTypeInv, Thrift, NEW k \in Keys, ~Waived(k)
               PROVE  renders[k] <= Cardinality(Handlers) + hitches
    BY DEF RetriesAreFree, Waived
  <2>1. renders[k] \in Nat /\ hitches \in Nat
    BY LinkBoundAssumption DEF LinkTypeInv, LinkTypeOK, Tokens
  <2>2. \/ renders[k] <= hitches + Cardinality(Inserting(k))
        \/ renders[k] + Cardinality(Rendering(k)) <= hitches + Cardinality(Handlers)
    BY DEF Thrift
  <2> QED
    BY <2>1, <2>2, CrewSizes
<1> QED
  BY <1>1, <1>2, <1>3, LinkTypeCorrect, LinkAlwaysHasReport, PTL DEF LinkSpec
-----------------------------------------------------------------------------
(* The contract, seen from one token. *)

Dooming == {"erase", "drop"}
Opening == {"fetch", "count"}

\* The request h is about the row it has found under v, at one of the steps.
Minds(h, v, steps) == handler[h].token = v /\ handler[h].pc \in steps

\* What a step of h does to the rows that requests are about.
LEMMA MeantMoves ==
    ASSUME NEW v, NEW steps, NEW h \in Handlers,
           \A g \in Handlers \ {h} : handler'[g] = handler[g]
    PROVE  /\ ~Minds(h, v, steps) /\ ~Minds(h, v, steps)' => Meant(v, steps)' = Meant(v, steps)
           /\ Minds(h, v, steps) /\ Minds(h, v, steps)' /\ handler'[h].id = handler[h].id
                  => Meant(v, steps)' = Meant(v, steps)
           /\ Minds(h, v, steps) /\ ~Minds(h, v, steps)' =>
                  /\ handler[h].id \in Meant(v, steps)
                  /\ Meant(v, steps)' \in {Meant(v, steps), Meant(v, steps) \ {handler[h].id}}
           /\ ~Minds(h, v, steps) /\ Minds(h, v, steps)' =>
                  Meant(v, steps)' = Meant(v, steps) \union {handler'[h].id}
<1> DEFINE Others == {handler[g].id : g \in {f \in Handlers \ {h} : Minds(f, v, steps)}}
<1>1. Meant(v, steps) = IF Minds(h, v, steps) THEN Others \union {handler[h].id} ELSE Others
  BY DEF Meant, Minds
<1>2. Meant(v, steps)' = IF Minds(h, v, steps)' THEN Others \union {handler'[h].id} ELSE Others
  BY DEF Meant, Minds
<1> HIDE DEF Others
<1> QED
  BY <1>1, <1>2

\* What LinkContract says of a step, for one token.
Keeps(v) == UNCHANGED Holder(v)!vars \/ Holder(v)!Next

\* A step that leaves the row alone, and at most ends a request about it.
LEMMA RowKept ==
    ASSUME NEW v \in Tokens, link'[v] = link[v], served'[v] = served[v],
           NEW h \in Handlers, \A g \in Handlers \ {h} : handler'[g] = handler[g],
           \/ /\ handler'[h].pc \notin Dooming \union Opening
           \/ /\ handler'[h].token = handler[h].token
              /\ handler'[h].id = handler[h].id
              /\ handler[h].pc \in Dooming <=> handler'[h].pc \in Dooming
              /\ handler[h].pc \in Opening <=> handler'[h].pc \in Opening
    PROVE  Keeps(v)
<1>1. /\ link'[v].id = link[v].id /\ link'[v].job = link[v].job /\ link'[v].look = link[v].look
      /\ link'[v].expired = link[v].expired /\ link'[v].hits = link[v].hits
  OBVIOUS
<1>2. \/ /\ Meant(v, Dooming)' = Meant(v, Dooming)
         /\ Meant(v, Opening)' = Meant(v, Opening)
      \/ /\ Meant(v, Opening)' = Meant(v, Opening)
         /\ handler[h].id \in Meant(v, Dooming)
         /\ Meant(v, Dooming)' = Meant(v, Dooming) \ {handler[h].id}
      \/ /\ Meant(v, Dooming)' = Meant(v, Dooming)
         /\ handler[h].id \in Meant(v, Opening)
         /\ Meant(v, Opening)' = Meant(v, Opening) \ {handler[h].id}
  BY MeantMoves DEF Minds, Dooming, Opening
<1> QED
  BY <1>1, <1>2 DEF Keeps, Holder!vars, Holder!rowVars, Holder!Next, Holder!Close, Dooming, Opening

\* Everything a request does is a step of the contract for the token it is about, and
\* nothing for the others.
LEMMA RequestKeeps ==
    ASSUME LinkTypeInv, Tallies, NEW v \in Tokens, NEW h \in Handlers, HandlerStep(h)
    PROVE  Keeps(v)
<1>0. /\ LinkTypeOK /\ link[v] \in LinkRow /\ served[v] \in Nat
      /\ link[v].hits \in Nat
  BY RowFields DEF LinkTypeInv, LinkTypeOK
<1>1. CASE Opens(h) \/ Starts(h) \/ Stores(h) \/ Passes(h) \/ Tears(h) \/ Reuses(h) \/ Leaves(h)
  <2>1. /\ link' = link /\ served' = served
        /\ \A g \in Handlers \ {h} : handler'[g] = handler[g]
    BY <1>1 DEF Opens, Starts, Stores, Passes, Tears, Reuses, Leaves, Came, Went, Left, Same
  <2>2. CASE Opens(h) \/ Starts(h) \/ Stores(h) \/ Reuses(h) \/ Leaves(h)
    <3>1. handler'[h].pc \notin Dooming \union Opening
      BY <2>2 DEF Opens, Starts, Stores, Reuses, Leaves, Came, Went, Left, IdleHandler, Dooming,
         Opening
    <3> QED
      BY <2>1, <3>1, RowKept
  <2>3. CASE Passes(h) \/ Tears(h)
    <3>1. /\ handler'[h].token = handler[h].token
          /\ handler'[h].id = handler[h].id
          /\ handler[h].pc \in Dooming <=> handler'[h].pc \in Dooming
          /\ handler[h].pc \in Opening <=> handler'[h].pc \in Opening
      BY <2>3 DEF Passes, Tears, Went, Dooming, Opening
    <3> QED
      BY <2>1, <3>1, RowKept
  <2> QED
    BY <1>1, <2>2, <2>3
<1>2. CASE Comes(h)
  <2>1. PICK u \in Tokens, s \in {"erase", "fetch"}, c \in Nat :
            /\ link[u] # NoLink
            /\ s = "fetch" => ~link[u].expired
            /\ Came(h, s, link[u].job, u, link[u].id, Missing, c)
    BY <1>2 DEF Comes
  <2>2. /\ link' = link /\ served' = served
        /\ \A g \in Handlers \ {h} : handler'[g] = handler[g]
        /\ handler[h].pc = "idle" /\ handler'[h].pc = s
        /\ handler'[h].token = u /\ handler'[h].id = link[u].id
    BY <1>2, <2>1 DEF Comes, Came, Same
  <2>3. /\ link'[v].id = link[v].id /\ link'[v].job = link[v].job
        /\ link'[v].look = link[v].look /\ link'[v].expired = link[v].expired
        /\ link'[v].hits = link[v].hits /\ served'[v] = served[v]
    BY <2>2
  <2>4. CASE u # v
    <3>1. /\ Meant(v, Dooming)' = Meant(v, Dooming)
          /\ Meant(v, Opening)' = Meant(v, Opening)
      BY <2>2, <2>4, MeantMoves DEF Minds, Dooming, Opening
    <3> QED
      BY <2>3, <3>1 DEF Keeps, Holder!vars, Holder!rowVars, Dooming, Opening
  <2>5. CASE u = v
    <3>1. link[v].id # 0
      BY <2>1, <2>5 DEF LinkTypeInv, Books
    <3>2. CASE s = "erase"
      <4>1. /\ Meant(v, Dooming)' = Meant(v, Dooming) \union {link[v].id}
            /\ Meant(v, Opening)' = Meant(v, Opening)
        BY <2>2, <2>5, <3>2, MeantMoves DEF Minds, Dooming, Opening
      <4> QED
        BY <2>3, <3>1, <4>1 DEF Keeps, Holder!Next, Holder!Condemn, Holder!rowVars, Dooming, Opening
    <3>3. CASE s = "fetch"
      <4>1. /\ Meant(v, Opening)' = Meant(v, Opening) \union {link[v].id}
            /\ Meant(v, Dooming)' = Meant(v, Dooming)
        BY <2>2, <2>5, <3>3, MeantMoves DEF Minds, Dooming, Opening
      <4> QED
        BY <2>1, <2>3, <2>5, <3>1, <3>3, <4>1
        DEF Keeps, Holder!Next, Holder!Open, Holder!rowVars, Dooming, Opening
    <3> QED
      BY <3>2, <3>3
  <2> QED
    BY <2>4, <2>5
<1>3. CASE Inserts(h)
  <2>1. /\ \A g \in Handlers \ {h} : handler'[g] = handler[g]
        /\ handler[h].pc = "insert" /\ handler'[h].pc = "idle"
    BY <1>3 DEF Inserts, Left, IdleHandler
  <2>2. CASE v # handler[h].token
    <3>1. link'[v] = link[v] /\ served'[v] = served[v]
      BY <1>0, <1>3, <2>2, InsertMoves DEF Inserts, LinkTypeOK
    <3> QED
      BY <2>1, <3>1, RowKept DEF Dooming, Opening
  <2>3. CASE v = handler[h].token
    <3>1. /\ link'[v].id = handler[h].id /\ link'[v].expired = FALSE /\ link'[v].hits = 0
      BY <1>3, <2>3, InsertMoves DEF Inserts, LinkTypeOK, LinkTypeInv, LinkRow
    <3>2. link[v].id = 0 /\ served'[v] = 0
      BY <1>0, <1>3, <2>3, NoLinkType DEF Inserts, LinkTypeOK
    <3>3. handler[h].id # 0
      BY <2>1 DEF LinkTypeInv, Books
    <3>4. handler[h].id \notin Meant(v, Dooming) \union Meant(v, Opening)
      <4>1. \A g \in Handlers \ {h} : handler[g].pc # "idle" => handler[g].id # handler[h].id
        BY <2>1 DEF LinkTypeInv, Books, Minting
      <4> QED
        BY <2>1, <4>1 DEF Meant, Dooming, Opening
    <3>5. /\ Meant(v, Dooming)' = Meant(v, Dooming)
          /\ Meant(v, Opening)' = Meant(v, Opening)
      BY <2>1, MeantMoves DEF Minds, Dooming, Opening
    <3> QED
      BY <3>1, <3>2, <3>3, <3>4, <3>5 DEF Keeps, Holder!Next, Holder!Grant, Dooming, Opening
  <2> QED
    BY <2>2, <2>3
<1>4. CASE Drops(h)
  <2>1. /\ \A g \in Handlers \ {h} : handler'[g] = handler[g]
        /\ handler[h].pc = "drop" /\ handler'[h].pc = "idle" /\ served' = served
        /\ link[handler[h].token].id = handler[h].id
    BY <1>4 DEF Drops, Left, IdleHandler
  <2>2. CASE v # handler[h].token
    <3>1. link'[v] = link[v]
      BY <1>4, <2>2, DropMoves
    <3> QED
      BY <2>1, <3>1, RowKept DEF Dooming, Opening
  <2>3. CASE v = handler[h].token
    <3>1. link'[v].id = 0
      BY <1>4, <2>3, DropMoves, NoLinkType
    <3>2. handler[h].id # 0 /\ link[v].id = handler[h].id /\ served'[v] = served[v]
      BY <2>1, <2>3 DEF LinkTypeInv, Books
    <3>3. /\ handler[h].id \in Meant(v, Dooming)
          /\ Meant(v, Dooming)' \in {Meant(v, Dooming), Meant(v, Dooming) \ {handler[h].id}}
          /\ Meant(v, Opening)' = Meant(v, Opening)
      BY <2>1, <2>3, MeantMoves DEF Minds, Dooming, Opening
    <3> QED
      BY <3>1, <3>2, <3>3 DEF Keeps, Holder!Next, Holder!Withdraw, Dooming, Opening
  <2> QED
    BY <2>2, <2>3
<1>5. CASE Counts(h)
  <2>1. /\ \A g \in Handlers \ {h} : handler'[g] = handler[g]
        /\ handler[h].pc = "count" /\ handler'[h].pc = "idle"
        /\ link[handler[h].token].id = handler[h].id
    BY <1>5 DEF Counts, Left, IdleHandler
  <2>2. CASE v # handler[h].token
    <3>1. link'[v] = link[v] /\ served'[v] = served[v]
      BY <1>5, <2>2, CountMoves
    <3> QED
      BY <2>1, <3>1, RowKept DEF Dooming, Opening
  <2>3. CASE v = handler[h].token
    <3>1. /\ link'[v].id = link[v].id /\ link'[v].job = link[v].job
          /\ link'[v].look = link[v].look /\ link'[v].expired = link[v].expired
          /\ link'[v].hits = handler[h].hits + 1 /\ served'[v] = served[v] + 1
      BY <1>5, <2>3, CountMoves DEF Kept
    <3>2. /\ handler[h].id # 0 /\ link[v].id = handler[h].id
          /\ handler[h].hits \in Nat /\ handler[h].hits <= served[v]
      BY <1>0, <2>1, <2>3, HandlerFields DEF LinkTypeInv, Books, Tallies
    <3>3. /\ handler[h].id \in Meant(v, Opening)
          /\ Meant(v, Opening)' \in {Meant(v, Opening), Meant(v, Opening) \ {handler[h].id}}
          /\ Meant(v, Dooming)' = Meant(v, Dooming)
      BY <2>1, <2>3, MeantMoves DEF Minds, Dooming, Opening
    <3>4. link'[v].hits \in 1 .. served[v] + 1
      BY <1>0, <3>1, <3>2
    <3> QED
      BY <3>1, <3>2, <3>3, <3>4 DEF Keeps, Holder!Next, Holder!Send, Dooming, Opening
  <2> QED
    BY <2>2, <2>3
<1> QED
  BY <1>1, <1>2, <1>3, <1>4, <1>5 DEF HandlerStep

LEMMA ExpiryKeeps ==
    ASSUME LinkTypeInv, NEW v \in Tokens, NEW u \in Tokens, ExpireLink(u)
    PROVE  Keeps(v)
<1>1. /\ UNCHANGED <<handler, served>>
      /\ \A x \in Tokens : x # u => link'[x] = link[x]
      /\ Kept(u) /\ link'[u].hits = link[u].hits /\ link'[u] \in LinkRow /\ link'[u].expired
  BY ExpireMoves
<1>2. Meant(v, Dooming)' = Meant(v, Dooming) /\ Meant(v, Opening)' = Meant(v, Opening)
  BY <1>1 DEF Meant
<1>3. CASE v # u
  <2>1. /\ link'[v].id = link[v].id /\ link'[v].job = link[v].job
        /\ link'[v].look = link[v].look /\ link'[v].expired = link[v].expired
        /\ link'[v].hits = link[v].hits /\ served'[v] = served[v]
    BY <1>1, <1>3
  <2> QED
    BY <1>2, <2>1 DEF Keeps, Holder!vars, Holder!rowVars, Dooming, Opening
<1>4. CASE v = u
  <2>1. /\ link'[v].id = link[v].id /\ link'[v].job = link[v].job
        /\ link'[v].look = link[v].look /\ link'[v].expired = TRUE
        /\ link'[v].hits = link[v].hits /\ served'[v] = served[v]
    BY <1>1, <1>4 DEF Kept, LinkRow
  <2>2. link[v].id # 0
    BY <1>1, <1>4 DEF Kept, LinkTypeInv, Books
  <2> QED
    BY <1>2, <2>1, <2>2 DEF Keeps, Holder!Next, Holder!Expire, Dooming, Opening
<1> QED
  BY <1>3, <1>4

\* generate_and_store, revoke_report and the public routes: whatever overlaps, the holder of a
\* token sees what LinkContract allows, and a request that has loaded an earlier row of a
\* key neither removes nor counts on the one that took its place.
THEOREM LinkImplementation == LinkSpec => ImplementsLinkContract
<1>1. LinkInit => \A v \in Tokens : Holder(v)!Init
  BY DEF LinkInit, NoLink, IdleHandler, Meant, Holder!Init
<1>2. LinkTypeInv /\ Tallies /\ [LinkNext]_linkVars
          => [\A v \in Tokens : UNCHANGED Holder(v)!vars \/ Holder(v)!Next]_linkVars
  BY LinkShape, RequestKeeps, ExpiryKeeps DEF Keeps
<1> QED
  BY <1>1, <1>2, LinkTypeCorrect, TalliesHold, PTL DEF LinkSpec, ImplementsLinkContract
=============================================================================
