----------------------------- MODULE ReportLinks -----------------------------
(***************************************************************************)
(* Share links of reports.  A mint renders a job's report, uploads it, and *)
(* inserts a row of report_tokens; whoever has the token is served the     *)
(* stored object.  A client may send an Idempotency-Key, and the token is  *)
(* then a hash of the key, so that a retry finds the row of the first try. *)
(* Links expire, and are revoked.                                          *)
(*                                                                         *)
(* There is one row per mint but one object per job: the storage key names *)
(* the tenant, the job and the format.  The model has one tenant and one   *)
(* format; the code handles the formats of a request one after another,    *)
(* each with a token, a commit and an object of its own.                   *)
(***************************************************************************)
EXTENDS Integers, FiniteSets

CONSTANTS
    Shared,     \* complete jobs of a tenant
    Looks,      \* branding and detail level of a rendered report
    Keys,       \* idempotency keys
    Handlers,   \* requests in progress
    NoShared,   \* the job of an idle handler
    Missing,    \* the look of an object that is not stored
    LinkFaults, \* which faults may occur
    MaxLinkFaults,
    MaxVisits   \* bound on the mints and the requests for a report, together

\* Tokens without a key are numbers, and so are the ids of rows.
ASSUME LinkSetsAssumption ==
    /\ IsFiniteSet(Handlers)
    /\ NoShared \notin Shared
    /\ Missing \notin Looks
    /\ Keys \intersect Nat = {}
ASSUME LinkBoundAssumption ==
    MaxLinkFaults \in Nat /\ MaxVisits \in Nat

VARIABLES
    link,     \* link[v]: the row under token v
    object,   \* object[j]: how the stored report of j looks
    handler,  \* handler[h]: a request, and what its session has loaded
    visits,   \* mints and requests for a report so far
    given,    \* <<job of a mint, token it was answered with>>
    claims,   \* claims[k]: jobs a key was sent for
    renders,  \* renders[v]: uploads by mints with token v
    served,   \* served[v]: reports sent to holders of v since its row was inserted
    revoked,  \* tokens whose row was deleted
    torn,     \* jobs whose object was deleted
    hitches   \* faults so far

linkVars == <<link, object, handler, visits, given, claims, renders, served,
              revoked, torn, hitches>>
-----------------------------------------------------------------------------
Tokens == Keys \union 1 .. MaxVisits
LinkRow == [id : 0 .. MaxVisits, job : Shared \union {NoShared}, look : Looks \union {Missing},
            expired : BOOLEAN, hits : Nat]
NoLink == [id |-> 0, job |-> NoShared, look |-> Missing, expired |-> FALSE, hits |-> 0]

LinkSteps == {"find", "render", "upload", "insert", "refind", "erase", "drop", "fetch", "count"}
LinkRequest == [pc : LinkSteps \union {"idle"}, job : Shared \union {NoShared},
                token : Tokens \union {0}, id : 0 .. MaxVisits, look : Looks \union {Missing},
                inline : BOOLEAN, hits : Nat]
IdleHandler == [pc |-> "idle", job |-> NoShared, token |-> 0, id |-> 0, look |-> Missing,
                inline |-> FALSE, hits |-> 0]

Is(h, p) == handler[h].pc = p
TokenOf(h) == handler[h].token
Keyed(h) == TokenOf(h) \in Keys
Go(h, p) == handler' = [handler EXCEPT ![h] = [@ EXCEPT !.pc = p]]
Leave(h) == handler' = [handler EXCEPT ![h] = IdleHandler]

Hitch(kind) == /\ kind \in LinkFaults
               /\ hitches < MaxLinkFaults
               /\ hitches' = hitches + 1

LinkInit == /\ link = [v \in Tokens |-> NoLink]
            /\ object = [j \in Shared |-> Missing]
            /\ handler = [h \in Handlers |-> IdleHandler]
            /\ visits = 0
            /\ given = {}
            /\ claims = [k \in Keys |-> {}]
            /\ renders = [v \in Tokens |-> 0]
            /\ served = [v \in Tokens |-> 0]
            /\ revoked = {}
            /\ torn = {}
            /\ hitches = 0
-----------------------------------------------------------------------------
(* generate_and_store. *)

\* A mint without a key, and the one of a worker after a preflight: a random token.
Mint(h, j, l) ==
    /\ Is(h, "idle")
    /\ visits < MaxVisits
    /\ visits' = visits + 1
    /\ handler' = [handler EXCEPT ![h] =
           [pc |-> "render", job |-> j, token |-> visits + 1, id |-> visits + 1, look |-> l,
            inline |-> FALSE, hits |-> 0]]
    /\ UNCHANGED <<link, object, given, claims, renders, served, revoked, torn, hitches>>

\* _deterministic_token: the job is not part of what is hashed.
MintKeyed(h, j, k, l, inline) ==
    /\ Is(h, "idle")
    /\ visits < MaxVisits
    /\ visits' = visits + 1
    /\ handler' = [handler EXCEPT ![h] =
           [pc |-> "find", job |-> j, token |-> k, id |-> visits + 1, look |-> l,
            inline |-> inline, hits |-> 0]]
    /\ claims' = [claims EXCEPT ![k] = @ \union {j}]
    /\ UNCHANGED <<link, object, given, renders, served, revoked, torn, hitches>>

Answer(h) == /\ given' = given \union {<<handler[h].job, TokenOf(h)>>}
             /\ Leave(h)

\* Mutant: no fast path.
FindNothing(h) == /\ Is(h, "find")
                  /\ Go(h, "render")
                  /\ UNCHANGED <<link, object, visits, given, claims, renders, served,
                                 revoked, torn, hitches>>

\* A live row is reused; for an inline answer the object must be there, too.
Find(h) ==
    LET row == link[TokenOf(h)]
        live == row # NoLink /\ ~row.expired
        reused == live /\ (handler[h].inline => object[handler[h].job] # Missing) IN
    /\ Is(h, "find")
    /\ \/ /\ reused
          /\ Answer(h)
       \/ /\ ~reused
          /\ Go(h, "render")
          /\ UNCHANGED given
    /\ UNCHANGED <<link, object, visits, claims, renders, served, revoked, torn, hitches>>

\* A format that has no content or cannot be rendered is left out of the answer.
Render(h) == /\ Is(h, "render")
             /\ Go(h, "upload") \/ Leave(h)
             /\ UNCHANGED <<link, object, visits, given, claims, renders, served,
                            revoked, torn, hitches>>

Upload(h) == /\ Is(h, "upload")
             /\ object' = [object EXCEPT ![handler[h].job] = handler[h].look]
             /\ renders' = [renders EXCEPT ![TokenOf(h)] = @ + 1]
             /\ Go(h, "insert")
             /\ UNCHANGED <<link, visits, given, claims, served, revoked, torn, hitches>>

\* Mutant: a failed upload is logged, and the row inserted.
UploadShrugged(h) == /\ Is(h, "upload")
                     /\ Hitch("storage")
                     /\ Go(h, "insert")
                     /\ UNCHANGED <<link, object, visits, given, claims, renders, served,
                                    revoked, torn>>

UploadFails(h) == /\ Is(h, "upload")
                  /\ Hitch("storage")
                  /\ Leave(h)
                  /\ UNCHANGED <<link, object, visits, given, claims, renders, served,
                                 revoked, torn>>

\* The commit of the row.  A token that is taken, even by an expired row, raises.
InsertLink(h) ==
    LET v == TokenOf(h) IN
    /\ Is(h, "insert")
    /\ \/ /\ link[v] = NoLink
          /\ link' = [link EXCEPT ![v] = [id |-> handler[h].id, job |-> handler[h].job,
                                          look |-> handler[h].look, expired |-> FALSE, hits |-> 0]]
          /\ served' = [served EXCEPT ![v] = 0]
          /\ Answer(h)
       \/ /\ link[v] # NoLink
          /\ Go(h, "refind")
          /\ UNCHANGED <<link, served, given>>
    /\ UNCHANGED <<object, visits, claims, renders, revoked, torn, hitches>>

\* Any other error of the commit: a mint without a key leaves the format out.
InsertHitch(h) == /\ Is(h, "insert")
                  /\ Hitch("db")
                  /\ IF Keyed(h) THEN Go(h, "refind") ELSE Leave(h)
                  /\ UNCHANGED <<link, object, visits, given, claims, renders, served,
                                 revoked, torn>>

\* Mutant: the answer is given without the row it is about.
RefindAnyway(h) == /\ Is(h, "refind")
                   /\ Answer(h)
                   /\ UNCHANGED <<link, object, visits, claims, renders, served, revoked,
                                  torn, hitches>>

\* The winner of a race is looked up, and the format left out if there is none.
Refind(h) ==
    /\ Is(h, "refind")
    /\ \/ /\ link[TokenOf(h)] # NoLink
          /\ Answer(h)
       \/ /\ link[TokenOf(h)] = NoLink
          /\ Leave(h)
          /\ UNCHANGED given
    /\ UNCHANGED <<link, object, visits, claims, renders, served, revoked, torn, hitches>>
-----------------------------------------------------------------------------
(* revoke_report: the object of the job goes first, then the row. *)

Revoke(h, v) ==
    /\ Is(h, "idle")
    /\ link[v] # NoLink
    /\ handler' = [handler EXCEPT ![h] = [IdleHandler EXCEPT
           !.pc = "erase", !.job = link[v].job, !.token = v, !.id = link[v].id]]
    /\ UNCHANGED <<link, object, visits, given, claims, renders, served, revoked, torn,
                   hitches>>

\* A failure to delete the object is ignored.
Erase(h) ==
    LET j == handler[h].job IN
    /\ Is(h, "erase")
    /\ \/ /\ object' = [object EXCEPT ![j] = Missing]
          /\ torn' = torn \union {j}
          /\ UNCHANGED hitches
       \/ /\ Hitch("storage")
          /\ UNCHANGED <<object, torn>>
    /\ Go(h, "drop")
    /\ UNCHANGED <<link, visits, given, claims, renders, served, revoked>>

\* Mutant: whatever row the token has by now is deleted.
DropToken(h) ==
    LET v == TokenOf(h) IN
    /\ Is(h, "drop")
    /\ link' = [link EXCEPT ![v] = NoLink]
    /\ revoked' = revoked \union {v}
    /\ Leave(h)
    /\ UNCHANGED <<object, visits, given, claims, renders, served, torn, hitches>>

\* The row is deleted by its id; one that is gone by now is passed over.

DropRow(h) ==
    LET v == TokenOf(h) IN
    /\ Is(h, "drop")
    /\ IF link[v].id = handler[h].id
       THEN /\ link' = [link EXCEPT ![v] = NoLink]
            /\ revoked' = revoked \union {v}
       ELSE UNCHANGED <<link, revoked>>
    /\ Leave(h)
    /\ UNCHANGED <<object, visits, given, claims, renders, served, torn, hitches>>

ExpireLink(v) == /\ link[v] # NoLink
                 /\ link' = [link EXCEPT ![v] = [@ EXCEPT !.expired = TRUE]]
                 /\ UNCHANGED <<object, handler, visits, given, claims, renders, served,
                                revoked, torn, hitches>>
-----------------------------------------------------------------------------
(* serve_html_report and its siblings. *)

Serve(h, v) ==
    /\ Is(h, "idle")
    /\ link[v] # NoLink
    /\ ~link[v].expired
    /\ visits < MaxVisits
    /\ visits' = visits + 1
    /\ handler' = [handler EXCEPT ![h] = [IdleHandler EXCEPT
           !.pc = "fetch", !.job = link[v].job, !.token = v, !.id = link[v].id,
           !.hits = link[v].hits]]
    /\ UNCHANGED <<link, object, given, claims, renders, served, revoked, torn, hitches>>

\* An object that is not there is a 404.
FetchReport(h) ==
    /\ Is(h, "fetch")
    /\ IF object[handler[h].job] # Missing THEN Go(h, "count") ELSE Leave(h)
    /\ UNCHANGED <<link, object, visits, given, claims, renders, served, revoked, torn, hitches>>

\* accessed_count is what was loaded, plus one.  A row that was deleted meanwhile is an
\* error, and the report is not sent.
Count(h) ==
    LET v == TokenOf(h) IN
    /\ Is(h, "count")
    /\ IF link[v].id = handler[h].id
       THEN /\ link' = [link EXCEPT ![v] = [@ EXCEPT !.hits = handler[h].hits + 1]]
            /\ served' = [served EXCEPT ![v] = @ + 1]
       ELSE UNCHANGED <<link, served>>
    /\ Leave(h)
    /\ UNCHANGED <<object, visits, given, claims, renders, revoked, torn, hitches>>

\* The process dies, or an error ends the request with a 500.
HandlerDies(h) == /\ ~Is(h, "idle")
                  /\ Hitch("crash")
                  /\ Leave(h)
                  /\ UNCHANGED <<link, object, visits, given, claims, renders, served,
                                 revoked, torn>>
-----------------------------------------------------------------------------
RequestStep(h) == \/ \E j \in Shared, l \in Looks :
                        \/ Mint(h, j, l)
                        \/ \E k \in Keys, i \in BOOLEAN : MintKeyed(h, j, k, l, i)
                  \/ \E v \in Tokens : Revoke(h, v) \/ Serve(h, v)

MintStep(h) == Find(h) \/ Render(h) \/ Upload(h) \/ InsertLink(h) \/ Refind(h)

LinkFault(h) == UploadFails(h) \/ InsertHitch(h) \/ HandlerDies(h)

LinkNext == \/ \E h \in Handlers : \/ RequestStep(h) \/ MintStep(h) \/ LinkFault(h)
                                   \/ Erase(h) \/ DropRow(h) \/ FetchReport(h) \/ Count(h)
            \/ \E v \in Tokens : ExpireLink(v)

LinkSpec == LinkInit /\ [][LinkNext]_linkVars
-----------------------------------------------------------------------------
LinkTypeOK ==
    /\ link \in [Tokens -> LinkRow]
    /\ \A v \in Tokens : link[v] # NoLink => link[v].job \in Shared /\ link[v].look \in Looks
    /\ object \in [Shared -> Looks \union {Missing}]
    /\ handler \in [Handlers -> LinkRequest]
    /\ visits \in 0 .. MaxVisits
    /\ given \subseteq Shared \X Tokens
    /\ claims \in [Keys -> SUBSET Shared]
    /\ renders \in [Tokens -> Nat]
    /\ served \in [Tokens -> Nat]
    /\ revoked \subseteq Tokens
    /\ torn \subseteq Shared
    /\ hitches \in 0 .. MaxLinkFaults

\* What a mint was answered with is a link, to the report of its own job unless the
\* key was sent for another job as well, until that link is revoked: races for a
\* token, rollbacks and faults never leave a client with a link to nothing.
AnsweredLinkExists ==
    \A j \in Shared, v \in Tokens :
        <<j, v>> \in given /\ v \notin revoked
            => /\ link[v] # NoLink
               /\ link[v].job = j \/ (v \in Keys /\ claims[v] # {j})

\* A link has a report to show, whatever failed when it was minted, as long as no
\* link of its job was revoked: the object is there before the row.
LinkHasReport ==
    \A v \in Tokens : link[v] # NoLink => object[link[v].job] # Missing \/ link[v].job \in torn

\* "This is what makes retries free" (reports/service.py:582): for one key and one job
\* the report is uploaded once by each of the requests that race for it at most, and
\* once more for each fault, however often the client repeats the request.
RetriesAreFree ==
    \A k \in Keys : \/ k \in revoked
                    \/ link[k].expired
                    \/ Cardinality(claims[k]) > 1
                    \/ claims[k] \intersect torn # {}
                    \/ renders[k] <= Cardinality(Handlers) + hitches

\* The hits of a link may lack those that were counted at the same time, but count
\* nothing that was not sent, and not all of what was sent is lost.
HitsAreHonest ==
    \A v \in Tokens : link[v] # NoLink
        => link[v].hits <= served[v] /\ (served[v] > 0 => link[v].hits > 0)

\* The rows under token v that requests at some steps are about.
Meant(v, steps) == {handler[h].id : h \in {g \in Handlers : /\ handler[g].token = v
                                                         /\ handler[g].pc \in steps}}

Holder(v) == INSTANCE LinkContract WITH
    id <- link[v].id, job <- link[v].job, look <- link[v].look,
    expired <- link[v].expired, hits <- link[v].hits, served <- served[v],
    doomed <- Meant(v, {"erase", "drop"}), opened <- Meant(v, {"fetch", "count"})

\* Mints, revocations and visits of one token keep LinkContract, however they overlap: a
\* request that has loaded a row does nothing to one that took its place under the key.
ImplementsLinkContract ==
    /\ \A v \in Tokens : Holder(v)!Init
    /\ [][\A v \in Tokens : UNCHANGED Holder(v)!vars \/ Holder(v)!Next]_linkVars
-----------------------------------------------------------------------------
(* What the comments claim. *)

\* "share links keep the broker's chosen brand even if tenant defaults change later"
\* (tasks.py:289), "downstream viewers/share pages see the exact branding the minter
\* chose" (models.py:750): a link shows the report it was minted with.
LinkKeepsItsLook ==
    \A v \in Tokens : link[v] # NoLink => object[link[v].job] \in {link[v].look, Missing}
=============================================================================
