------------------------------ MODULE Catalog ------------------------------
(***************************************************************************)
(* The session catalogue and its paged listing.  The durable rows live in  *)
(* one global database; a listing is a chain of HTTP requests, each of     *)
(* which reads one page under the database lock, so commits of any engine  *)
(* fall between two pages of one listing.  Sources:                        *)
(*   crates/latte-engine/src/storage.rs   the rows, the pages, the cursor  *)
(*   crates/latte-engine/src/lib.rs       the workspace confinement        *)
(*   crates/latte-server/src/http.rs      the endpoints                    *)
(*   crates/latte-code/src/server_client.rs  fetch_all_sessions            *)
(* A row is named by its SQLite rowid: rows are never deleted, so rowids   *)
(* are never used twice.                                                   *)
(***************************************************************************)
EXTENDS Integers, Sequences, FiniteSets

CONSTANTS
    Rowids,     \* the rowids the table may assign, 1..n
    Roots,      \* the workspace roots registered in the database
    Names,      \* the titles a session may have
    PageLimit,  \* sessions in one page (the client asks for 200)
    MaxPages,   \* MAX_SESSION_PAGES of the client, 64
    MaxTime     \* bound on the clock

ASSUME CatalogAssumption ==
    /\ Rowids = 1 .. Cardinality(Rowids)
    /\ PageLimit \in Nat \ {0} /\ MaxPages \in Nat \ {0} /\ MaxTime \in Nat

VARIABLES
    catalog,  \* rowid |-> the row, for the rows inserted so far
    now,      \* the clock the commits stamp rows with
    listing   \* the chain of page requests of one client

catalogVars == <<catalog, now, listing>>

Ids == DOMAIN catalog

(* What a listing asks for: every session, the sessions whose title or id  *)
(* contains a fragment (here: a set of titles), or one exact title.        *)
Queries == {[home |-> w, titles |-> ts] : w \in Roots, ts \in {Names} \cup {{t} : t \in Names}}

NoCursor == [at |-> MaxTime + 1, rowid |-> 0]

NoListing == [phase |-> "idle"]

----------------------------------------------------------------------------
(* The rows. *)

Matches(r, q) == catalog[r].home = q.home /\ catalog[r].title \in q.titles

SortKey(r) == [at |-> catalog[r].at, rowid |-> r]

(* updated_at_ms < c.at OR (updated_at_ms = c.at AND rowid < c.rowid) *)
Below(k, c) == k.at < c.at \/ (k.at = c.at /\ k.rowid < c.rowid)

(* The rows a page statement may return, with the cursor applied. *)
Eligible(q, c) == {r \in Ids : Matches(r, q) /\ Below(SortKey(r), c)}

(* ORDER BY updated_at_ms DESC, rowid DESC *)
Ordered(rows) ==
    [i \in 1 .. Cardinality(rows) |->
        CHOOSE r \in rows :
            Cardinality({s \in rows : Below(SortKey(r), SortKey(s))}) = i - 1]

(* LIMIT PageLimit + 1: one row more than the page tells that another page *)
(* exists.                                                                 *)
Fetched(q, c) == LET o == Ordered(Eligible(q, c))
                 IN SubSeq(o, 1, IF Len(o) > PageLimit THEN PageLimit + 1 ELSE Len(o))

PageItems(f) == SubSeq(f, 1, IF Len(f) > PageLimit THEN PageLimit ELSE Len(f))

(* A fault, for comparison: the cursor is taken from the extra row. *)
NextCursorOfExtra(f) == IF Len(f) > PageLimit THEN SortKey(f[PageLimit + 1]) ELSE NoCursor

(* The cursor of the next page is the key of the last row returned. *)
NextCursor(f) == IF Len(f) > PageLimit THEN SortKey(f[PageLimit]) ELSE NoCursor

----------------------------------------------------------------------------
CatalogInit ==
    /\ catalog = <<>>
    /\ now = 0
    /\ listing = NoListing

(* A session is created, or forked from another one: a new row with the    *)
(* greatest rowid and the title cut from the prompt.                       *)
Insert(home, title) ==
    /\ Len(catalog) < Cardinality(Rowids)
    /\ catalog' = Append(catalog, [home |-> home, title |-> title, at |-> now])
    /\ UNCHANGED <<now, listing>>

(* What the ongoing listing has been promised of a row ends when the row   *)
(* changes its place or its title; a specification variable.               *)
Moved(r) == IF listing.phase = "paging" THEN [listing EXCEPT !.still = @ \ {r}] ELSE listing

(* Every commit of a session stamps its row with the time of the commit. *)
Touch(r) ==
    /\ r \in Ids
    /\ catalog[r].at # now
    /\ catalog' = [catalog EXCEPT ![r].at = now]
    /\ listing' = Moved(r)
    /\ UNCHANGED now

(* A rename is confined to the engine's workspace, and leaves the row's    *)
(* place in the order alone.                                               *)
Rename(home, r, title) ==
    /\ r \in Ids
    /\ catalog[r].home = home
    /\ title # catalog[r].title
    /\ catalog' = [catalog EXCEPT ![r].title = title]
    /\ listing' = Moved(r)
    /\ UNCHANGED now

PassTime ==
    /\ now < MaxTime
    /\ now' = now + 1
    /\ UNCHANGED <<catalog, listing>>

(* The client begins a listing; "still" records which rows matched then.   *)
BeginListing(q) ==
    /\ listing.phase # "paging"
    /\ listing' = [phase |-> "paging", query |-> q, cursor |-> NoCursor, pages |-> 0,
                   got |-> <<>>, still |-> {r \in Ids : Matches(r, q)}]
    /\ UNCHANGED <<catalog, now>>

(* The outcome of one page for the loop of the client. *)
AfterPage(f, pages) ==
    CASE Len(f) <= PageLimit -> "listed"
      [] Len(f) > PageLimit /\ pages < MaxPages -> "paging"
      [] OTHER -> "exceeded"

(* One GET: the page is read under the database lock, the client appends   *)
(* it and follows the cursor.                                              *)
FetchPage ==
    /\ listing.phase = "paging"
    /\ LET f == Fetched(listing.query, listing.cursor)
       IN listing' = [listing EXCEPT
              !.got = @ \o PageItems(f),
              !.pages = @ + 1,
              !.cursor = NextCursor(f),
              !.phase = AfterPage(f, listing.pages + 1)]
    /\ UNCHANGED <<catalog, now>>

(* The engine's unpaged reads: every matching session in one statement ... *)
ListAtOnce(q) ==
    /\ listing.phase # "paging"
    /\ listing' = [phase |-> "listed", query |-> q, cursor |-> NoCursor, pages |-> 1,
                   got |-> Ordered(Eligible(q, NoCursor)),
                   still |-> {r \in Ids : Matches(r, q)}]
    /\ UNCHANGED <<catalog, now>>

(* ... or the newest ones up to a cap, of which the summaries, the search  *)
(* and the exact title promise no more.                                    *)
ListCapped(q) ==
    /\ listing.phase # "paging"
    /\ listing' = [phase |-> "capped", query |-> q, cursor |-> NoCursor, pages |-> 1,
                   got |-> PageItems(Fetched(q, NoCursor)), still |-> {}]
    /\ UNCHANGED <<catalog, now>>

(* The answer of a listing is used; only its outcome remains. *)
Forget ==
    /\ listing.phase \in {"listed", "capped", "exceeded"}
    /\ listing' = NoListing
    /\ UNCHANGED <<catalog, now>>

CatalogNext ==
    \/ \E w \in Roots, t \in Names : Insert(w, t)
    \/ \E r \in Rowids : Touch(r)
    \/ \E w \in Roots, r \in Rowids, t \in Names : Rename(w, r, t)
    \/ \E q \in Queries : BeginListing(q)
    \/ FetchPage
    \/ \E q \in Queries : ListAtOnce(q) \/ ListCapped(q)
    \/ Forget
    \/ PassTime

CatalogSpec == CatalogInit /\ [][CatalogNext]_catalogVars

----------------------------------------------------------------------------
(* Properties *)

(* No session is returned twice by one listing, whatever commits between   *)
(* its pages: fetch_all_sessions concatenates the pages without looking    *)
(* for duplicates, so the keyset must exclude every row already returned   *)
(* although the commits keep moving rows to the front.                     *)
ListedOnce ==
    listing.phase # "idle" =>
        \A i, j \in DOMAIN listing.got : listing.got[i] = listing.got[j] => i = j

(* A listing that ends holds every session that matched when it began and  *)
(* was neither committed to nor renamed meanwhile, also where several      *)
(* sessions carry the same millisecond across a page boundary.             *)
UntouchedIsListed ==
    listing.phase = "listed" =>
        \A r \in listing.still : \E i \in DOMAIN listing.got : listing.got[i] = r

(* The client gives up only when there was more than its page bound holds: *)
(* a workspace that fills the last page exactly is listed.                 *)
GivesUpOnlyBeyondBound ==
    listing.phase = "exceeded" => /\ Len(listing.got) = MaxPages * PageLimit
                                  /\ listing.cursor # NoCursor

(* The invariants of the catalog together.                                 *)
CatalogCorrect == ListedOnce /\ UntouchedIsListed /\ GivesUpOnlyBeyondBound
=============================================================================
