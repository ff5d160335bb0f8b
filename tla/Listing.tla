-------------------------------- MODULE Listing --------------------------------
(***************************************************************************)
(* A client lists a bucket page by page while objects come and go.         *)
(* ListObjectsV2Handler (internal/handler/handler.go) asks the backend for *)
(* a page and groups it by the delimiter.  Azure Files has no paged flat   *)
(* listing: its ListObjectsV2 walks the whole share again for every page   *)
(* and uses the offset in that list as the token.  Azure Blobs pass on a   *)
(* page of the service, without the markers of directories.                *)
(*                                                                         *)
(* A key, a directory and a prefix are sequences of characters.            *)
(***************************************************************************)
EXTENDS Naturals, Sequences, FiniteSets, SequencesExt, Orders

CONSTANTS
    Keys,       \* the objects that there can be
    Order,      \* keys and directories in the order in which the service lists them
    AskedPrefixes, \* the prefixes that clients ask for
    AskedMax,   \* the values of max-keys; 0 stands for none, and for none that is valid
    MaxKeys,    \* 1000 in the code
    Trouble     \* bound on the changes and failures during the listings

ASSUME ListingAssumption ==
    /\ Keys \cup AskedPrefixes \subseteq Seq(STRING)
    /\ AskedMax \subseteq Nat /\ MaxKeys \in Nat \ {0} /\ Trouble \in Nat

VARIABLES
    backend,            \* "blob" or "file", as configured
    files, dirs,        \* what the share or container holds
    client,             \* the listing: its parameters, the token, what was returned so far
    walk,               \* listAllObjects: the directories to visit and the files found
    kept, seen,         \* the objects there all the while, and what happened to others;
                        \* no code reads them
    trouble             \* changes and failures so far

listingVars == <<backend, files, dirs, client, walk, kept, seen, trouble>>

-----------------------------------------------------------------------------
Root == <<>>
Slashes(k) == {i \in DOMAIN k : k[i] = "/"}

\* What path.Dir says, and the directories that createParentDirectories makes.
Parents(k) == {SubSeq(k, 1, i - 1) : i \in Slashes(k)}
DirOf(k) == IF Slashes(k) = {} THEN Root ELSE SubSeq(k, 1, Max(Slashes(k)) - 1)

\* The order has each key and each directory once.
ASSUME OrderAssumption ==
    /\ Order \in Seq(ToSet(Order)) /\ IsInjective(Order)
    /\ \A k \in Keys : {k} \cup (Parents(k) \ {Root}) \subseteq ToSet(Order)

\* Mutated form: the prefix is not looked at.
MatchesAll(k) == TRUE

Matches(k) == IsPrefix(client.prefix, k)

InOrder(S) == Among(Order, S)
Place(k) == CHOOSE i \in DOMAIN Order : Order[i] = k

NoToken == 0
NoWalk == [todo |-> <<>>, found |-> <<>>]

ListingInit ==
    /\ backend \in {"blob", "file"}
    /\ files \in SUBSET Keys
    /\ dirs = {Root} \cup UNION {Parents(k) : k \in files}
    /\ client = [at |-> "idle", prefix |-> <<>>, delimiter |-> FALSE, max |-> MaxKeys,
                 token |-> NoToken, contents |-> <<>>, prefixes |-> {}]
    /\ walk = NoWalk
    /\ kept = {}
    /\ seen = {}
    /\ trouble = 0

\* max-keys as the handler takes it.
PageSize(asked) == IF asked \in 1..MaxKeys THEN asked ELSE MaxKeys

\* A client begins to list.
Begin ==
    /\ client.at \in {"idle", "done"}
    /\ \E prefix \in AskedPrefixes, delimiter \in BOOLEAN, asked \in AskedMax :
          client' = [at |-> "ask", prefix |-> prefix, delimiter |-> delimiter,
                     max |-> PageSize(asked), token |-> NoToken,
                     contents |-> <<>>, prefixes |-> {}]
    /\ kept' = files
    /\ seen' = {}
    /\ UNCHANGED <<files, dirs, walk, trouble>>

-----------------------------------------------------------------------------
(* The handler.                                                            *)

\* Where the delimiter first stands behind the prefix.
Cuts(k) == {i \in Slashes(k) : i > Len(client.prefix)}
Grouped(k) == client.delimiter /\ Cuts(k) # {}
PrefixOf(k) == SubSeq(k, 1, Min(Cuts(k)))

\* A page that came with token next is grouped and returned.
Return(page, next) ==
    client' = [client EXCEPT
        !.contents = @ \o Among(page, {k \in Keys : ~Grouped(k)}),
        !.prefixes = @ \cup {PrefixOf(page[i]) : i \in {j \in DOMAIN page : Grouped(page[j])}},
        !.token = next,
        !.at = IF next = NoToken THEN "done" ELSE "ask"]

-----------------------------------------------------------------------------
(* Azure Files.                                                            *)

\* The client asks for a page, and the walk begins at the root.
Request ==
    /\ backend = "file"
    /\ client.at = "ask"
    /\ client' = [client EXCEPT !.at = "walk"]
    /\ walk' = [todo |-> <<Root>>, found |-> <<>>]
    /\ UNCHANGED <<files, dirs, kept, seen, trouble>>

\* Mutated form: only directories below the prefix are visited.
CouldMatchBelow(d) == IsPrefix(client.prefix, d)

CouldMatch(d) == IsPrefix(d, client.prefix) \/ IsPrefix(client.prefix, d)

\* The listing of one directory, which fits a page of the service: its files,
\* and then its directories, each with all that is in it.
ReadDirectory ==
    /\ client.at = "walk"
    /\ walk.todo # <<>>
    /\ LET d == Head(walk.todo)
           fs == {k \in files : DirOf(k) = d /\ Matches(k)}
           ds == {e \in dirs \ {Root} : DirOf(e) = d /\ CouldMatch(e)}
       IN  walk' = [todo |-> InOrder(ds) \o Tail(walk.todo), found |-> walk.found \o InOrder(fs)]
    /\ UNCHANGED <<files, dirs, client, kept, seen, trouble>>

\* A directory cannot be read: the page is an error, and is asked for again.
DirectoryFails ==
    /\ client.at = "walk"
    /\ walk.todo # <<>>
    /\ trouble < Trouble
    /\ client' = [client EXCEPT !.at = "ask"]
    /\ walk' = NoWalk
    /\ trouble' = trouble + 1
    /\ UNCHANGED <<files, dirs, kept, seen>>

\* A token that is past the end is taken for none.
OffsetOf(all) == IF client.token < Len(all) THEN client.token ELSE 0

\* Mutated form: a page that ends where the list ends has a next one.
NextTokenAlways(all, end) == IF end <= Len(all) THEN end ELSE NoToken

NextToken(all, end) == IF end < Len(all) THEN end ELSE NoToken

Forget == walk' = NoWalk

FilePage ==
    /\ client.at = "walk"
    /\ walk.todo = <<>>
    /\ LET all == walk.found
           end == Min({OffsetOf(all) + client.max, Len(all)})
       IN  Return(SubSeq(all, OffsetOf(all) + 1, end), NextToken(all, end))
    /\ Forget
    /\ UNCHANGED <<files, dirs, kept, seen, trouble>>

-----------------------------------------------------------------------------
(* Azure Blobs.                                                            *)

Behind(S) == {k \in S : Place(k) > client.token}

\* What the service lists behind the marker: what begins with the prefix.  A
\* hierarchical account lists its directories as well.
Later == InOrder(Behind({k \in files \cup (dirs \ {Root}) : Matches(k)}))

\* The next page of the service is what comes first of it.
ServicePage(later) == SubSeq(later, 1, Min({client.max, Len(later)}))

Shown(items) == Among(items, files)

Marker(later) ==
    IF Len(later) > client.max THEN Place(later[client.max]) ELSE NoToken

BlobPage ==
    /\ backend = "blob"
    /\ client.at = "ask"
    /\ \E later \in {Later} : Return(Shown(ServicePage(later)), Marker(later))
    /\ UNCHANGED <<files, dirs, walk, kept, seen, trouble>>

-----------------------------------------------------------------------------
(* Other clients.                                                          *)

Create(k) ==
    /\ trouble < Trouble
    /\ k \notin files
    /\ files' = files \cup {k}
    /\ dirs' = dirs \cup Parents(k)
    /\ seen' = seen \cup {"create"}
    /\ trouble' = trouble + 1
    /\ UNCHANGED <<client, walk, kept>>

\* Directories stay.
Delete(k) ==
    /\ trouble < Trouble
    /\ k \in files
    /\ files' = files \ {k}
    /\ kept' = kept \ {k}
    /\ seen' = seen \cup {"delete"}
    /\ trouble' = trouble + 1
    /\ UNCHANGED <<dirs, client, walk>>

OthersChange == \E k \in Keys : Create(k) \/ Delete(k)
Page == (Request \/ ReadDirectory \/ FilePage \/ BlobPage) /\ UNCHANGED backend

ListingNext == Page \/ ((Begin \/ DirectoryFails \/ OthersChange) /\ UNCHANGED backend)

\* Requests are served, and the client goes on while it gets tokens.
ListingSpec == ListingInit /\ [][ListingNext]_listingVars /\ WF_listingVars(Page)

-----------------------------------------------------------------------------
\* Every variable keeps its type; a parent of an object is a directory.
ListingTypeOK ==
    /\ backend \in {"blob", "file"} /\ files \subseteq Keys
    /\ \A k \in files : Parents(k) \subseteq dirs
    /\ client.at \in {"idle", "ask", "walk", "done"}
    /\ client.token \in 0..Len(Order)
    /\ Range(client.contents) \subseteq Keys
    /\ client.at # "walk" => walk = NoWalk
    /\ seen \subseteq {"create", "delete"}
    /\ trouble \in 0..Trouble

\* What a listing ought to return of the objects S.
Wanted(S) == {k \in S : IsPrefix(client.prefix, k)}
Lists(S) ==
    /\ {k \in Wanted(S) : ~Grouped(k)} \subseteq Range(client.contents)
    /\ {PrefixOf(k) : k \in {k \in Wanted(S) : Grouped(k)}} \subseteq client.prefixes

\* A listing during which nothing was created or deleted returns, over all its
\* pages and whatever pages had to be asked for again, each object with the prefix
\* once and each group, and nothing else.
AtRestIsExact ==
    /\ ListingTypeOK
    /\ client.at = "done" /\ seen = {} =>
        /\ Lists(files)
        /\ IsInjective(client.contents)
        /\ Range(client.contents) \subseteq Wanted(files)
        /\ client.prefixes \subseteq {PrefixOf(k) : k \in {k \in Wanted(files) : Grouped(k)}}

\* An object that was there all the while is listed: creations move offsets only
\* forward, and a marker is a place in the order.  With offsets this needs that
\* nothing is deleted: a deletion moves what follows in front of the token.
KeptIsListed ==
    client.at = "done" /\ (backend = "blob" \/ "delete" \notin seen) => Lists(kept)

\* Every listing ends, also when a token has become too large and the listing
\* starts again, once changes and failures cease.
ListingEnds == (client.at = "ask") ~> (client.at = "done")

=============================================================================
