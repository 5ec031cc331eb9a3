---------------------------- MODULE GitHubMetadata ----------------------------
(***************************************************************************)
(* internal/gitops/github_fetcher.go: the archive of a repository's issues *)
(* and pull requests under github_backup, with the media they refer to.    *)
(* One sync runs at a time (its job holds the lock of the path).  GitHub,  *)
(* external, lists the newest item first and is edited while its pages are *)
(* read: its list is the set of its items, numbered as they are opened.    *)
(* An item refers to at most one asset; that its URL is one of      *)
(* GitHub's is abstracted, and a size is a number of units.  Releases are a  *)
(* third list that is read as the pull requests are, and left out.          *)
(***************************************************************************)
EXTENDS Integers, FiniteSets

CONSTANTS Pulls,         \* the items that are pull requests
          asset,         \* asset[i]: what item i refers to, or NoAsset
          size,          \* size[a]
          NoAsset,
          PageSize,      \* items of a page
          MaxItems,      \* bound: items ever opened
          MaxDownloads,  \* maxMediaDownloadsPerSync
          MaxBytes,      \* maxMediaBytesPerSync
          MaxMedia       \* maxMediaBytes

VARIABLES
    upstream,    \* GitHub's items
    opened,      \* items opened so far
    files,       \* files[l]: items and local links of the JSON file, or Absent
    media,       \* assets in github_backup/media
    pc, list,    \* where the sync is, and on which list
    prs,         \* mirror_pull_requests, as the job loaded it
    page, got,   \* pages read of the list, and their items
    downloadsLeft, bytesLeft,
    todo, local, \* archiveMedia: assets left to ensure, assets now rewritten
    since,       \* history: the list's items when its reading began
    shifted      \* history: an item was deleted while the pages were read

disk == <<files, media>>
github == <<upstream, opened>>
budget == <<downloadsLeft, bytesLeft>>
reading == <<list, prs, page, got, since, shifted>>
rewriting == <<todo, local>>
vars == <<github, disk, pc, reading, budget, rewriting>>

Items == 1..MaxItems
Lists == {"issues", "pulls"}
Absent == [items |-> {}, local |-> {}]
Assets == DOMAIN size

TypeOK ==
    /\ upstream \subseteq Items /\ opened \in 0..MaxItems
    /\ files \in [Lists -> [items : SUBSET Items, local : SUBSET Assets]]
    /\ media \subseteq Assets /\ pc \in {"idle", "page", "media", "write"}
    /\ list \in Lists /\ prs \in BOOLEAN /\ page \in Nat /\ got \subseteq Items
    /\ downloadsLeft \in 0..MaxDownloads /\ bytesLeft \in -1..MaxBytes
    /\ todo \subseteq Assets /\ local \subseteq Assets
    /\ since \subseteq Items /\ shifted \in BOOLEAN

Init ==
    /\ opened = 2 /\ upstream = 1..2
    /\ files = [l \in Lists |-> Absent] /\ media = {}
    /\ pc = "idle" /\ list = "issues" /\ prs = FALSE /\ page = 0 /\ got = {}
    /\ downloadsLeft = MaxDownloads /\ bytesLeft = MaxBytes
    /\ todo = {} /\ local = {} /\ since = {} /\ shifted = FALSE

\* The endpoint of list l: /issues lists pull requests too.
endpoint(l) == IF l = "issues" THEN upstream ELSE upstream \cap Pulls

\* The items of a list that come before item i.
newer(i, all) == {k \in all : k > i}

\* The items kept of a page of l: filterPRs.
keeps(l) == IF l = "pulls" THEN Pulls ELSE IF prs THEN Items \ Pulls ELSE Items

-----------------------------------------------------------------------------
(* GitHub.                                                                 *)

open ==
    /\ opened < MaxItems
    /\ opened' = opened + 1
    /\ upstream' = upstream \cup {opened + 1}
    /\ UNCHANGED <<disk, pc, reading, budget, rewriting>>

\* An item goes (deleted, transferred): the items behind it move up a page.
delete(i) ==
    /\ i \in upstream
    /\ upstream' = upstream \ {i}
    /\ shifted' = (shifted \/ pc = "page")
    /\ UNCHANGED <<opened, disk, pc, list, prs, page, got, since, budget, rewriting>>

-----------------------------------------------------------------------------
(* FetchMetadata.                                                          *)

begin(l) ==
    /\ pc' = "page" /\ list' = l /\ page' = 0 /\ got' = {}
    /\ since' = endpoint(l) /\ shifted' = FALSE

endSync ==
    /\ pc' = "idle" /\ page' = 0 /\ got' = {} /\ since' = {} /\ shifted' = FALSE
    /\ UNCHANGED list

\* FetchMetadata: a sync, with a budget for all its lists.
FetchMetadata ==
    /\ pc = "idle"
    /\ prs' \in BOOLEAN
    /\ \E l \in (IF prs' THEN Lists ELSE {"issues"}) : begin(l)
    /\ downloadsLeft' = MaxDownloads /\ bytesLeft' = MaxBytes
    /\ UNCHANGED <<github, disk, rewriting>>

\* A list is done with or has failed: on to the next one.
nextList ==
    /\ IF list = "issues" /\ prs THEN begin("pulls") ELSE endSync
    /\ todo' = {} /\ local' = {}
    /\ UNCHANGED <<prs, budget>>

\* fetchPaginatedJSON: a page answered 200.  The Link header names the next
\* page unless this is the last one.
fetchPage ==
    LET all == endpoint(list)
        from == page * PageSize
        end == from + PageSize
        onPage == {i \in all : Cardinality(newer(i, all)) \in from..end - 1} IN
    /\ pc = "page"
    /\ got' = got \cup (onPage \cap keeps(list))
    /\ page' = page + 1
    /\ IF end < Cardinality(all)
       THEN UNCHANGED <<pc, rewriting>>
       ELSE /\ pc' = "media"
            /\ todo' = {asset[i] : i \in got'} \ {NoAsset} /\ local' = {}
    /\ UNCHANGED <<github, disk, list, prs, since, shifted, budget>>

\* Mutant: what was read before the error is kept.
abortPublishing ==
    /\ pc = "page" /\ got # {}
    /\ pc' = "write" /\ todo' = {} /\ local' = {}
    /\ UNCHANGED <<github, disk, reading, budget>>

\* fetchPaginatedJSON returns an error: the context is done, the request
\* fails, the status is not 200, or the rate limit is used up for longer than
\* five minutes.  (A shorter wait asks for the same page again: a stutter.)
abort ==
    /\ pc = "page"
    /\ nextList
    /\ UNCHANGED <<github, disk>>

\* ensureMediaAsset: the asset is there already.
present(a) ==
    /\ pc = "media" /\ a \in todo /\ a \in media
    /\ todo' = todo \ {a} /\ local' = local \cup {a}
    /\ UNCHANGED <<github, disk, pc, reading, budget>>

affordable == downloadsLeft > 0 /\ bytesLeft > 0
smaller(m, n) == IF m < n THEN m ELSE n

limit == smaller(MaxMedia, bytesLeft)

\* Mutant: an oversized asset is discarded, its reference rewritten all the same.
downloadRewrites(a) ==
    LET written == smaller(size[a], limit + 1) IN
    /\ pc = "media" /\ a \in todo \ media /\ affordable
    /\ downloadsLeft' = downloadsLeft - 1
    /\ bytesLeft' = bytesLeft - written
    /\ todo' = todo \ {a} /\ local' = local \cup {a}
    /\ media' = IF written > limit THEN media ELSE media \cup {a}
    /\ UNCHANGED <<github, files, pc, reading>>

\* ensureMediaAsset: the body is read up to one byte beyond the limit, and
\* the temporary file renamed if the asset ended by then.
download(a) ==
    LET written == smaller(size[a], limit + 1) IN
    /\ pc = "media" /\ a \in todo \ media /\ affordable
    /\ downloadsLeft' = downloadsLeft - 1
    /\ bytesLeft' = bytesLeft - written
    /\ todo' = todo \ {a}
    /\ IF written > limit
       THEN UNCHANGED <<media, local>>
       ELSE media' = media \cup {a} /\ local' = local \cup {a}
    /\ UNCHANGED <<github, files, pc, reading>>

\* ensureMediaAsset: refused by the budget or by its Content-Length, or the
\* download fails after some bytes.  The reference stays remote.
downloadFails(a) ==
    /\ pc = "media" /\ a \in todo \ media
    /\ IF affordable
       THEN /\ downloadsLeft' = downloadsLeft - 1
            /\ \E n \in 0..smaller(size[a], limit + 1) : bytesLeft' = bytesLeft - n
       ELSE UNCHANGED budget
    /\ todo' = todo \ {a}
    /\ UNCHANGED <<github, disk, pc, reading, local>>

\* archiveMedia returns: nothing is left, the context is done, or the media
\* directory cannot be opened.
archiveMedia ==
    /\ pc = "media"
    /\ pc' = "write"
    /\ UNCHANGED <<github, disk, reading, budget, rewriting>>

\* writeFileReplacing: a new file, renamed over the old one.
writeFileReplacing ==
    /\ pc = "write"
    /\ files' = [files EXCEPT ![list] = [items |-> got, local |-> local]]
    /\ nextList
    /\ UNCHANGED <<github, media>>

\* writeFileReplacing fails, and removes what it wrote.
writeFails ==
    /\ pc = "write"
    /\ nextList
    /\ UNCHANGED <<github, disk>>

\* The process dies; a temporary file may stay, under a name nobody reads.
crash ==
    /\ pc # "idle"
    /\ endSync /\ todo' = {} /\ local' = {}
    /\ UNCHANGED <<github, disk, prs, budget>>

Next ==
    \/ open \/ \E i \in Items : delete(i)
    \/ FetchMetadata \/ fetchPage \/ abort \/ archiveMedia
    \/ writeFileReplacing \/ writeFails \/ crash
    \/ \E a \in Assets : present(a) \/ download(a) \/ downloadFails(a)

Spec == Init /\ [][Next]_vars

-----------------------------------------------------------------------------
\* A list's file is only ever replaced by a whole one: it holds every item
\* that was upstream when the list was begun, for all the pages that failed,
\* the items opened and the crashes meanwhile.  Only an item deleted while
\* the pages are read can hide its neighbour.
MetadataIsWhole ==
    [][\A l \in Lists : files'[l] # files[l] =>
          \/ shifted
          \/ since \cap keeps(l) \subseteq files'[l].items]_vars

\* A reference rewritten to media/ has its asset there.
LinksResolve == \A l \in Lists : files[l].local \subseteq media

\* What one sync reads of media is bounded, all its lists together: the byte
\* beyond the limit that tells an oversized asset is the only excess.
SpendsItsBudget == bytesLeft >= -1 /\ downloadsLeft >= 0
===============================================================================
