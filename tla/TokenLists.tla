----------------------------- MODULE TokenLists -----------------------------
(***************************************************************************)
(* state/lists: the token lists, fetched when they are missing and every   *)
(* ten minutes, and updated by themselves or through a popup.  Answers     *)
(* come in any order, and a failed request takes away the list it was to   *)
(* refresh.  A version is a number; getVersionUpgrade compares its major   *)
(* part, and minVersionBump what became of the tokens.                     *)
(*                                                                         *)
(* Lists are not kept in the localStorage, and the panel that adds,        *)
(* selects and removes them (ListSelect) is behind a button that is never  *)
(* rendered: the lists are DEFAULT_LIST_OF_LISTS.                          *)
(***************************************************************************)
EXTENDS Integers, FiniteSets

CONSTANTS
  ListUrls,        \* DEFAULT_LIST_OF_LISTS
  DefaultList,     \* DEFAULT_TOKEN_LIST_URL, which comes with the program
  majorOf,         \* the major part of each version
  Breaking,        \* versions that take away tokens of the one before
  MaxListRequests, \* bound: unanswered requests of a list
  MaxListMoves     \* bound: publications, intervals, visibility

ASSUME ListAssumption ==
  /\ DefaultList \in ListUrls
  /\ \A v \in DOMAIN majorOf : v \in Nat \ {0} /\ majorOf[v] \in Nat
  /\ MaxListRequests \in Nat /\ MaxListMoves \in Nat

VARIABLES
  published,    \* the version the server has of each list
  byUrl,        \* state.lists.byUrl; version 0 for null, request 0 for none
  seenByUrl,    \* the lists the updater's effects last saw
  listRequests, \* unanswered requests
  listPopups,   \* popups of updates, the key being the list's URL
  listsVisible, \* useIsWindowVisible
  listMoves

listVars == <<published, byUrl, seenByUrl, listRequests, listPopups, listsVisible, listMoves>>

NEW_LIST_STATE == [current |-> 0, pendingUpdate |-> 0, loadingRequestId |-> 0, error |-> FALSE]
initialLists ==
  [u \in ListUrls |-> IF u = DefaultList THEN [NEW_LIST_STATE EXCEPT !.current = 1]
                      ELSE NEW_LIST_STATE]

ListsInit ==
  /\ published = [u \in ListUrls |-> 1]
  /\ byUrl = initialLists
  /\ seenByUrl = [u \in ListUrls |-> NEW_LIST_STATE]
  /\ listRequests = {} /\ listPopups = {}
  /\ listsVisible = TRUE /\ listMoves = 0

ListMove == listMoves < MaxListMoves /\ listMoves' = listMoves + 1

-----------------------------------------------------------------------------
getVersionUpgrade(old, new) ==
  IF new <= old THEN "NONE" ELSE IF majorOf[new] > majorOf[old] THEN "MAJOR" ELSE "MINOR"
breaks(old, new) == \E v \in Breaking : old < v /\ v <= new

(* The reducer's cases of a list l.                                        *)
fetchPending(l, id) == [l EXCEPT !.loadingRequestId = id, !.error = FALSE]

fetchFulfilled_AnyVersion(l, id, new) ==
  IF l.current # 0
  THEN IF l.loadingRequestId \in {0, id}
       THEN [l EXCEPT !.loadingRequestId = 0, !.error = FALSE, !.pendingUpdate = new] ELSE l
  ELSE [NEW_LIST_STATE EXCEPT !.current = new]
fetchFulfilled(l, id, new) ==
  IF l.current # 0
  THEN IF getVersionUpgrade(l.current, new) # "NONE" /\ l.loadingRequestId \in {0, id}
       THEN [l EXCEPT !.loadingRequestId = 0, !.error = FALSE, !.pendingUpdate = new] ELSE l
  ELSE [NEW_LIST_STATE EXCEPT !.current = new]

fetchRejected(l, id) ==
  IF l.loadingRequestId # id THEN l ELSE [NEW_LIST_STATE EXCEPT !.error = TRUE]

acceptListUpdate(l) == [l EXCEPT !.pendingUpdate = 0, !.current = l.pendingUpdate]

-----------------------------------------------------------------------------
(* fetchList: a request with an id of its own.                             *)
requestIds(u) == {q.id : q \in {r \in listRequests : r.url = u}} \cup {byUrl[u].loadingRequestId}
freshId(u) == CHOOSE i \in 1 .. MaxListRequests + 1 : i \notin requestIds(u)
canFetch(u) == Cardinality({q \in listRequests : q.url = u}) < MaxListRequests
requestsFor(S) == {[url |-> u, id |-> freshId(u), since |-> published[u]] : u \in S}

(* The updater's effects on [lists]: what is neither loaded nor loading    *)
(* nor failed is fetched; a patch or minor update is accepted when it      *)
(* breaks nothing, a major one offered in a popup that stays.              *)
missing == {u \in ListUrls :
  byUrl[u].current = 0 /\ byUrl[u].loadingRequestId = 0 /\ ~byUrl[u].error}
updated == {u \in ListUrls : byUrl[u].current # 0 /\ byUrl[u].pendingUpdate # 0}
bump(u) == getVersionUpgrade(byUrl[u].current, byUrl[u].pendingUpdate)
automatic(u) == /\ u \in updated /\ bump(u) = "MINOR"
                /\ ~breaks(byUrl[u].current, byUrl[u].pendingUpdate)
popupOf(u) == [key |-> u, oldList |-> byUrl[u].current, newList |-> byUrl[u].pendingUpdate,
               auto |-> automatic(u)]

ListsUpdater ==
  /\ seenByUrl # byUrl /\ seenByUrl' = byUrl
  /\ \A u \in missing : canFetch(u)
  /\ listRequests' = listRequests \cup requestsFor(missing)
  /\ byUrl' = [u \in ListUrls |->
       IF u \in missing THEN fetchPending(byUrl[u], freshId(u))
       ELSE IF automatic(u) THEN acceptListUpdate(byUrl[u]) ELSE byUrl[u]]
  /\ LET announced == {u \in updated : automatic(u) \/ bump(u) = "MAJOR"} IN
     listPopups' = {p \in listPopups : p.key \notin announced}
                     \cup {popupOf(u) : u \in announced}
  /\ UNCHANGED <<published, listsVisible, listMoves>>

(* useInterval: every ten minutes, on a page that is visible.              *)
fetchAllListsCallback ==
  /\ ListMove
  /\ listsVisible /\ \A u \in ListUrls : canFetch(u)
  /\ listRequests' = listRequests \cup requestsFor(ListUrls)
  /\ byUrl' = [u \in ListUrls |-> fetchPending(byUrl[u], freshId(u))]
  /\ UNCHANGED <<published, seenByUrl, listPopups, listsVisible>>

(* getTokenList: DEFAULT_TOKEN_LIST_URL is answered by the program, any    *)
(* other list by its server, with what it had since the request was made.  *)
ListFetched(q) ==
  /\ \E v \in q.since .. published[q.url] :
       byUrl' = [byUrl EXCEPT ![q.url] = fetchFulfilled(@, q.id, v)]
  /\ listRequests' = listRequests \ {q}
  /\ UNCHANGED <<published, seenByUrl, listPopups, listsVisible, listMoves>>

ListFetchFailed(q) ==
  /\ q.url # DefaultList
  /\ byUrl' = [byUrl EXCEPT ![q.url] = fetchRejected(@, q.id)]
  /\ listRequests' = listRequests \ {q}
  /\ UNCHANGED <<published, seenByUrl, listPopups, listsVisible, listMoves>>

ListAnswers(u, i) ==
  \E q \in listRequests : q.url = u /\ q.id = i /\ (ListFetched(q) \/ ListFetchFailed(q))

-----------------------------------------------------------------------------
(* The popup's buttons.  The reducer throws without a pending update, and  *)
(* the popup stays.                                                        *)
handleAcceptUpdate(p) ==
  /\ ~p.auto /\ seenByUrl = byUrl
  /\ byUrl[p.key].pendingUpdate # 0
  /\ byUrl' = [byUrl EXCEPT ![p.key] = acceptListUpdate(@)]
  /\ listPopups' = listPopups \ {p}
  /\ UNCHANGED <<published, seenByUrl, listRequests, listsVisible, listMoves>>

removeThisPopup(p) ==
  /\ listPopups' = listPopups \ {p}
  /\ UNCHANGED <<published, byUrl, seenByUrl, listRequests, listsVisible, listMoves>>

Publish(u) ==
  /\ ListMove
  /\ u # DefaultList /\ published[u] + 1 \in DOMAIN majorOf
  /\ published' = [published EXCEPT ![u] = @ + 1]
  /\ UNCHANGED <<byUrl, seenByUrl, listRequests, listPopups, listsVisible>>

ListsHide ==
  /\ ListMove /\ listsVisible' = ~listsVisible
  /\ UNCHANGED <<published, byUrl, seenByUrl, listRequests, listPopups>>

ListsNext ==
  \/ ListsUpdater \/ fetchAllListsCallback \/ ListsHide
  \/ \E q \in listRequests : ListFetched(q) \/ ListFetchFailed(q)
  \/ \E p \in listPopups : handleAcceptUpdate(p) \/ removeThisPopup(p)
  \/ \E u \in ListUrls : Publish(u)

ListsSpec == ListsInit /\ [][ListsNext]_listVars

-----------------------------------------------------------------------------
(* A list is only ever offered a version newer than it has, whatever       *)
(* requests overtook each other: the updater's "unexpected no version      *)
(* bump" is never thrown, and no update takes a list back.                 *)
UpdatesAreNewer ==
  \A u \in ListUrls : LET l == byUrl[u] IN
    l.pendingUpdate # 0 => l.current # 0 /\ bump(u) # "NONE"
=============================================================================
