----------------------------- MODULE KubeWatch ------------------------------
(***************************************************************************)
(* The Kubernetes watch cache of esmagent: a thread that lists the objects  *)
(* of a role page by page, then watches for changes from the listed         *)
(* resourceVersion on, resuming the watch from the latest version it has    *)
(* seen, and listing again only when the server no longer has that version. *)
(*                                                                         *)
(* The API server is external: a history of versions, of which it keeps the *)
(* recent ones.  A version changes an object of the role or something else. *)
(* A list is a consistent state, not necessarily the newest one (the request *)
(* asks for resourceVersion=0), and a watch delivers changes in order;      *)
(* bookmarks tell how far the server has come.  Delays between attempts are  *)
(* left out: any step may take any time.                                   *)
(***************************************************************************)
EXTENDS Naturals, Sequences

CONSTANTS
  Objects,      \* keys of the role's objects
  MaxVersions,  \* bound on versions
  MaxApiFaults  \* bound on failed requests and broken streams

ASSUME KubeAssumption == MaxVersions \in Nat \ {0} /\ MaxApiFaults \in Nat

VARIABLES
  history,   \* states of the role's objects: history[v] is that of version v
  floor,     \* the oldest version a watch may start from
  kw,        \* the watcher thread
  objects,   \* its cache: object -> version of it, 0 if absent
  apiFaults

kubeVars == <<history, floor, kw, objects, apiFaults>>

Empty == [o \in Objects |-> 0]
Newest == Len(history)

\* rv = 0 stands for None.
KubeInit ==
  /\ history = <<Empty>> /\ floor = 1 /\ apiFaults = 0
  /\ objects = Empty
  /\ kw = [pc |-> "list", rv |-> 0, at |-> 0, left |-> {}, got |-> Empty, stop |-> FALSE]

-----------------------------------------------------------------------------
(* The API server                                                          *)

ObjectChanges(o) ==
  /\ Newest < MaxVersions
  /\ \E present \in BOOLEAN :
       history' = Append(history,
                    [history[Newest] EXCEPT ![o] = IF present THEN Newest + 1 ELSE 0])
  /\ UNCHANGED <<floor, kw, objects, apiFaults>>

OtherChanges ==
  /\ Newest < MaxVersions
  /\ history' = Append(history, history[Newest])
  /\ UNCHANGED <<floor, kw, objects, apiFaults>>

Compact ==
  /\ \E v \in floor + 1 .. Newest : floor' = v
  /\ UNCHANGED <<history, kw, objects, apiFaults>>

-----------------------------------------------------------------------------
(* LIST                                                                    *)

replace_cache(listed) == objects' = listed

\* The first page.
list_all ==
  /\ kw.pc = "list" /\ kw.rv = 0 /\ ~kw.stop
  /\ \E v \in floor..Newest :
       kw' = [kw EXCEPT !.pc = "pages", !.at = v, !.got = Empty,
                        !.left = {o \in Objects : history[v][o] # 0}]
  /\ UNCHANGED <<history, floor, objects, apiFaults>>

\* Mutant: every page goes into the cache at once.
list_page_Direct(o) ==
  /\ kw.pc = "pages" /\ ~kw.stop /\ o \in kw.left
  /\ kw' = [kw EXCEPT !.left = @ \ {o}, !.got[o] = history[kw.at][o]]
  /\ objects' = [objects EXCEPT ![o] = history[kw.at][o]]
  /\ UNCHANGED <<history, floor, apiFaults>>

\* A page more, as long as there is a continue token.
list_page(o) ==
  /\ kw.pc = "pages" /\ ~kw.stop /\ o \in kw.left
  /\ kw' = [kw EXCEPT !.left = @ \ {o}, !.got[o] = history[kw.at][o]]
  /\ UNCHANGED <<history, floor, objects, apiFaults>>

\* An expired token (410), or an error: everything is listed once more.
ListFails ==
  /\ kw.pc = "pages"
  /\ \/ kw.left # {} /\ kw.at < floor /\ UNCHANGED apiFaults
     \/ apiFaults < MaxApiFaults /\ apiFaults' = apiFaults + 1
  /\ kw' = [kw EXCEPT !.pc = "list", !.got = Empty, !.left = {}]
  /\ UNCHANGED <<history, floor, objects>>

\* The last page: the cache is replaced, and watched from the listed version on.
ListEnds ==
  /\ kw.pc = "pages" /\ kw.left = {}
  /\ replace_cache(kw.got)
  /\ kw' = [kw EXCEPT !.pc = "watch", !.rv = kw.at, !.got = Empty]
  /\ UNCHANGED <<history, floor, apiFaults>>

-----------------------------------------------------------------------------
(* WATCH                                                                   *)

\* Mutant: the version is kept when the server says that it is gone.
Gone_Keep == [kw EXCEPT !.pc = "watch"]

\* WatchEnd::Gone: nothing to resume from.
Gone == [kw EXCEPT !.pc = "list", !.rv = 0]

\* Mutant: the version is lost with the stream.
Resume_Drop == [kw EXCEPT !.pc = "watch", !.rv = 0]

\* WatchEnd::Closed and WatchEnd::Errored: resume from the latest version.
Resume == [kw EXCEPT !.pc = "watch"]

watch_once ==
  /\ kw.pc = "watch" /\ ~kw.stop
  /\ kw' = IF kw.rv < floor THEN Gone ELSE [kw EXCEPT !.pc = "stream"]
  /\ UNCHANGED <<history, floor, objects, apiFaults>>

WatchFails ==
  /\ kw.pc \in {"watch", "stream"} /\ apiFaults < MaxApiFaults
  /\ apiFaults' = apiFaults + 1
  /\ kw' = Resume
  /\ UNCHANGED <<history, floor, objects>>

\* The next version after rv that changes an object of the role.
NextChange(rv) ==
  {v \in rv + 1 .. Newest : history[v] # history[v - 1]
                            /\ \A w \in rv + 1 .. v - 1 : history[w] = history[w - 1]}

\* Mutant: only additions and modifications are applied.
apply_watch_line_NoDelete(v) ==
  /\ kw' = [kw EXCEPT !.rv = v]
  /\ objects' = [o \in Objects |->
       IF history[v][o] # history[v - 1][o] /\ history[v][o] # 0 THEN history[v][o] ELSE objects[o]]

\* ADDED, MODIFIED, DELETED: the version is taken, the object put or removed.
apply_watch_line(v) ==
  /\ kw' = [kw EXCEPT !.rv = v]
  /\ objects' = [o \in Objects |->
       IF history[v][o] # history[v - 1][o] THEN history[v][o] ELSE objects[o]]

StreamEvent ==
  /\ kw.pc = "stream" /\ ~kw.stop
  /\ \E v \in NextChange(kw.rv) : apply_watch_line(v)
  /\ UNCHANGED <<history, floor, apiFaults>>

\* BOOKMARK: sent by the server up to where it has no changes for the role.
Bookmark ==
  /\ kw.pc = "stream" /\ ~kw.stop
  /\ \E v \in kw.rv + 1 .. Newest :
       /\ \A w \in kw.rv + 1 .. v : history[w] = history[w - 1]
       /\ kw' = [kw EXCEPT !.rv = v]
  /\ UNCHANGED <<history, floor, objects, apiFaults>>

\* An ERROR event with code 410, when the stream lags behind what is kept.
StreamGone ==
  /\ kw.pc = "stream" /\ kw.rv < floor /\ NextChange(kw.rv) # {}
  /\ kw' = Gone
  /\ UNCHANGED <<history, floor, objects, apiFaults>>

\* The server closes the stream after timeoutSeconds.
StreamCloses ==
  /\ kw.pc = "stream"
  /\ kw' = Resume
  /\ UNCHANGED <<history, floor, objects, apiFaults>>

stop_watcher ==
  /\ ~kw.stop
  /\ kw' = [kw EXCEPT !.stop = TRUE]
  /\ UNCHANGED <<history, floor, objects, apiFaults>>

\* The flag is looked at before every request, page and line.
WatcherExits ==
  /\ kw.stop /\ kw.pc # "exited"
  /\ kw' = [kw EXCEPT !.pc = "exited"]
  /\ UNCHANGED <<history, floor, objects, apiFaults>>

WatcherWorks ==
  list_all \/ (\E o \in Objects : list_page(o)) \/ ListEnds \/ watch_once \/ WatcherExits

KubeNext ==
  \/ \E o \in Objects : ObjectChanges(o)
  \/ OtherChanges \/ Compact
  \/ WatcherWorks \/ ListFails \/ WatchFails
  \/ StreamEvent \/ Bookmark \/ StreamGone \/ StreamCloses \/ stop_watcher

KubeSpec == KubeInit /\ [][KubeNext]_kubeVars
-----------------------------------------------------------------------------
(* Properties                                                              *)

KubeTypeOK ==
  /\ history \in Seq([Objects -> 0..MaxVersions]) /\ Newest \in 1..MaxVersions
  /\ floor \in 1..Newest /\ apiFaults \in 0..MaxApiFaults
  /\ kw.pc \in {"list", "pages", "watch", "stream", "exited"}
  /\ kw.rv \in 0..Newest /\ (kw.pc \in {"watch", "stream"} => kw.rv # 0)
  /\ (kw.pc \in {"list", "pages"} => kw.rv = 0)
  /\ objects \in [Objects -> 0..Newest]

\* While the thread has a version to watch from, the cache is the state of the
\* objects at that version: no change is lost or applied twice when a watch is
\* resumed, when the server forgets versions, or when pages were listed anew, and
\* no deleted object stays.
CacheAtVersion == kw.rv # 0 => objects = history[kw.rv]

\* The cache is a state that the server had at some time, also while a new list
\* is on its way: targets are never built from a mixture of two lists.
CacheWasReal == \E v \in 1..Newest : objects = history[v]

\* Once the objects change no more, the cache becomes what they are, however many
\* watches broke or went stale, unless the watcher is stopped.
CacheCatchesUp == <>[](kw.stop \/ objects = history[Newest])

\* The cache of the watcher is one state of the objects, the one of the version it watches
\* from, over broken watches, compaction and partial lists (run, list_all, apply_watch_line).
WatchSound == KubeTypeOK /\ CacheAtVersion /\ CacheWasReal
=============================================================================
