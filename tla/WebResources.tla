---------------------------- MODULE WebResources ----------------------------
(***************************************************************************)
(* How the web request handlers answer a request from the file cache       *)
(* (webrequesthandler.cpp, filecache.cpp, virtualdirectorymap.cpp).  The   *)
(* handlers run side by side; each call of the cache is a step under its   *)
(* lock, and between two calls the other handlers, the clock and whoever   *)
(* changes the files go on.  A cache entry is never deleted: a handler     *)
(* keeps using the one it got after another has replaced it.               *)
(*                                                                         *)
(* A file's content is the time it was written at, which is also its time  *)
(* stamp: a file changes, whole, at most once a second.                    *)
(***************************************************************************)
EXTENDS Integers, Sequences, FiniteSets

CONSTANTS
    Handlers,      \* the web request handlers
    Paths,         \* the files the virtual directories lead to
    Targets,      \* the hosts and ports of the requests
    Directories,   \* m_VirtualDirectoryMap: from a host or a port to a path
    Large,         \* the times at which what is written is larger than the cache
    MaxTime        \* bound: how long it goes on, in seconds

ASSUME WebResourcesAssumption ==
    /\ \A r \in Targets : {"host", "port"} \subseteq DOMAIN r
    /\ \A k \in DOMAIN Directories : Directories[k] \in Paths
    /\ Large \subseteq 1 .. MaxTime
    /\ MaxTime \in Nat \ {0}

Absent == 0      \* no file
NoEntry == 0     \* no entry in the cache
NoTag == 0       \* an empty entity tag
NoPath == "no path"

VARIABLES
    now,         \* time(0)
    disk,        \* what each file holds, or Absent
    entries,     \* every cFileCacheEntry ever allocated
    m_Map,       \* cFileCache::m_Map: from a path to an index of entries, or NoEntry
    handler,     \* the members and locals of each handler
    delivered    \* the copies clients have: entity tags with the contents they came with

resourceVars == <<now, disk, entries, m_Map, handler, delivered>>

Idle == [at |-> "idle", m_sPath |-> NoPath, m_sMessageETag |-> NoTag, inCache |-> FALSE,
         pFileEntry |-> NoEntry, fileTimeStamp |-> 0, checked |-> 0, m_Response |-> 0,
         m_sEntityTag |-> NoTag, status |-> 0]

ResourcesInit ==
    /\ now = 1
    /\ disk \in [Paths -> {Absent, 1}]
    /\ entries = <<>>
    /\ m_Map = [p \in Paths |-> NoEntry]
    /\ handler = [h \in Handlers |-> Idle]
    /\ delivered = {}

-----------------------------------------------------------------------------
(* The clock, and whoever keeps the files. *)

Tick ==
    /\ now < MaxTime
    /\ now' = now + 1
    /\ UNCHANGED <<disk, entries, m_Map, handler, delivered>>

\* A file that has not changed in this second is written or deleted.
Change(p) ==
    /\ disk[p] # now
    /\ \E v \in {now, Absent} : disk' = [disk EXCEPT ![p] = v]
    /\ UNCHANGED <<now, entries, m_Map, handler, delivered>>

-----------------------------------------------------------------------------
(* The handlers. *)

At(h, step) == handler[h].at = step
Here(h) == handler[h]
Path(h) == handler[h].m_sPath

\* The handler goes on, with some of its variables changed.
Moves(h, step, changes) ==
    handler' = [handler EXCEPT ![h] =
        [f \in DOMAIN @ |-> IF f = "at" THEN step
                            ELSE IF f \in DOMAIN changes THEN changes[f] ELSE @[f]]]

\* ProcessHTTPHeader: the directory of the host comes first, then the port's.
PathOf(r) ==
    IF r.host \in DOMAIN Directories THEN Directories[r.host]
    ELSE IF r.port \in DOMAIN Directories THEN Directories[r.port] ELSE NoPath

\* Process: a request, with the tag of a copy its client has, or none.
Begin(h, r, etag) ==
    /\ At(h, "idle")
    /\ handler' = [handler EXCEPT ![h] =
                    [Idle EXCEPT !.at = "has", !.m_sPath = PathOf(r), !.m_sMessageETag = etag]]
    /\ UNCHANGED <<now, disk, entries, m_Map, delivered>>

Cached(p) == IF p \in Paths THEN m_Map[p] ELSE NoEntry

HasEntry(h) ==
    /\ At(h, "has")
    /\ LET found == Cached(Path(h)) # NoEntry
       IN Moves(h, IF found THEN "get" ELSE "stat", [inCache |-> found])
    /\ UNCHANGED <<now, disk, entries, m_Map, delivered>>

GetFileEntry(h) ==
    /\ At(h, "get")
    /\ LET e == Cached(Path(h))
       IN Moves(h, "stat", [pFileEntry |-> e, fileTimeStamp |-> entries[e].fileTimeStamp])
    /\ UNCHANGED <<now, disk, entries, m_Map, delivered>>

There_Unchecked(h) == Path(h) \in Paths

\* Whether the file can be opened.
There(h) == Path(h) \in Paths /\ disk[Path(h)] # Absent

\* GetResource looks at the file itself if the entry was not used in this second;
\* of a file that is gone it keeps the entry's time stamp.
Stat(h) ==
    /\ At(h, "stat")
    /\ LET e == Here(h).pFileEntry
           looks == e = NoEntry \/ entries[e].fileLastAccessedTimeStamp < now
       IN Moves(h, "touch", IF looks /\ There(h)
                            THEN [fileTimeStamp |-> disk[Path(h)], checked |-> disk[Path(h)]]
                            ELSE [checked |-> 0])
    /\ UNCHANGED <<now, disk, entries, m_Map, delivered>>

UpdateFileAccessTime(h) ==
    /\ At(h, "touch")
    /\ LET e == Cached(Path(h))
       IN entries' = [i \in DOMAIN entries |->
                        IF i = e THEN [entries[i] EXCEPT !.fileLastAccessedTimeStamp = now]
                        ELSE entries[i]]
    /\ Moves(h, "compare", [inCache |-> Here(h).inCache])
    /\ UNCHANGED <<now, disk, m_Map, delivered>>

\* The client has got its answer; m_sEntityTag comes with it.
Reply(h, status, content, tag) ==
    /\ Moves(h, "done", [status |-> status, m_Response |-> content, m_sEntityTag |-> tag])
    /\ delivered' = IF status = 200 /\ tag # NoTag THEN delivered \cup {<<tag, content>>}
                    ELSE delivered

\* An entry that still has the file's time stamp answers the request.  (That a page
\* with "<?mc" in it is read again is left out.)
FromCache(h) ==
    /\ At(h, "compare")
    /\ Here(h).inCache
    /\ LET e == entries[Here(h).pFileEntry]
       IN /\ e.fileTimeStamp = Here(h).fileTimeStamp
          /\ Reply(h, IF Here(h).m_sMessageETag = e.entityTag THEN 304 ELSE 200,
                   e.fileData, e.entityTag)
    /\ UNCHANGED <<now, disk, entries, m_Map>>

Outdated(h) ==
    /\ At(h, "compare")
    /\ Here(h).inCache =>
         entries[Here(h).pFileEntry].fileTimeStamp # Here(h).fileTimeStamp
    /\ Moves(h, "read", [m_Response |-> 0])
    /\ UNCHANGED <<now, disk, entries, m_Map, delivered>>

\* fopen and fread, from the disk.
ReadFile(h) ==
    /\ At(h, "read")
    /\ IF There(h) THEN Moves(h, "store", [m_Response |-> disk[Path(h)]])
                   ELSE Moves(h, "done", [status |-> 404])
    /\ UNCHANGED <<now, disk, entries, m_Map, delivered>>

StampFor_AtStore(h) == IF disk[Path(h)] = Absent THEN Here(h).fileTimeStamp ELSE disk[Path(h)]

\* The time stamp that the entry gets is the one from before the file was read.
StampFor(h) == Here(h).fileTimeStamp

\* A unique id.
NewTag(h) == Len(entries) + 1

\* Store: a new entry takes the place of the old one, which nobody deletes.
Store(h) ==
    /\ At(h, "store")
    /\ Here(h).m_Response \notin Large
    /\ entries' = Append(entries,
            [fileData |-> Here(h).m_Response, fileTimeStamp |-> StampFor(h),
             fileLastAccessedTimeStamp |-> now, entityTag |-> NewTag(h)])
    /\ m_Map' = [m_Map EXCEPT ![Path(h)] = Len(entries')]
    /\ Moves(h, "tag", [inCache |-> Here(h).inCache])
    /\ UNCHANGED <<now, disk, delivered>>

\* What is too large goes out uncached and without a tag.
TooLarge(h) ==
    /\ At(h, "store")
    /\ Here(h).m_Response \in Large
    /\ Reply(h, 200, Here(h).m_Response, NoTag)
    /\ UNCHANGED <<now, disk, entries, m_Map>>

\* The tag is that of the entry the cache holds by now.
GetEntityTag(h) ==
    /\ At(h, "tag")
    /\ Reply(h, 200, Here(h).m_Response, entries[Cached(Path(h))].entityTag)
    /\ UNCHANGED <<now, disk, entries, m_Map>>

Finish(h) ==
    /\ At(h, "done")
    /\ handler' = [handler EXCEPT ![h] = Idle]
    /\ UNCHANGED <<now, disk, entries, m_Map, delivered>>

TagsGiven == {d[1] : d \in delivered}

ResourcesNext ==
    \/ Tick
    \/ \E p \in Paths : Change(p)
    \/ \E h \in Handlers :
        \/ \E r \in Targets, etag \in TagsGiven \cup {NoTag} : Begin(h, r, etag)
        \/ HasEntry(h) \/ GetFileEntry(h) \/ Stat(h) \/ UpdateFileAccessTime(h)
        \/ FromCache(h) \/ Outdated(h) \/ ReadFile(h) \/ Store(h) \/ TooLarge(h)
        \/ GetEntityTag(h) \/ Finish(h)

ResourcesSpec == ResourcesInit /\ [][ResourcesNext]_resourceVars

-----------------------------------------------------------------------------
ResourcesTypeOK ==
    /\ now \in 1 .. MaxTime
    /\ disk \in [Paths -> 0 .. MaxTime]
    /\ \A i \in DOMAIN entries : entries[i].fileData \in 1 .. now
                                 /\ entries[i].fileTimeStamp \in 0 .. now
                                 /\ entries[i].fileLastAccessedTimeStamp \in 1 .. now
    /\ m_Map \in [Paths -> {NoEntry} \cup DOMAIN entries]
    /\ \A h \in Handlers : Here(h).pFileEntry \in {NoEntry} \cup DOMAIN entries

\* A request that looked at the file gets, or is told it has, what the file held at
\* that moment or something newer, whichever handlers stored which copies meanwhile
\* (webrequesthandler.cpp:443).
CheckedIsFresh ==
    \A h \in Handlers : At(h, "done") /\ Here(h).status \in {200, 304} =>
                            Here(h).m_Response >= Here(h).checked

\* "HTTP/1.1 304 Not Modified" (webrequesthandler.cpp:156): the copies that clients got
\* with the tag are what the cache entry of this tag holds.
NotModifiedIsTrue ==
    \A h \in Handlers : At(h, "done") /\ Here(h).status = 304 =>
        \A d \in delivered : d[1] = Here(h).m_sMessageETag => d[2] = Here(h).m_Response

=============================================================================
