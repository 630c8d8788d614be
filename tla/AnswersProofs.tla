---------------------------- MODULE AnswersProofs ----------------------------
(***************************************************************************)
(* What answers are made of.  The file cache: for any number of handlers   *)
(* and files, whoever changes the files when, a request that looked at its *)
(* file is not answered with anything older than what it saw.  The header: *)
(* whatever clients write, an answer goes to the socket of its client or   *)
(* to the address in the tag that was read, and this is the address meant  *)
(* if the tag was read as it was meant.                                    *)
(***************************************************************************)
EXTENDS MsgHeader, WebResources, SequenceTheorems, TLAPS

HandlerFields == {"at", "m_sPath", "m_sMessageETag", "inCache", "pFileEntry", "fileTimeStamp",
           "checked", "m_Response", "m_sEntityTag", "status"}

EntryType == [fileData : Nat, fileTimeStamp : Nat, fileLastAccessedTimeStamp : Nat,
              entityTag : Nat]

\* At time t, with the files d, the time stamp s is no later than the file p.
NotNewer(s, p, t, d) == s \in 0 .. t /\ (d[p] = Absent \/ s <= d[p])

WorldOK(t, d) == t \in 1 .. MaxTime /\ d \in [Paths -> 0 .. t]

\* What an entry holds is no older than its time stamp.
EntriesOK(es, t) ==
    /\ es \in Seq(EntryType)
    /\ \A i \in 1 .. Len(es) :
        /\ es[i].fileData \in 1 .. t
        /\ es[i].fileTimeStamp \in 0 .. es[i].fileData
        /\ es[i].fileLastAccessedTimeStamp \in 1 .. t

MapOK(m, es, t, d) ==
    /\ m \in [Paths -> 0 .. Len(es)]
    /\ \A p \in Paths : m[p] # NoEntry => NotNewer(es[m[p]].fileTimeStamp, p, t, d)

\* What a handler r knows at time t, of the files d, n entries and the map m.
HandlerOK(r, t, d, n, m) ==
    /\ DOMAIN r = HandlerFields
    /\ r.m_sPath \in Paths \cup {NoPath}
    /\ r.inCache \in BOOLEAN /\ r.pFileEntry \in 0 .. n
    /\ r.fileTimeStamp \in 0 .. t /\ r.checked \in 0 .. t /\ r.m_Response \in 0 .. t
    /\ r.m_sPath \in Paths => NotNewer(r.fileTimeStamp, r.m_sPath, t, d)
    /\ r.at = "get" => r.m_sPath \in Paths /\ m[r.m_sPath] # NoEntry
    /\ r.at \in {"stat", "touch", "compare"} /\ r.inCache => r.pFileEntry # NoEntry
    /\ r.at \in {"touch", "compare", "read"} => r.checked \in {0, r.fileTimeStamp}
    /\ r.at \in {"store", "tag"} =>
         /\ r.m_sPath \in Paths /\ r.m_Response # 0
         /\ r.fileTimeStamp <= r.m_Response /\ r.checked <= r.m_Response
    /\ r.at = "done" /\ r.status \in {200, 304} => r.checked <= r.m_Response

\* The inductive invariant: time stamps of entries and of handlers on their way are no
\* later than the file.
StampInv ==
    /\ WorldOK(now, disk)
    /\ EntriesOK(entries, now)
    /\ MapOK(m_Map, entries, now, disk)
    /\ handler = [h \in Handlers |-> handler[h]]
    /\ \A h \in Handlers : HandlerOK(handler[h], now, disk, Len(entries), m_Map)

\* Time goes on, files change, entries and paths are added to the cache.
Grows(t, d, n, m, t2, d2, n2, m2) ==
    /\ t2 \in Nat /\ t <= t2 /\ n2 \in Nat /\ n <= n2
    /\ \A p \in Paths : d2[p] \in {Absent, d[p], t}
    /\ \A p \in Paths : m[p] # NoEntry => m2[p] # NoEntry

LEMMA HandlerStays ==
    ASSUME NEW r, NEW t \in Nat, NEW d, NEW n \in Nat, NEW m, HandlerOK(r, t, d, n, m),
           NEW t2, NEW d2, NEW n2, NEW m2, Grows(t, d, n, m, t2, d2, n2, m2)
    PROVE  HandlerOK(r, t2, d2, n2, m2)
  <1>1. r.m_sPath \in Paths => NotNewer(r.fileTimeStamp, r.m_sPath, t2, d2)
    BY DEF HandlerOK, Grows, NotNewer
  <1>2. r.pFileEntry \in 0 .. n2
    BY DEF HandlerOK, Grows
  <1>3. r.fileTimeStamp \in 0 .. t2 /\ r.checked \in 0 .. t2 /\ r.m_Response \in 0 .. t2
    BY DEF HandlerOK, Grows
  <1>4. r.at = "get" => r.m_sPath \in Paths /\ m2[r.m_sPath] # NoEntry
    BY DEF HandlerOK, Grows
  <1> QED BY <1>1, <1>2, <1>3, <1>4 DEF HandlerOK

\* What Moves does to the handlers.
LEMMA Moved ==
    ASSUME handler = [g \in Handlers |-> handler[g]], NEW h \in Handlers,
           DOMAIN handler[h] = HandlerFields, NEW step, NEW changes, Moves(h, step, changes)
    PROVE  /\ handler' = [g \in Handlers |-> handler'[g]]
           /\ \A g \in Handlers \ {h} : handler'[g] = handler[g]
           /\ DOMAIN handler'[h] = HandlerFields
           /\ handler'[h].at = step
           /\ \A f \in HandlerFields \ {"at"} :
                handler'[h][f] = IF f \in DOMAIN changes THEN changes[f] ELSE handler[h][f]
  <1> DEFINE new == [f \in DOMAIN handler[h] |->
                        IF f = "at" THEN step
                        ELSE IF f \in DOMAIN changes THEN changes[f] ELSE handler[h][f]]
  <1>1. handler' = [handler EXCEPT ![h] = new]
    BY DEF Moves
  <1>2. DOMAIN handler = Handlers
    OBVIOUS
  <1>3. DOMAIN new = HandlerFields /\ new["at"] = step
        /\ \A f \in HandlerFields \ {"at"} :
             new[f] = IF f \in DOMAIN changes THEN changes[f] ELSE handler[h][f]
    BY DEF HandlerFields
  <1> HIDE DEF new
  <1>4. handler'[h] = new /\ \A g \in Handlers \ {h} : handler'[g] = handler[g]
    BY <1>1, <1>2
  <1>5. handler' = [g \in Handlers |-> handler'[g]]
    BY <1>1, <1>2
  <1> QED BY <1>3, <1>4, <1>5

-----------------------------------------------------------------------------
(* The steps.  Whatever the others do, a handler that does not move stays OK. *)

LEMMA OthersStay ==
    ASSUME StampInv, NEW h \in Handlers,
           \A g \in Handlers \ {h} : handler'[g] = handler[g],
           now' = now, Len(entries') \in Nat, Len(entries) <= Len(entries'), disk' = disk,
           \A p \in Paths : m_Map[p] # NoEntry => m_Map'[p] # NoEntry
    PROVE  \A g \in Handlers \ {h} :
             HandlerOK(handler'[g], now', disk', Len(entries'), m_Map')
  <1>0. now \in Nat /\ Len(entries) \in Nat
    BY DEF StampInv, WorldOK, EntriesOK
  <1>1. Grows(now, disk, Len(entries), m_Map, now', disk', Len(entries'), m_Map')
    BY <1>0 DEF Grows
  <1> SUFFICES ASSUME NEW g \in Handlers \ {h}
               PROVE  HandlerOK(handler[g], now', disk', Len(entries'), m_Map')
    OBVIOUS
  <1>2. HandlerOK(handler[g], now, disk, Len(entries), m_Map)
    BY DEF StampInv
  <1> QED BY <1>0, <1>1, <1>2, HandlerStays

\* A handler that goes on without changing what the handlers share.
LEMMA OneMoves ==
    ASSUME StampInv, NEW h \in Handlers, NEW step, NEW changes, Moves(h, step, changes),
           UNCHANGED <<now, disk, entries, m_Map>>,
           HandlerOK(handler'[h], now, disk, Len(entries), m_Map)
    PROVE  StampInv'
  <1>1. handler = [g \in Handlers |-> handler[g]] /\ DOMAIN handler[h] = HandlerFields
    BY DEF StampInv, HandlerOK
  <1>2. /\ handler' = [g \in Handlers |-> handler'[g]]
        /\ \A g \in Handlers \ {h} : handler'[g] = handler[g]
    BY <1>1, Moved
  <1>3. Len(entries) \in Nat
    BY DEF StampInv, EntriesOK
  <1>4. \A g \in Handlers \ {h} : HandlerOK(handler'[g], now', disk', Len(entries'), m_Map')
    BY <1>2, <1>3, OthersStay
  <1> QED BY <1>2, <1>4, Zenon DEF StampInv

LEMMA IdleFields ==
    /\ DOMAIN Idle = HandlerFields /\ Idle.at = "idle" /\ Idle.m_sPath = NoPath
    /\ Idle.inCache = FALSE /\ Idle.pFileEntry = 0 /\ Idle.fileTimeStamp = 0
    /\ Idle.checked = 0 /\ Idle.m_Response = 0
  BY DEF Idle, HandlerFields, NoEntry

\* A handler that has not begun, or has just begun.
LEMMA FreshHandler ==
    ASSUME NEW t, NEW d, WorldOK(t, d), NEW n \in Nat, NEW m, NEW r,
           DOMAIN r = HandlerFields, r.at \in {"idle", "has"}, r.m_sPath \in Paths \cup {NoPath},
           r.inCache = FALSE, r.pFileEntry = 0, r.fileTimeStamp = 0, r.checked = 0,
           r.m_Response = 0
    PROVE  HandlerOK(r, t, d, n, m)
  <1>1. \A p \in Paths : NotNewer(0, p, t, d)
    BY DEF NotNewer, WorldOK, Absent
  <1>2. 0 \in 0 .. t /\ 0 \in 0 .. n
    BY DEF WorldOK
  <1>3. r.m_sPath \in Paths => NotNewer(r.fileTimeStamp, r.m_sPath, t, d)
    BY <1>1
  <1>4. r.at \notin {"get", "stat", "touch", "compare", "read", "store", "tag", "done"}
    OBVIOUS
  <1> QED BY <1>2, <1>3, <1>4 DEF HandlerOK

LEMMA InitHolds == ResourcesInit => StampInv
  <1> SUFFICES ASSUME ResourcesInit PROVE StampInv
    OBVIOUS
  <1> USE DEF ResourcesInit
  <1>1. WorldOK(now, disk)
    BY WebResourcesAssumption DEF WorldOK, Absent
  <1>2. entries \in Seq(EntryType) /\ Len(entries) = 0
    BY EmptySeq
  <1>3. EntriesOK(entries, now) /\ MapOK(m_Map, entries, now, disk)
    BY <1>2 DEF EntriesOK, MapOK, NoEntry
  <1>4. HandlerOK(Idle, now, disk, Len(entries), m_Map)
    BY <1>1, <1>2, IdleFields, FreshHandler
  <1>5. handler = [h \in Handlers |-> handler[h]] /\ \A h \in Handlers : handler[h] = Idle
    OBVIOUS
  <1> QED BY <1>1, <1>3, <1>4, <1>5 DEF StampInv

LEMMA WorldSteps ==
    ASSUME StampInv, Tick \/ \E p \in Paths : Change(p)
    PROVE  StampInv'
  <1>0. now \in Nat /\ Len(entries) \in Nat /\ now >= 1
    BY DEF StampInv, WorldOK, EntriesOK
  <1>1. UNCHANGED <<entries, m_Map, handler>>
    BY DEF Tick, Change
  <1>2. now' \in Nat /\ now <= now' /\ \A p \in Paths : disk'[p] \in {Absent, disk[p], now}
    BY <1>0 DEF Tick, Change, StampInv, WorldOK
  <1>3. WorldOK(now', disk')
    <2>1. CASE Tick
      BY <2>1, WebResourcesAssumption DEF Tick, StampInv, WorldOK
    <2>2. CASE \E p \in Paths : Change(p)
      BY <2>2 DEF Change, StampInv, WorldOK, Absent
    <2> QED BY <2>1, <2>2
  <1>4. EntriesOK(entries', now')
    <2>1. ASSUME NEW i \in 1 .. Len(entries)
          PROVE  /\ entries[i].fileData \in 1 .. now'
                 /\ entries[i].fileTimeStamp \in 0 .. entries[i].fileData
                 /\ entries[i].fileLastAccessedTimeStamp \in 1 .. now'
      BY <1>0, <1>2 DEF StampInv, EntriesOK
    <2> QED BY <1>1, <2>1 DEF StampInv, EntriesOK
  <1>5. MapOK(m_Map', entries', now', disk')
    <2>1. ASSUME NEW p \in Paths, m_Map[p] # NoEntry
          PROVE  NotNewer(entries[m_Map[p]].fileTimeStamp, p, now', disk')
      BY <1>0, <1>2, <2>1 DEF StampInv, MapOK, NotNewer
    <2>2. m_Map \in [Paths -> 0 .. Len(entries)]
      BY DEF StampInv, MapOK
    <2> QED BY <1>1, <2>1, <2>2 DEF MapOK
  <1>6. Grows(now, disk, Len(entries), m_Map, now', disk', Len(entries'), m_Map')
    BY <1>0, <1>1, <1>2 DEF Grows
  <1>7. ASSUME NEW h \in Handlers
        PROVE  HandlerOK(handler'[h], now', disk', Len(entries'), m_Map')
    <2>1. HandlerOK(handler[h], now, disk, Len(entries), m_Map)
      BY DEF StampInv
    <2>2. HandlerOK(handler[h], now', disk', Len(entries'), m_Map')
      BY <1>0, <1>6, <2>1, HandlerStays
    <2> QED BY <1>1, <2>2
  <1>8. handler' = [h \in Handlers |-> handler'[h]]
    BY <1>1 DEF StampInv
  <1> QED BY <1>3, <1>4, <1>5, <1>7, <1>8, Zenon DEF StampInv

\* Where a handler h moves to, with the fields that the invariant is about.
Goes(h, step, path, inCache, e, stamp, checked, response) ==
    /\ DOMAIN handler'[h] = HandlerFields
    /\ handler'[h].at = step /\ handler'[h].m_sPath = path /\ handler'[h].inCache = inCache
    /\ handler'[h].pFileEntry = e /\ handler'[h].fileTimeStamp = stamp
    /\ handler'[h].checked = checked /\ handler'[h].m_Response = response

\* The request: its path is one of the files', or none.
LEMMA BeginKeeps ==
    ASSUME StampInv, NEW h \in Handlers, NEW r \in Targets, NEW etag, Begin(h, r, etag)
    PROVE  StampInv'
  <1> DEFINE new == [Idle EXCEPT !.at = "has", !.m_sPath = PathOf(r), !.m_sMessageETag = etag]
  <1>1. handler' = [handler EXCEPT ![h] = new] /\ UNCHANGED <<now, disk, entries, m_Map>>
    BY DEF Begin
  <1>2. PathOf(r) \in Paths \cup {NoPath}
    BY WebResourcesAssumption DEF PathOf
  <1>3. /\ DOMAIN new = HandlerFields /\ new.at = "has" /\ new.m_sPath = PathOf(r)
        /\ new.inCache = FALSE /\ new.pFileEntry = 0 /\ new.fileTimeStamp = 0
        /\ new.checked = 0 /\ new.m_Response = 0
    BY IdleFields DEF HandlerFields
  <1>4. WorldOK(now, disk) /\ Len(entries) \in Nat /\ handler = [g \in Handlers |-> handler[g]]
    BY DEF StampInv, EntriesOK
  <1> HIDE DEF new
  <1>5. HandlerOK(new, now, disk, Len(entries), m_Map)
    BY <1>2, <1>3, <1>4, FreshHandler
  <1>6. /\ handler' = [g \in Handlers |-> handler'[g]] /\ handler'[h] = new
        /\ \A g \in Handlers \ {h} : handler'[g] = handler[g]
    BY <1>1, <1>4
  <1>7. \A g \in Handlers \ {h} : HandlerOK(handler'[g], now', disk', Len(entries'), m_Map')
    BY <1>1, <1>4, <1>6, OthersStay
  <1> QED BY <1>1, <1>5, <1>6, <1>7, Zenon DEF StampInv

\* The handler's own steps that change nothing the handlers share.
LEMMA HandlerSteps ==
    ASSUME StampInv, NEW h \in Handlers,
           \/ HasEntry(h) \/ GetFileEntry(h) \/ Stat(h) \/ FromCache(h) \/ Outdated(h)
           \/ ReadFile(h) \/ TooLarge(h) \/ GetEntityTag(h)
    PROVE  StampInv'
  <1> DEFINE r == handler[h]
             n == Len(entries)
  <1>0. /\ HandlerOK(r, now, disk, n, m_Map) /\ DOMAIN r = HandlerFields
        /\ handler = [g \in Handlers |-> handler[g]]
    BY DEF StampInv, HandlerOK
  <1>1. WorldOK(now, disk) /\ MapOK(m_Map, entries, now, disk) /\ EntriesOK(entries, now)
        /\ n \in Nat
    BY DEF StampInv, EntriesOK
  <1>2. UNCHANGED <<now, disk, entries, m_Map>>
    BY DEF HasEntry, GetFileEntry, Stat, FromCache, Outdated, ReadFile, TooLarge,
           GetEntityTag
  <1>3. ASSUME NEW step, NEW changes, Moves(h, step, changes),
               HandlerOK(handler'[h], now, disk, n, m_Map)
        PROVE  StampInv'
    BY <1>2, <1>3, OneMoves
  <1>4. CASE HasEntry(h)
    <2> DEFINE found == Cached(r.m_sPath) # NoEntry
    <2>1. At(h, "has") /\ Moves(h, IF found THEN "get" ELSE "stat", [inCache |-> found])
      BY <1>4 DEF HasEntry, Path, Here
    <2>2. Goes(h, IF found THEN "get" ELSE "stat", r.m_sPath, found, r.pFileEntry,
               r.fileTimeStamp, r.checked, r.m_Response)
      BY <1>0, <2>1, Moved DEF Goes, HandlerFields
    <2>3. HandlerOK(handler'[h], now, disk, n, m_Map)
      BY <1>0, <2>2 DEF Goes, HandlerOK, Cached
    <2> QED BY <1>3, <2>1, <2>3
  <1>5. CASE GetFileEntry(h)
    <2> DEFINE e == Cached(r.m_sPath)
               s == entries[e].fileTimeStamp
    <2>1. At(h, "get") /\ Moves(h, "stat", [pFileEntry |-> e, fileTimeStamp |-> s])
      BY <1>5 DEF GetFileEntry, Path, Here
    <2>2. Goes(h, "stat", r.m_sPath, r.inCache, e, s, r.checked, r.m_Response)
      BY <1>0, <2>1, Moved DEF Goes, HandlerFields
    <2>3. /\ r.m_sPath \in Paths /\ e = m_Map[r.m_sPath] /\ e # NoEntry
          /\ e \in 0 .. n /\ NotNewer(s, r.m_sPath, now, disk)
      BY <1>0, <1>1, <2>1 DEF At, HandlerOK, Cached, MapOK
    <2> HIDE DEF e, s
    <2>4. HandlerOK(handler'[h], now, disk, n, m_Map)
      BY <1>0, <1>1, <2>2, <2>3 DEF Goes, HandlerOK, NotNewer, WorldOK
    <2> QED BY <1>3, <2>1, <2>4 DEF e, s
  <1>6. CASE Stat(h)
    <2>1. PICK changes :
            /\ At(h, "stat") /\ Moves(h, "touch", changes)
            /\ \/ changes = [checked |-> 0]
               \/ /\ There(h)
                  /\ changes = [fileTimeStamp |-> disk[r.m_sPath], checked |-> disk[r.m_sPath]]
      BY <1>6 DEF Stat, Path, Here
    <2>2. CASE changes = [checked |-> 0]
      <3>1. Goes(h, "touch", r.m_sPath, r.inCache, r.pFileEntry, r.fileTimeStamp, 0,
                 r.m_Response)
        BY <1>0, <2>1, <2>2, Moved DEF Goes, HandlerFields
      <3>2. HandlerOK(handler'[h], now, disk, n, m_Map)
        BY <1>0, <1>1, <2>1, <3>1 DEF At, Goes, HandlerOK, WorldOK
      <3> QED BY <1>3, <2>1, <3>2
    <2>3. CASE /\ There(h)
               /\ changes = [fileTimeStamp |-> disk[r.m_sPath], checked |-> disk[r.m_sPath]]
      <3> DEFINE s == disk[r.m_sPath]
      <3>1. Goes(h, "touch", r.m_sPath, r.inCache, r.pFileEntry, s, s, r.m_Response)
        BY <1>0, <2>1, <2>3, Moved DEF Goes, HandlerFields
      <3>2. r.m_sPath \in Paths /\ s \in 0 .. now /\ NotNewer(s, r.m_sPath, now, disk)
        BY <1>1, <2>3 DEF There, Path, Here, WorldOK, NotNewer
      <3> HIDE DEF s
      <3>3. HandlerOK(handler'[h], now, disk, n, m_Map)
        BY <1>0, <1>1, <2>1, <3>1, <3>2 DEF At, Goes, HandlerOK, WorldOK
      <3> QED BY <1>3, <2>1, <3>3
    <2> QED BY <2>1, <2>2, <2>3
  <1>7. ASSUME NEW status, NEW content, NEW tag, Reply(h, status, content, tag),
               content \in 0 .. now, r.checked <= content
        PROVE  StampInv'
    <2> DEFINE c == [status |-> status, m_Response |-> content, m_sEntityTag |-> tag]
    <2>1. Moves(h, "done", c)
      BY <1>7 DEF Reply
    <2>2. Goes(h, "done", r.m_sPath, r.inCache, r.pFileEntry, r.fileTimeStamp, r.checked,
               content)
      BY <1>0, <2>1, Moved DEF Goes, HandlerFields
    <2>3. HandlerOK(handler'[h], now, disk, n, m_Map)
      BY <1>0, <1>7, <2>2 DEF Goes, HandlerOK
    <2> HIDE DEF c
    <2> QED BY <1>3, <2>1, <2>3
  <1>8. CASE FromCache(h)
    <2> DEFINE e == entries[r.pFileEntry]
    <2>1. /\ At(h, "compare") /\ r.inCache /\ e.fileTimeStamp = r.fileTimeStamp
          /\ \E status : Reply(h, status, e.fileData, e.entityTag)
      BY <1>8 DEF FromCache, Here
    <2>2. r.pFileEntry \in 1 .. n /\ r.checked \in {0, r.fileTimeStamp}
      BY <1>0, <1>1, <2>1 DEF At, HandlerOK, NoEntry
    <2>3. e.fileData \in 1 .. now /\ e.fileTimeStamp \in 0 .. e.fileData
      BY <1>1, <2>2 DEF EntriesOK
    <2>4. now \in Nat
      BY <1>1 DEF WorldOK
    <2> HIDE DEF e
    <2>5. e.fileData \in 0 .. now /\ r.checked <= e.fileData
      BY <2>1, <2>2, <2>3, <2>4
    <2> QED BY <1>7, <2>1, <2>5
  <1>9. CASE Outdated(h)
    <2>1. At(h, "compare") /\ Moves(h, "read", [m_Response |-> 0])
      BY <1>9 DEF Outdated
    <2>2. Goes(h, "read", r.m_sPath, r.inCache, r.pFileEntry, r.fileTimeStamp, r.checked, 0)
      BY <1>0, <2>1, Moved DEF Goes, HandlerFields
    <2>3. HandlerOK(handler'[h], now, disk, n, m_Map)
      BY <1>0, <1>1, <2>1, <2>2 DEF At, Goes, HandlerOK, WorldOK
    <2> QED BY <1>3, <2>1, <2>3
  <1>10. CASE ReadFile(h)
    <2>1. CASE There(h)
      <3> DEFINE v == disk[r.m_sPath]
      <3>1. At(h, "read") /\ Moves(h, "store", [m_Response |-> v])
        BY <1>10, <2>1 DEF ReadFile, Path, Here
      <3>2. Goes(h, "store", r.m_sPath, r.inCache, r.pFileEntry, r.fileTimeStamp, r.checked, v)
        BY <1>0, <3>1, Moved DEF Goes, HandlerFields
      <3>3. /\ r.m_sPath \in Paths /\ v \in 1 .. now /\ r.fileTimeStamp <= v
            /\ r.checked \in {0, r.fileTimeStamp} /\ now \in Nat
        BY <1>0, <1>1, <2>1, <3>1
           DEF At, There, Path, Here, WorldOK, HandlerOK, NotNewer, Absent
      <3> HIDE DEF v
      <3>4. HandlerOK(handler'[h], now, disk, n, m_Map)
        BY <1>0, <3>2, <3>3 DEF Goes, HandlerOK
      <3> QED BY <1>3, <3>1, <3>4 DEF v
    <2>2. CASE ~ There(h)
      <3>1. Moves(h, "done", [status |-> 404])
        BY <1>10, <2>2 DEF ReadFile
      <3>2. /\ Goes(h, "done", r.m_sPath, r.inCache, r.pFileEntry, r.fileTimeStamp, r.checked,
                    r.m_Response)
            /\ handler'[h].status = 404
        BY <1>0, <3>1, Moved DEF Goes, HandlerFields
      <3>3. HandlerOK(handler'[h], now, disk, n, m_Map)
        BY <1>0, <3>2 DEF Goes, HandlerOK
      <3> QED BY <1>3, <3>1, <3>3
    <2> QED BY <2>1, <2>2
  <1>11. CASE TooLarge(h) \/ GetEntityTag(h)
    <2>1. /\ handler[h].at \in {"store", "tag"}
          /\ \E tag : Reply(h, 200, r.m_Response, tag)
      BY <1>11 DEF TooLarge, GetEntityTag, At, Here
    <2>2. r.m_Response \in 0 .. now /\ r.checked <= r.m_Response
      BY <1>0, <2>1 DEF HandlerOK
    <2> QED BY <1>7, <2>1, <2>2
  <1> QED BY <1>4, <1>5, <1>6, <1>8, <1>9, <1>10, <1>11

\* A handler says when it used the entry.
LEMMA TouchKeeps ==
    ASSUME StampInv, NEW h \in Handlers, UpdateFileAccessTime(h)
    PROVE  StampInv'
  <1> DEFINE r == handler[h]
             n == Len(entries)
             e == Cached(r.m_sPath)
             touched(i) == IF i = e THEN [entries[i] EXCEPT !.fileLastAccessedTimeStamp = now]
                           ELSE entries[i]
  <1>0. /\ HandlerOK(r, now, disk, n, m_Map) /\ DOMAIN r = HandlerFields
        /\ handler = [g \in Handlers |-> handler[g]]
        /\ EntriesOK(entries, now) /\ n \in Nat /\ DOMAIN entries = 1 .. n
        /\ WorldOK(now, disk) /\ MapOK(m_Map, entries, now, disk)
    BY DEF StampInv, HandlerOK, EntriesOK
  <1>1. /\ At(h, "touch") /\ Moves(h, "compare", [inCache |-> r.inCache])
        /\ entries' = [i \in DOMAIN entries |-> touched(i)]
        /\ UNCHANGED <<now, disk, m_Map>>
    BY DEF UpdateFileAccessTime, Path, Here
  <1>2. ASSUME NEW i \in 1 .. n
        PROVE  /\ touched(i) \in EntryType
               /\ touched(i).fileData = entries[i].fileData
               /\ touched(i).fileTimeStamp = entries[i].fileTimeStamp
               /\ touched(i).fileLastAccessedTimeStamp \in 1 .. now
    <2>1. entries[i] \in EntryType /\ entries[i].fileLastAccessedTimeStamp \in 1 .. now
      BY <1>0, ElementOfSeq DEF EntriesOK
    <2>2. now \in 1 .. now
      BY <1>0 DEF WorldOK
    <2> QED BY <2>1, <2>2 DEF EntryType
  <1> HIDE DEF touched, e
  <1>3. /\ entries' \in Seq(EntryType) /\ Len(entries') = n
        /\ \A i \in 1 .. n : entries'[i] = touched(i)
    BY <1>0, <1>1, <1>2
  <1>4. EntriesOK(entries', now')
    BY <1>0, <1>1, <1>2, <1>3 DEF EntriesOK
  <1>5. MapOK(m_Map', entries', now', disk')
    <2>1. ASSUME NEW p \in Paths, m_Map[p] # NoEntry
          PROVE  NotNewer(entries'[m_Map[p]].fileTimeStamp, p, now, disk)
      <3>1. m_Map[p] \in 1 .. n
        BY <1>0, <2>1 DEF MapOK, NoEntry
      <3> QED BY <1>0, <1>2, <1>3, <2>1, <3>1 DEF MapOK
    <2> QED BY <1>0, <1>1, <1>3, <2>1 DEF MapOK
  <1>6. Goes(h, "compare", r.m_sPath, r.inCache, r.pFileEntry, r.fileTimeStamp, r.checked,
             r.m_Response)
    BY <1>0, <1>1, Moved DEF Goes, HandlerFields
  <1>7. HandlerOK(handler'[h], now', disk', Len(entries'), m_Map')
    BY <1>0, <1>1, <1>3, <1>6 DEF At, Goes, HandlerOK
  <1>8. /\ handler' = [g \in Handlers |-> handler'[g]]
        /\ \A g \in Handlers \ {h} : handler'[g] = handler[g]
    BY <1>0, <1>1, Moved
  <1>9. \A g \in Handlers \ {h} : HandlerOK(handler'[g], now', disk', Len(entries'), m_Map')
    BY <1>0, <1>1, <1>3, <1>8, OthersStay
  <1>10. WorldOK(now', disk')
    BY <1>0, <1>1
  <1> QED BY <1>4, <1>5, <1>7, <1>8, <1>9, <1>10, Zenon DEF StampInv

\* The entry that takes the place of the old one has the time stamp of a handler, which
\* what it read is no older than.
LEMMA StoreKeeps ==
    ASSUME StampInv, NEW h \in Handlers, Store(h)
    PROVE  StampInv'
  <1> DEFINE r == handler[h]
             n == Len(entries)
             new == [fileData |-> r.m_Response, fileTimeStamp |-> r.fileTimeStamp,
                     fileLastAccessedTimeStamp |-> now, entityTag |-> n + 1]
  <1>0. /\ HandlerOK(r, now, disk, n, m_Map) /\ DOMAIN r = HandlerFields
        /\ handler = [g \in Handlers |-> handler[g]]
        /\ EntriesOK(entries, now) /\ n \in Nat
        /\ WorldOK(now, disk) /\ MapOK(m_Map, entries, now, disk)
    BY DEF StampInv, HandlerOK, EntriesOK
  <1>1. /\ At(h, "store") /\ Moves(h, "tag", [inCache |-> r.inCache])
        /\ entries' = Append(entries, new)
        /\ m_Map' = [m_Map EXCEPT ![r.m_sPath] = Len(entries')]
        /\ UNCHANGED <<now, disk>>
    BY DEF Store, Path, Here, StampFor, NewTag
  <1>2. /\ r.m_sPath \in Paths /\ r.m_Response \in 1 .. now
        /\ r.fileTimeStamp \in 0 .. r.m_Response /\ r.checked <= r.m_Response
        /\ NotNewer(r.fileTimeStamp, r.m_sPath, now, disk) /\ now \in 1 .. now
    BY <1>0, <1>1 DEF At, HandlerOK, WorldOK
  <1>3. /\ new \in EntryType /\ new.fileData = r.m_Response
        /\ new.fileTimeStamp = r.fileTimeStamp /\ new.fileLastAccessedTimeStamp = now
    BY <1>0, <1>2 DEF EntryType
  <1> HIDE DEF new
  <1>4. /\ entries' \in Seq(EntryType) /\ Len(entries') = n + 1
        /\ entries'[n + 1] = new /\ \A i \in 1 .. n : entries'[i] = entries[i]
    BY <1>0, <1>1, <1>3, AppendProperties DEF EntriesOK
  <1>5. EntriesOK(entries', now')
    <2>1. ASSUME NEW i \in 1 .. n + 1
          PROVE  /\ entries'[i].fileData \in 1 .. now
                 /\ entries'[i].fileTimeStamp \in 0 .. entries'[i].fileData
                 /\ entries'[i].fileLastAccessedTimeStamp \in 1 .. now
      <3>1. CASE i = n + 1
        BY <1>2, <1>3, <1>4, <3>1
      <3>2. CASE i # n + 1
        <4>1. i \in 1 .. n
          BY <1>0, <3>2
        <4> QED BY <1>0, <1>4, <4>1 DEF EntriesOK
      <3> QED BY <3>1, <3>2
    <2> QED BY <1>1, <1>4, <2>1 DEF EntriesOK
  <1>6. MapOK(m_Map', entries', now', disk')
    <2>1. m_Map' \in [Paths -> 0 .. n + 1] /\ m_Map'[r.m_sPath] = n + 1
      BY <1>0, <1>1, <1>2, <1>4 DEF MapOK
    <2>2. ASSUME NEW p \in Paths, m_Map'[p] # NoEntry
          PROVE  NotNewer(entries'[m_Map'[p]].fileTimeStamp, p, now, disk)
      <3>1. CASE p = r.m_sPath
        BY <1>2, <1>3, <1>4, <2>1, <3>1
      <3>2. CASE p # r.m_sPath
        <4>1. m_Map'[p] = m_Map[p] /\ m_Map[p] \in 1 .. n
          BY <1>0, <1>1, <2>2, <3>2 DEF MapOK, NoEntry
        <4> QED BY <1>0, <1>4, <2>2, <4>1 DEF MapOK
      <3> QED BY <3>1, <3>2
    <2> QED BY <1>1, <1>4, <2>1, <2>2 DEF MapOK
  <1>7. Goes(h, "tag", r.m_sPath, r.inCache, r.pFileEntry, r.fileTimeStamp, r.checked,
             r.m_Response)
    BY <1>0, <1>1, Moved DEF Goes, HandlerFields
  <1>8. HandlerOK(handler'[h], now', disk', Len(entries'), m_Map')
    BY <1>0, <1>1, <1>2, <1>4, <1>7 DEF At, Goes, HandlerOK
  <1>9. /\ handler' = [g \in Handlers |-> handler'[g]]
        /\ \A g \in Handlers \ {h} : handler'[g] = handler[g]
    BY <1>0, <1>1, Moved
  <1>10. \A p \in Paths : m_Map[p] # NoEntry => m_Map'[p] # NoEntry
    BY <1>0, <1>1, <1>4 DEF MapOK, NoEntry
  <1>11. \A g \in Handlers \ {h} : HandlerOK(handler'[g], now', disk', Len(entries'), m_Map')
    <2>1. /\ Len(entries') \in Nat /\ Len(entries) <= Len(entries')
          /\ now' = now /\ disk' = disk
      BY <1>0, <1>1, <1>4
    <2> QED BY <1>9, <1>10, <2>1, OthersStay
  <1>12. WorldOK(now', disk')
    BY <1>0, <1>1
  <1> QED BY <1>5, <1>6, <1>8, <1>9, <1>11, <1>12, Zenon DEF StampInv

LEMMA FinishKeeps ==
    ASSUME StampInv, NEW h \in Handlers, Finish(h)
    PROVE  StampInv'
  <1>1. handler' = [handler EXCEPT ![h] = Idle] /\ UNCHANGED <<now, disk, entries, m_Map>>
    BY DEF Finish
  <1>2. WorldOK(now, disk) /\ Len(entries) \in Nat /\ handler = [g \in Handlers |-> handler[g]]
    BY DEF StampInv, EntriesOK
  <1>3. HandlerOK(Idle, now, disk, Len(entries), m_Map)
    BY <1>2, IdleFields, FreshHandler
  <1>4. /\ handler' = [g \in Handlers |-> handler'[g]] /\ handler'[h] = Idle
        /\ \A g \in Handlers \ {h} : handler'[g] = handler[g]
    BY <1>1, <1>2
  <1>5. \A g \in Handlers \ {h} : HandlerOK(handler'[g], now', disk', Len(entries'), m_Map')
    BY <1>1, <1>2, <1>4, OthersStay
  <1> QED BY <1>1, <1>3, <1>4, <1>5, Zenon DEF StampInv

-----------------------------------------------------------------------------
\* No time stamp of an entry or of a handler is later than its file, whatever the
\* handlers store and whoever changes the files (filecache.cpp:114).
THEOREM StampsHold == ResourcesSpec => []StampInv
  <1>1. StampInv /\ [ResourcesNext]_resourceVars => StampInv'
    <2> SUFFICES ASSUME StampInv, [ResourcesNext]_resourceVars PROVE StampInv'
      OBVIOUS
    <2>1. CASE Tick \/ \E p \in Paths : Change(p)
      BY <2>1, WorldSteps
    <2>2. ASSUME NEW h \in Handlers, NEW r \in Targets, NEW etag, Begin(h, r, etag)
          PROVE  StampInv'
      BY <2>2, BeginKeeps
    <2>3. ASSUME NEW h \in Handlers,
                 \/ HasEntry(h) \/ GetFileEntry(h) \/ Stat(h) \/ FromCache(h) \/ Outdated(h)
                 \/ ReadFile(h) \/ TooLarge(h) \/ GetEntityTag(h)
          PROVE  StampInv'
      BY <2>3, HandlerSteps
    <2>4. ASSUME NEW h \in Handlers, UpdateFileAccessTime(h) \/ Store(h) \/ Finish(h)
          PROVE  StampInv'
      BY <2>4, TouchKeeps, StoreKeeps, FinishKeeps
    <2>5. CASE UNCHANGED resourceVars
      BY <2>5 DEF resourceVars, StampInv
    <2> QED BY <2>1, <2>2, <2>3, <2>4, <2>5, Zenon DEF ResourcesNext
  <1> QED BY <1>1, InitHolds, PTL DEF ResourcesSpec

\* The clock, the files, the entries and what refers to them keep their types
\* (filecache.h:40).
THEOREM TypeCorrect == ResourcesSpec => []ResourcesTypeOK
  <1>1. StampInv => ResourcesTypeOK
    <2> SUFFICES ASSUME StampInv PROVE ResourcesTypeOK
      OBVIOUS
    <2>1. now \in 1 .. MaxTime /\ disk \in [Paths -> 0 .. MaxTime]
      BY WebResourcesAssumption DEF StampInv, WorldOK
    <2>2. DOMAIN entries = 1 .. Len(entries) /\ Len(entries) \in Nat
      BY DEF StampInv, EntriesOK
    <2>3. \A i \in DOMAIN entries : /\ entries[i].fileData \in 1 .. now
                                    /\ entries[i].fileTimeStamp \in 0 .. now
                                    /\ entries[i].fileLastAccessedTimeStamp \in 1 .. now
      BY <2>1, <2>2 DEF StampInv, EntriesOK
    <2>4. m_Map \in [Paths -> {NoEntry} \cup DOMAIN entries]
      BY <2>2 DEF StampInv, MapOK, NoEntry
    <2>5. \A h \in Handlers : Here(h).pFileEntry \in {NoEntry} \cup DOMAIN entries
      BY <2>2 DEF StampInv, HandlerOK, NoEntry, Here
    <2> QED BY <2>1, <2>3, <2>4, <2>5 DEF ResourcesTypeOK
  <1> QED BY <1>1, StampsHold, PTL

\* A request that looked at the file gets nothing older than what it saw, for any number
\* of handlers and files (webrequesthandler.cpp:443).
THEOREM NothingStale == ResourcesSpec => []CheckedIsFresh
  <1>1. StampInv => CheckedIsFresh
    BY DEF StampInv, HandlerOK, CheckedIsFresh, At, Here
  <1> QED BY <1>1, StampsHold, PTL

-----------------------------------------------------------------------------
(* The header.  First what finding a sign in a whole tag gives. *)

\* The first place of a word, counted from 0.
LEMMA FirstPlace ==
    ASSUME NEW W, NEW text \in Seq(W), NEW word, NEW i \in DOMAIN text, text[i] = word,
           \A j \in 1 .. i - 1 : text[j] # word
    PROVE  IndexOf(text, word) = i - 1
<1> DEFINE Places == {j \in 1 .. Len(text) : text[j] = word}
<1>0. DOMAIN text = 1 .. Len(text) /\ Len(text) \in Nat
  OBVIOUS
<1>1. i \in Places /\ \A j \in Places : i <= j
  BY <1>0
<1>2. Places \subseteq Int
  BY <1>0
<1>3. Min(Places) = i
  <2> HIDE DEF Places
  <2> QED
    BY <1>1, <1>2 DEF Min
<1>4. SelectInSeq(text, LAMBDA w : w = word) = i
  BY <1>1, <1>3 DEF SelectInSeq
<1> QED
  BY <1>4 DEF IndexOf

\* A piece of one word.
LEMMA OneWord ==
    ASSUME NEW W, NEW text \in Seq(W), NEW i \in 1 .. Len(text)
    PROVE  SubSeq(text, i, i) = <<text[i]>>
<1> DEFINE s == SubSeq(text, i, i)
           t == <<text[i]>>
<1>1. s \in Seq(W) /\ Len(s) = 1 /\ s[1] = text[i]
  OBVIOUS
<1>2. t \in Seq(W) /\ Len(t) = 1 /\ t[1] = text[i]
  OBVIOUS
<1> HIDE DEF s, t
<1>3. \A j \in 1 .. Len(s) : s[j] = t[j]
  BY <1>1, <1>2
<1>4. s = t
  BY <1>1, <1>2, <1>3, SeqEqual
<1> QED
  BY <1>4 DEF s, t

\* The parts of a whole tag: where its signs are, and what is between them.
LEMMA TagParts ==
    ASSUME NEW n, NEW ip, NEW port,
           {n, ip, port} \cap {"@", ":"} = {}
    PROVE  LET tag == <<n, "@", ip, ":", port>>
           IN /\ IndexOf(tag, "@") = 1 /\ IndexOf(tag, ":") = 3
              /\ substr(tag, 0, 1) = <<n>> /\ substr(tag, 2, 1) = <<ip>> /\ Rest(tag, 4) = <<port>>
<1> DEFINE tag == <<n, "@", ip, ":", port>>
<1> DEFINE W == {n, "@", ip, ":", port}
<1>1. tag \in Seq(W) /\ DOMAIN tag = 1 .. 5 /\ Len(tag) = 5
      /\ tag[1] = n /\ tag[2] = "@" /\ tag[3] = ip /\ tag[4] = ":" /\ tag[5] = port
  OBVIOUS
<1>6. n # "@" /\ n # ":" /\ ip # "@" /\ ip # ":"
  OBVIOUS
<1>2. SubSeq(tag, 1, 1) = <<n>> /\ SubSeq(tag, 3, 3) = <<ip>> /\ SubSeq(tag, 5, 5) = <<port>>
  <2> HIDE DEF tag, W
  <2>1. 1 \in 1 .. Len(tag) /\ 3 \in 1 .. Len(tag) /\ 5 \in 1 .. Len(tag)
    BY <1>1
  <2>2. SubSeq(tag, 1, 1) = <<tag[1]>>
    BY <1>1, <2>1, OneWord
  <2>3. SubSeq(tag, 3, 3) = <<tag[3]>>
    BY <1>1, <2>1, OneWord
  <2>4. SubSeq(tag, 5, 5) = <<tag[5]>>
    BY <1>1, <2>1, OneWord
  <2> QED
    BY <1>1, <2>2, <2>3, <2>4
<1>3. substr(tag, 0, 1) = <<n>> /\ substr(tag, 2, 1) = <<ip>> /\ Rest(tag, 4) = <<port>>
  <2> HIDE DEF tag
  <2> QED
    BY <1>1, <1>2 DEF substr, Rest
<1>4. IndexOf(tag, "@") = 2 - 1
  <2> HIDE DEF tag
  <2>1. 2 \in DOMAIN tag /\ tag[2] = "@" /\ \A j \in 1 .. 2 - 1 : tag[j] # "@"
    BY <1>1, <1>6
  <2> QED
    BY <1>1, <2>1, FirstPlace
<1>5. IndexOf(tag, ":") = 4 - 1
  <2> HIDE DEF tag
  <2>1. 4 \in DOMAIN tag /\ tag[4] = ":"
    BY <1>1
  <2>2. \A j \in 1 .. 4 - 1 : tag[j] # ":"
    BY <1>1, <1>6
  <2> QED
    BY <1>1, <2>1, <2>2, FirstPlace
<1> QED
  BY <1>3, <1>4, <1>5

\* The sender of a message finds in a whole tag the address and the port.
LEMMA AddressFound ==
    ASSUME NEW text, NEW ip, NEW port,
           IsTag(text, ip, port)
    PROVE  text # <<>> /\ AddrIn(text) = <<ip>> /\ PortIn(text) = port
<1> DEFINE n == text[1]
<1>1. text = <<n, "@", ip, ":", port>> /\ {n, ip, port} \cap {"@", ":"} = {} /\ port \in Numbers
  BY DEF IsTag
<1> HIDE DEF n
<1>3. /\ IndexOf(text, "@") = 1 /\ IndexOf(text, ":") = 3
      /\ substr(text, 2, 1) = <<ip>> /\ Rest(text, 4) = <<port>>
  BY <1>1, TagParts
<1>4. AddrIn(text) = <<ip>>
  BY <1>3 DEF AddrIn
<1>5. PortIn(text) = port
  <2>1. PortIn(text) = atoi(<<port>>)
    BY <1>3 DEF PortIn
  <2> QED
    BY <1>1, <2>1 DEF atoi
<1>6. text # <<>>
  BY <1>1
<1> QED
  BY <1>4, <1>5, <1>6

\* A tag that was put together from a name, an address and a port is read as the same
\* tag: what a node answers with, another one understands (routingtag.cpp:63-137).
THEOREM TagsReadBack ==
    ASSUME NEW n, NEW ip, NEW port,
           {n, ip, port} \cap {"@", ":"} = {}
    PROVE  SetTag(BuildFullTag(<<n>>, <<ip>>, <<port>>)) = BuildFullTag(<<n>>, <<ip>>, <<port>>)
<1> DEFINE tag == <<n, "@", ip, ":", port>>
<1>1. BuildFullTag(<<n>>, <<ip>>, <<port>>) = tag
  <2> DEFINE W == {n, "@", ip, ":", port}
             joined == BuildFullTag(<<n>>, <<ip>>, <<port>>)
  <2>1. joined \in Seq(W) /\ Len(joined) = 5
    BY DEF BuildFullTag
  <2>2. joined[1] = n /\ joined[2] = "@"
    BY DEF BuildFullTag
  <2>3. joined[3] = ip /\ joined[4] = ":" /\ joined[5] = port
    BY DEF BuildFullTag
  <2>4. tag \in Seq(W) /\ Len(tag) = 5
    OBVIOUS
  <2>5. tag[1] = n /\ tag[2] = "@" /\ tag[3] = ip /\ tag[4] = ":" /\ tag[5] = port
    OBVIOUS
  <2> HIDE DEF tag, joined, W
  <2>6. \A i \in 1 .. 5 : joined[i] = tag[i]
    BY <2>2, <2>3, <2>5
  <2>7. joined = tag
    BY <2>1, <2>4, <2>6, SeqEqual
  <2> QED
    BY <2>7 DEF joined
<1>2. /\ IndexOf(tag, "@") = 1 /\ IndexOf(tag, ":") = 3
      /\ substr(tag, 0, 1) = <<n>> /\ substr(tag, 2, 1) = <<ip>> /\ Rest(tag, 4) = <<port>>
  BY TagParts
<1> HIDE DEF tag
<1>3. TagName(tag) = <<n>> /\ TagPort(tag) = <<port>>
  BY <1>2 DEF TagName, TagPort
<1>4. TagIPAddr(tag) = <<ip>>
  BY <1>2 DEF TagIPAddr
<1> QED
  BY <1>1, <1>2, <1>3, <1>4 DEF SetTag

-----------------------------------------------------------------------------
(* From the request that was read to where its answer goes. *)

MsgFields == {"MsgID", "MsgCommand", "MsgTo", "MsgFrom", "MsgPriority", "MsgReplyActionType",
              "MsgNotifyActionType", "MsgConnectionType", "MsgFormat", "MsgProtocolType",
              "MsgContentType", "MsgContentLength", "m_pPayload", "TCPSocketHandle",
              "UDPSocketHandle", "m_bKeepAlive"}

\* The message m came as the request r: it has the socket of a client that is
\* connected, or that waits.
CameAs(m, r) ==
    /\ DOMAIN m = MsgFields
    /\ m.TCPSocketHandle = (r.via # "UDP")
    /\ m.UDPSocketHandle = (r.via = "UDP" /\ m.MsgReplyActionType = "reply-wait")
    /\ m.MsgConnectionType = IF r.via = "UDP" THEN "IB_UDP" ELSE "IB_TCP"
    /\ m.MsgProtocolType = IF r.via \in {"TCP", "UDP"} THEN "MCP" ELSE r.via

\* The message a answers m, or tells that it has come: that is not sent on a
\* datagram's socket.  It says who sends it, or nobody.
AnswersTo(a, m) ==
    /\ a.MsgTo = m.MsgFrom
    /\ a.TCPSocketHandle = m.TCPSocketHandle
    /\ a.MsgConnectionType = OutOf(m.MsgConnectionType)
    /\ a.MsgID = m.MsgID /\ a.MsgFrom \in {<<>>, ThisNode}
    /\ \/ a.MsgContentLength = 0 /\ a.MsgContentType = <<>>
       \/ a.MsgContentLength \in Bodies \ {0} /\ a.MsgContentType = <<"text/html">>
    /\ \/ /\ a.MsgFormat = "RES" /\ a.m_bKeepAlive = m.m_bKeepAlive
          /\ a.UDPSocketHandle = m.UDPSocketHandle /\ a.MsgProtocolType = m.MsgProtocolType
       \/ /\ a.MsgFormat = "NOTIFY"
          /\ a.UDPSocketHandle = FALSE /\ a.MsgProtocolType = "MCP"

\* The message a is the errand e.
SentAs(a, e) ==
    /\ a.MsgTo = e.to /\ a.MsgConnectionType = e.via
    /\ a.MsgFormat = "NOTSET" /\ a.MsgProtocolType = "MCP" /\ a.MsgContentLength = 0
    /\ a.MsgCommand = <<"ECHO">> /\ a.MsgID = <<"new">>
    /\ a.MsgFrom \in {<<>>, ThisNode}
    /\ a.TCPSocketHandle = FALSE /\ a.UDPSocketHandle = FALSE

Address(tag) == [addr |-> AddrIn(tag), port |-> PortIn(tag)]

\* Where the message a goes.
GoesTo(to, a) ==
    IF a.MsgProtocolType \in {"GET", "POST"} \/ HasSocket(a) THEN to = Socket
    ELSE a.MsgTo # <<>> => to = Address(a.MsgTo)

AddressedInv ==
    /\ serving \in Objects /\ stage \in {"idle", "asked", "made", "wire"}
    /\ msg = [o \in Objects |-> msg[o]]
    /\ stage = "idle" => asked = Nobody
    /\ stage = "asked" => asked \in Requests
    /\ stage \in {"made", "wire"} => asked \in Requests \cup Errands
    /\ asked \in Requests => CameAs(msg[serving], asked)
    /\ stage \in {"made", "wire"} =>
          /\ asked \in Requests => AnswersTo(msg[Other(serving)], msg[serving])
          /\ asked \in Errands => SentAs(msg[Other(serving)], asked)
    /\ stage = "wire" =>
          /\ GoesTo(sent.to, msg[Other(serving)])
          /\ sent.via # "HTTP" =>
                /\ sent.via = msg[Other(serving)].MsgConnectionType
                /\ asked \in Requests => sent.lines = ResponseLines(msg[Other(serving)])
                /\ asked \in Errands => sent.lines = RequestLines(msg[Other(serving)])

LEMMA NobodyAsks == Nobody \notin Requests /\ Nobody \notin Errands
<1>1. Nobody.via = "none"
  BY DEF Nobody
<1> QED
  BY <1>1, HeaderAssumption

\* What Parse leaves of an object of the pool.
LEMMA Parsed ==
    ASSUME NEW m, DOMAIN m = MsgFields, NEW ct, NEW lines
    PROVE  LET p == Parse(m, ct, lines)
           IN /\ DOMAIN p = MsgFields /\ p.MsgConnectionType = ct
              /\ p.TCPSocketHandle = m.TCPSocketHandle /\ p.UDPSocketHandle = m.UDPSocketHandle
              /\ p.MsgProtocolType = m.MsgProtocolType
<1> DEFINE p == Parse(m, ct, lines)
<1>1. DOMAIN p = MsgFields
  BY DEF Parse
<1>2. p.MsgConnectionType = ct
  BY DEF Parse, MsgFields
<1>3. p.TCPSocketHandle = m.TCPSocketHandle /\ p.UDPSocketHandle = m.UDPSocketHandle
  BY DEF Parse, MsgFields
<1>4. p.MsgProtocolType = m.MsgProtocolType
  BY DEF Parse, MsgFields
<1> QED
  BY <1>1, <1>2, <1>3, <1>4

\* An object for what came by a way.
LEMMA Created ==
    ASSUME NEW o, NEW via
    PROVE  LET c == CreateMessage(o, via)
           IN /\ DOMAIN c = MsgFields /\ c.UDPSocketHandle = FALSE
              /\ c.TCPSocketHandle = (via # "UDP")
              /\ c.MsgProtocolType = IF via = "TCP" THEN "MCP" ELSE via
<1> DEFINE c == CreateMessage(o, via)
<1>1. DOMAIN c = MsgFields /\ c.UDPSocketHandle = FALSE
  BY DEF CreateMessage, ResetMsg, Fields, MsgFields
<1>2. c.TCPSocketHandle = (via # "UDP")
  BY DEF CreateMessage, ResetMsg, Fields
<1>3. c.MsgProtocolType = IF via = "TCP" THEN "MCP" ELSE via
  BY DEF CreateMessage, ResetMsg, Fields
<1> QED
  BY <1>1, <1>2, <1>3

LEMMA PayloadSet ==
    ASSUME NEW c, DOMAIN c = MsgFields, NEW what, NEW length
    PROVE  LET m == SetContentPayload(c, what, length)
           IN /\ DOMAIN m = MsgFields /\ m.MsgContentLength = length
              /\ \A f \in MsgFields \ {"m_pPayload", "MsgContentLength"} : m[f] = c[f]
BY DEF SetContentPayload, MsgFields

LEMMA ReceivedCameAs ==
    ASSUME NEW o, NEW r, r.via \in {"TCP", "UDP", "GET", "POST"}
    PROVE  CameAs(Received(o, r), r)
<1>1. CASE r.via = "TCP"
  <2> DEFINE o1 == CreateMessage(o, "TCP")
             c == SetContentPayload(o1, "start", 1)
             p == Parse(c, "IB_TCP", r.lines)
  <2>1. DOMAIN c = MsgFields /\ c.UDPSocketHandle = FALSE
        /\ c.TCPSocketHandle = TRUE /\ c.MsgProtocolType = "MCP"
    <3>1. DOMAIN o1 = MsgFields /\ o1.UDPSocketHandle = FALSE
          /\ o1.TCPSocketHandle = TRUE /\ o1.MsgProtocolType = "MCP"
      BY Created
    <3> HIDE DEF o1
    <3> QED
      BY <3>1, PayloadSet DEF MsgFields
  <2> HIDE DEF c
  <2>2. DOMAIN p = MsgFields /\ p.MsgConnectionType = "IB_TCP"
        /\ p.TCPSocketHandle = TRUE /\ p.UDPSocketHandle = FALSE /\ p.MsgProtocolType = "MCP"
    BY <2>1, Parsed
  <2>3. Received(o, r) = p
    BY <1>1 DEF Received, ProcessMCP, c, o1
  <2> HIDE DEF p
  <2> QED
    BY <1>1, <2>2, <2>3 DEF CameAs
<1>2. CASE r.via = "UDP"
  <2> DEFINE c == CreateMessage(o, "UDP")
             p == Parse(c, "IB_UDP", r.lines)
  <2>1. DOMAIN c = MsgFields /\ c.UDPSocketHandle = FALSE /\ c.TCPSocketHandle = FALSE
    BY Created
  <2> HIDE DEF c
  <2>2. DOMAIN p = MsgFields /\ p.MsgConnectionType = "IB_UDP" /\ p.TCPSocketHandle = FALSE
    BY <2>1, Parsed
  <2>3. Received(o, r) = [p EXCEPT !.MsgProtocolType = "MCP",
                                   !.UDPSocketHandle = p.MsgReplyActionType = "reply-wait"]
    BY <1>2 DEF Received, ReceiveUDP, c
  <2> HIDE DEF p
  <2> QED
    BY <1>2, <2>2, <2>3 DEF CameAs, MsgFields
<1>3. CASE r.via \in {"GET", "POST"}
  <2> DEFINE o1 == CreateMessage(o, r.via)
             c == SetContentPayload(o1, "start", 1)
             p == Parse(c, "IB_TCP", r.lines)
  <2>1. DOMAIN c = MsgFields /\ c.UDPSocketHandle = FALSE
        /\ c.TCPSocketHandle = TRUE /\ c.MsgProtocolType = r.via
    <3>1. DOMAIN o1 = MsgFields /\ o1.UDPSocketHandle = FALSE
          /\ o1.TCPSocketHandle = TRUE /\ o1.MsgProtocolType = r.via
      BY <1>3, Created
    <3> HIDE DEF o1
    <3> QED
      BY <3>1, PayloadSet DEF MsgFields
  <2> HIDE DEF c
  <2>2. DOMAIN p = MsgFields /\ p.MsgConnectionType = "IB_TCP"
        /\ p.TCPSocketHandle = TRUE /\ p.UDPSocketHandle = FALSE /\ p.MsgProtocolType = r.via
    BY <2>1, Parsed
  <2>3. Received(o, r) = [p EXCEPT !.MsgID = <<"new">>, !.MsgPriority = "priority-high",
                                   !.MsgNotifyActionType = "notify-no",
                                   !.MsgReplyActionType = "reply-wait"]
    BY <1>3 DEF Received, ProcessHTTP, c, o1
  <2> HIDE DEF p
  <2> QED
    BY <1>3, <2>2, <2>3 DEF CameAs, MsgFields
<1> QED
  BY <1>1, <1>2, <1>3

LEMMA OtherObject ==
    ASSUME NEW o \in Objects
    PROVE  Other(o) \in Objects /\ Other(o) # o /\ Other(Other(o)) = o
BY DEF Objects, Other

\* A message that is sent differs at most in who sends it.
LEMMA DispatchedSays ==
    ASSUME NEW m, DOMAIN m = MsgFields
    PROVE  LET d == Dispatched(m)
           IN /\ DOMAIN d = MsgFields /\ d.MsgFrom \in {m.MsgFrom, ThisNode}
              /\ \A f \in MsgFields \ {"MsgFrom"} : d[f] = m[f]
BY DEF Dispatched, MsgFields

LEMMA AnswersDispatched ==
    ASSUME NEW c, NEW m, DOMAIN c = MsgFields, AnswersTo(c, m)
    PROVE  AnswersTo(Dispatched(c), m) /\ DOMAIN Dispatched(c) = MsgFields
<1> DEFINE d == Dispatched(c)
<1>1. /\ DOMAIN d = MsgFields /\ d.MsgFrom \in {c.MsgFrom, ThisNode}
      /\ \A f \in MsgFields \ {"MsgFrom"} : d[f] = c[f]
  BY DispatchedSays
<1> HIDE DEF d
<1>2. /\ d.MsgTo = c.MsgTo /\ d.TCPSocketHandle = c.TCPSocketHandle
      /\ d.MsgConnectionType = c.MsgConnectionType /\ d.MsgFormat = c.MsgFormat
      /\ d.UDPSocketHandle = c.UDPSocketHandle /\ d.MsgProtocolType = c.MsgProtocolType
      /\ d.MsgID = c.MsgID /\ d.m_bKeepAlive = c.m_bKeepAlive
      /\ d.MsgContentLength = c.MsgContentLength /\ d.MsgContentType = c.MsgContentType
  BY <1>1 DEF MsgFields
<1>3. d.MsgFrom \in {<<>>, ThisNode}
  BY <1>1 DEF AnswersTo
<1> QED
  BY <1>1, <1>2, <1>3 DEF AnswersTo, d

\* Who sends a message is a text.
LEMMA FromText ==
    ASSUME NEW from \in {<<>>, ThisNode}
    PROVE  \E U : from \in Seq(U)
<1> DEFINE n == ThisNode[1]
           ip == ThisNode[3]
           port == ThisNode[5]
           node == ThisNode
<1>1. node = <<n, "@", ip, ":", port>>
  BY HeaderAssumption, Zenon DEF IsTag
<1>2. from = <<>> \/ from = node
  OBVIOUS
<1> HIDE DEF n, ip, port, node
<1>3. <<n, "@", ip, ":", port>> \in Seq({n, "@", ip, ":", port}) /\ <<>> \in Seq({n})
  OBVIOUS
<1> QED
  BY <1>1, <1>2, <1>3

LEMMA AddressedInit == HeaderInit => AddressedInv
<1> SUFFICES ASSUME HeaderInit PROVE AddressedInv
  OBVIOUS
<1>1. serving \in Objects /\ stage = "idle" /\ asked = Nobody /\ msg = [o \in Objects |-> msg[o]]
  BY DEF HeaderInit, Objects
<1> QED
  BY <1>1, NobodyAsks DEF AddressedInv

LEMMA AddressedReceive ==
    ASSUME AddressedInv, NEW o \in Objects, NEW r \in Requests, Receive(o, r)
    PROVE  AddressedInv'
<1>1. stage' = "asked" /\ asked' = r /\ serving' = o
  BY DEF Receive
<1>2. msg' = [p \in Objects |-> msg'[p]] /\ msg'[o] = Received(msg[o], r)
  BY DEF Receive, AddressedInv
<1>3. CameAs(msg'[o], r)
  <2>1. r.via \in {"TCP", "UDP", "GET", "POST"}
    BY HeaderAssumption
  <2>2. CameAs(Received(msg[o], r), r)
    BY <2>1, ReceivedCameAs
  <2> QED
    BY <1>2, <2>2
<1> QED
  BY <1>1, <1>2, <1>3 DEF AddressedInv

LEMMA AddressedNotify ==
    ASSUME AddressedInv, PostNotifyMessage
    PROVE  AddressedInv'
<1> DEFINE s == serving
           o == Other(serving)
           b == NotifyMessage(msg[o], msg[s])
           n == Dispatched(b)
<1>1. stage' = "made" /\ UNCHANGED <<serving, asked>> /\ asked \in Requests
      /\ s \in Objects /\ o \in Objects /\ o # s /\ CameAs(msg[s], asked)
  BY OtherObject DEF PostNotifyMessage, AddressedInv
<1>2. /\ msg' = [p \in Objects |-> msg'[p]] /\ msg'[o] = n
      /\ msg'[s] = [msg[s] EXCEPT !.MsgNotifyActionType = "notify-no"]
  <2> HIDE DEF n
  <2>1. msg' = [msg EXCEPT ![s].MsgNotifyActionType = "notify-no", ![o] = n]
    BY <1>1 DEF PostNotifyMessage, n
  <2> HIDE DEF o, s
  <2> QED
    BY <1>1, <2>1 DEF AddressedInv
<1>3. /\ DOMAIN msg'[s] = MsgFields
      /\ \A f \in MsgFields \ {"MsgNotifyActionType"} : msg'[s][f] = msg[s][f]
  BY <1>1, <1>2 DEF CameAs, MsgFields
<1>4. CameAs(msg'[s], asked)
  BY <1>1, <1>3 DEF CameAs, MsgFields
<1>5. AnswersTo(n, msg[s])
  <2>1. AnswersTo(b, msg[s])
    BY DEF AnswersTo, NotifyMessage, ResetMsg, Fields
  <2>2. DOMAIN b = MsgFields
    BY DEF NotifyMessage, ResetMsg, Fields, MsgFields
  <2> HIDE DEF b
  <2> QED
    BY <2>1, <2>2, AnswersDispatched
<1> HIDE DEF n
<1>6. AnswersTo(msg'[o], msg'[s])
  BY <1>2, <1>3, <1>5 DEF AnswersTo, MsgFields
<1>7. asked \notin Errands
  BY <1>1, HeaderAssumption
<1> QED
  BY <1>1, <1>2, <1>4, <1>6, <1>7 DEF AddressedInv

LEMMA AddressedAnswer ==
    ASSUME AddressedInv, NEW length \in Bodies, Answer(length)
    PROVE  AddressedInv'
<1> DEFINE s == serving
           o == Other(serving)
           c == CreateMessageReply(msg[o], msg[s])
           typed == [c EXCEPT !.MsgContentType = <<"text/html">>]
<1>1. stage' = "made" /\ UNCHANGED <<serving, asked>> /\ asked \in Requests
      /\ s \in Objects /\ o \in Objects /\ o # s /\ CameAs(msg[s], asked)
  BY OtherObject DEF Answer, AddressedInv
<1>2. DOMAIN c = MsgFields
  BY DEF CreateMessageReply, ResetMsg, Fields, MsgFields
<1>3. AnswersTo(c, msg[s])
  BY DEF AnswersTo, CreateMessageReply, ResetMsg, Fields
<1> HIDE DEF c
<1>4. msg' = [msg EXCEPT ![o] = IF length = 0 THEN Dispatched(c)
                                ELSE Dispatched(SetContentPayload(typed, "content", length))]
  BY DEF Answer, c
<1>5. DOMAIN typed = MsgFields /\ typed.MsgContentType = <<"text/html">>
      /\ \A f \in MsgFields \ {"MsgContentType"} : typed[f] = c[f]
  BY <1>2 DEF MsgFields
<1> HIDE DEF typed
<1> DEFINE full == SetContentPayload(typed, "content", length)
<1>6. /\ full.MsgTo = c.MsgTo /\ full.TCPSocketHandle = c.TCPSocketHandle
      /\ full.MsgConnectionType = c.MsgConnectionType /\ full.MsgFormat = c.MsgFormat
      /\ full.UDPSocketHandle = c.UDPSocketHandle /\ full.MsgProtocolType = c.MsgProtocolType
      /\ full.MsgID = c.MsgID /\ full.MsgFrom = c.MsgFrom /\ full.m_bKeepAlive = c.m_bKeepAlive
      /\ full.MsgContentLength = length /\ full.MsgContentType = <<"text/html">>
      /\ DOMAIN full = MsgFields
  BY <1>5, PayloadSet DEF MsgFields
<1> HIDE DEF full
<1>7. length # 0 => AnswersTo(Dispatched(full), msg[s])
  <2>1. length # 0 => AnswersTo(full, msg[s])
    BY <1>3, <1>6 DEF AnswersTo
  <2> QED
    BY <1>6, <2>1, AnswersDispatched
<1>d. AnswersTo(Dispatched(c), msg[s])
  BY <1>2, <1>3, AnswersDispatched
<1>8. msg' = [p \in Objects |-> msg'[p]] /\ msg'[s] = msg[s]
      /\ msg'[o] = IF length = 0 THEN Dispatched(c) ELSE Dispatched(full)
  <2> HIDE DEF o, s
  <2> QED
    BY <1>1, <1>4 DEF AddressedInv, full
<1>9. asked \notin Errands
  BY <1>1, HeaderAssumption
<1> QED
  BY <1>1, <1>d, <1>7, <1>8, <1>9 DEF AddressedInv

LEMMA AddressedAsk ==
    ASSUME AddressedInv, NEW o \in Objects, NEW e \in Errands, Ask(o, e)
    PROVE  AddressedInv'
<1>1. stage' = "made" /\ asked' = e /\ serving' = Other(o)
  BY DEF Ask
<1>2. serving' \in Objects /\ Other(serving') = o
  BY <1>1, OtherObject
<1>3. msg' = [p \in Objects |-> msg'[p]]
  BY DEF Ask, AddressedInv
<1>4. SentAs(msg'[o], e)
  <2> DEFINE q == [ResetMsg(msg[o]) EXCEPT !.MsgCommand = <<"ECHO">>, !.MsgTo = e.to,
                                           !.MsgProtocolType = "MCP",
                                           !.MsgConnectionType = e.via]
             d == Dispatched(q)
  <2>1. SentAs(q, e) /\ DOMAIN q = MsgFields
    BY DEF SentAs, ResetMsg, Fields, MsgFields
  <2>2. msg' = [msg EXCEPT ![o] = d]
    BY DEF Ask
  <2> HIDE DEF q
  <2>3. /\ DOMAIN d = MsgFields /\ d.MsgFrom \in {q.MsgFrom, ThisNode}
        /\ \A f \in MsgFields \ {"MsgFrom"} : d[f] = q[f]
    BY <2>1, DispatchedSays
  <2> HIDE DEF d
  <2>4. msg'[o] = d
    BY <2>2 DEF AddressedInv
  <2>5. SentAs(d, e)
    BY <2>1, <2>3 DEF SentAs, MsgFields
  <2> QED
    BY <2>4, <2>5
<1>5. e \notin Requests
  BY HeaderAssumption
<1> QED
  BY <1>1, <1>2, <1>3, <1>4, <1>5 DEF AddressedInv

LEMMA AddressedTransmit ==
    ASSUME AddressedInv, TransmitMsg
    PROVE  AddressedInv'
<1> DEFINE a == msg[Other(serving)]
<1>1. UNCHANGED <<msg, serving>> /\ stage = "made"
  BY DEF TransmitMsg
<1>2. CASE TransmitMCP(a)
  <2>1. stage' = "wire" /\ asked' = asked /\ a.MsgProtocolType = "MCP"
    BY <1>2 DEF TransmitMCP
  <2>2. sent'.to = IF HasSocket(a) THEN Socket ELSE [addr |-> m_ServerAddr', port |-> m_ServerPort']
    BY <1>2 DEF TransmitMCP
  <2>3. a.MsgTo # <<>> => m_ServerAddr' = AddrIn(a.MsgTo) /\ m_ServerPort' = PortIn(a.MsgTo)
    BY <1>2 DEF TransmitMCP, SetsAddress
  <2>4. GoesTo(sent'.to, a)
    BY <2>1, <2>2, <2>3 DEF GoesTo, Address
  <2>5. /\ sent'.via = a.MsgConnectionType
        /\ sent'.lines = IF a.MsgFormat \in {"RES", "NOTIFY"} THEN ResponseLines(a)
                         ELSE RequestLines(a)
    BY <1>2 DEF TransmitMCP
  <2>6. asked \in Requests => a.MsgFormat \in {"RES", "NOTIFY"}
    BY <1>1 DEF AddressedInv, AnswersTo
  <2>7. asked \in Errands => a.MsgFormat \notin {"RES", "NOTIFY"}
    BY <1>1 DEF AddressedInv, SentAs
  <2> QED
    BY <1>1, <2>1, <2>4, <2>5, <2>6, <2>7 DEF AddressedInv
<1>3. CASE TransmitHTTP(a)
  <2>1. CASE stage' = "idle"
    BY <1>1, <1>3, <2>1, NobodyAsks DEF TransmitHTTP, AddressedInv
  <2>2. CASE stage' = "wire"
    <3>1. asked' = asked /\ sent'.to = Socket /\ sent'.via = "HTTP" /\ a.MsgProtocolType \in {"GET", "POST"}
      BY <1>3, <2>2 DEF TransmitHTTP
    <3>2. GoesTo(sent'.to, a)
      BY <3>1 DEF GoesTo
    <3> QED
      BY <1>1, <2>2, <3>1, <3>2 DEF AddressedInv
  <2> QED
    BY <1>3, <2>1, <2>2 DEF TransmitHTTP
<1> QED
  BY <1>2, <1>3 DEF TransmitMsg

LEMMA AddressedArrive ==
    ASSUME AddressedInv, Arrive
    PROVE  AddressedInv'
<1>1. UNCHANGED <<msg, serving>> /\ stage = "wire"
  BY DEF Arrive
<1>2. CASE msg[Other(serving)].MsgFormat = "NOTIFY"
  <2>1. stage' = "asked" /\ asked' = asked
    BY <1>2 DEF Arrive
  <2>2. asked \in Requests
    BY <1>1, <1>2 DEF AddressedInv, SentAs
  <2> QED
    BY <1>1, <2>1, <2>2 DEF AddressedInv
<1>3. CASE msg[Other(serving)].MsgFormat # "NOTIFY"
  BY <1>1, <1>3, NobodyAsks DEF Arrive, AddressedInv
<1> QED
  BY <1>2, <1>3

\* An answer goes to the socket of its client if this is connected or waits, and else
\* to the address in the tag that was read, if there was one, although the outbound
\* handler keeps the address of the message before (connectionhandleroutbound.cpp:281).
THEOREM AnswersFindTheirWay == HeaderSpec => []AddressedInv
<1>1. AddressedInv /\ [HeaderNext]_headerVars => AddressedInv'
  <2> SUFFICES ASSUME AddressedInv, [HeaderNext]_headerVars PROVE AddressedInv'
    OBVIOUS
  <2>1. CASE UNCHANGED headerVars
    BY <2>1 DEF headerVars, AddressedInv
  <2>2. CASE HeaderNext
    BY <2>2, AddressedReceive, AddressedNotify, AddressedAnswer, AddressedAsk,
       AddressedTransmit, AddressedArrive DEF HeaderNext
  <2> QED
    BY <2>1, <2>2
<1> QED
  BY <1>1, AddressedInit, PTL DEF HeaderSpec

-----------------------------------------------------------------------------
(* What a client writes is what the request in service says. *)

LEMMA Least ==
    ASSUME NEW S, S \subseteq Int, NEW i \in S, \A j \in S : i <= j
    PROVE  Min(S) = i
<1>1. \A x \in S : (\A y \in S : x <= y) <=> x = i
  OBVIOUS
<1> QED
  BY <1>1, Zenon DEF Min

\* The first word that is found decides.
LEMMA FirstOption ==
    ASSUME NEW words, DOMAIN words = 1 .. Len(words), Len(words) \in Nat,
           NEW options, NEW default, NEW i \in 1 .. Len(words),
           HasOption(options, words[i]), \A j \in 1 .. i - 1 : ~HasOption(options, words[j])
    PROVE  Option(words, options, default) = words[i]
<1> DEFINE Places == {j \in 1 .. Len(words) : HasOption(options, words[j])}
<1>1. i \in Places /\ \A j \in Places : i <= j
  OBVIOUS
<1>2. Places \subseteq Int
  OBVIOUS
<1>3. Min(Places) = i
  <2> HIDE DEF Places
  <2> QED
    BY <1>1, <1>2, Least
<1>4. SelectInSeq(words, LAMBDA w : HasOption(options, w)) = i
  BY <1>1, <1>3 DEF SelectInSeq
<1> QED
  BY <1>4 DEF Option

LEMMA NoOption ==
    ASSUME NEW words, NEW options, NEW default,
           \A j \in 1 .. Len(words) : ~HasOption(options, words[j])
    PROVE  Option(words, options, default) = default
<1>1. SelectInSeq(words, LAMBDA w : HasOption(options, w)) = 0
  BY DEF SelectInSeq
<1> QED
  BY <1>1 DEF Option

\* A word is found where it is an option, or one that begins with it is.
LEMMA OptionsFound ==
    ASSUME NEW options
    PROVE  LET Has(word) == word \in Range(options)
           IN /\ HasOption(options, "priority-lowest") <=> Has("priority-lowest")
              /\ HasOption(options, "priority-low") <=>
                    (Has("priority-low") \/ Has("priority-lowest"))
              /\ HasOption(options, "priority-mid") <=> Has("priority-mid")
              /\ HasOption(options, "priority-highest") <=> Has("priority-highest")
              /\ HasOption(options, "priority-high") <=>
                    (Has("priority-high") \/ Has("priority-highest"))
              /\ \A word \in ReplyWords : HasOption(options, word) <=> Has(word)
<1>1. \A word : word \in Range(options) <=> \E i \in DOMAIN options : options[i] = word
  BY DEF Range
<1>2. \A word, option : <<word, option>> \in Longer <=>
          \/ word = "priority-low" /\ option = "priority-lowest"
          \/ word = "priority-high" /\ option = "priority-highest"
  BY DEF Longer
<1>3. \A word : HasOption(options, word) <=>
          \/ word \in Range(options)
          \/ word = "priority-low" /\ "priority-lowest" \in Range(options)
          \/ word = "priority-high" /\ "priority-highest" \in Range(options)
  BY <1>1, <1>2, Zenon DEF HasOption
<1>4. \A word \in ReplyWords : word # "priority-low" /\ word # "priority-high"
  BY DEF ReplyWords
<1> QED
  BY <1>3, <1>4

\* The one priority among the options is read, though "priority-low" is also found in
\* "priority-lowest" and "priority-high" in "priority-highest" (msg.cpp:140).
LEMMA PriorityRead ==
    ASSUME NEW options, NEW p,
           \/ Range(options) \cap PriorityWords = {p}
           \/ Range(options) \cap PriorityWords = {} /\ p = "priority-lowest"
    PROVE  Priority(options) = p
<1> DEFINE Has(word) == word \in Range(options)
           words == <<"priority-lowest", "priority-low", "priority-mid", "priority-highest",
                      "priority-high">>
           Found(word) == HasOption(options, word)
<1>1. /\ Found("priority-lowest") <=> Has("priority-lowest")
      /\ Found("priority-low") <=> (Has("priority-low") \/ Has("priority-lowest"))
      /\ Found("priority-mid") <=> Has("priority-mid")
      /\ Found("priority-highest") <=> Has("priority-highest")
      /\ Found("priority-high") <=> (Has("priority-high") \/ Has("priority-highest"))
  BY OptionsFound
<1>2. /\ DOMAIN words = 1 .. 5 /\ Len(words) = 5
      /\ words[1] = "priority-lowest" /\ words[2] = "priority-low" /\ words[3] = "priority-mid"
      /\ words[4] = "priority-highest" /\ words[5] = "priority-high"
  OBVIOUS
<1>3. Priority(options) = Option(words, options, "priority-lowest")
  BY DEF Priority
<1> HIDE DEF words, Found, Has
<1>4. CASE Range(options) \cap PriorityWords = {p}
  <2>1. /\ p \in PriorityWords /\ Has(p)
        /\ \A word \in PriorityWords : Has(word) => word = p
    BY <1>4 DEF Has
  <2>2. ASSUME NEW i \in 1 .. 5, words[i] = p, \A j \in 1 .. i - 1 : ~Found(words[j]), Found(p)
        PROVE  Priority(options) = p
    BY <1>2, <1>3, <2>2, FirstOption DEF Found
  <2>3. CASE p = "priority-lowest"
    <3>1. Found(p) /\ words[1] = p
      BY <1>1, <1>2, <2>1, <2>3
    <3> QED
      BY <2>2, <3>1
  <2>4. CASE p = "priority-low"
    <3>1. Found(p) /\ words[2] = p /\ ~Found(words[1])
      BY <1>1, <1>2, <2>1, <2>4 DEF PriorityWords
    <3> QED
      BY <2>2, <3>1
  <2>5. CASE p = "priority-mid"
    <3>1. Found(p) /\ words[3] = p /\ ~Found(words[1]) /\ ~Found(words[2])
      BY <1>1, <1>2, <2>1, <2>5 DEF PriorityWords
    <3> QED
      BY <2>2, <3>1
  <2>6. CASE p = "priority-highest"
    <3>1. Found(p) /\ words[4] = p /\ ~Found(words[1]) /\ ~Found(words[2]) /\ ~Found(words[3])
      BY <1>1, <1>2, <2>1, <2>6 DEF PriorityWords
    <3> QED
      BY <2>2, <3>1
  <2>7. CASE p = "priority-high"
    <3>1. Found(p) /\ words[5] = p /\ ~Found(words[1]) /\ ~Found(words[2]) /\ ~Found(words[3])
          /\ ~Found(words[4])
      BY <1>1, <1>2, <2>1, <2>7 DEF PriorityWords
    <3> QED
      BY <2>2, <3>1
  <2> QED
    BY <2>1, <2>3, <2>4, <2>5, <2>6, <2>7 DEF PriorityWords
<1>5. CASE Range(options) \cap PriorityWords = {} /\ p = "priority-lowest"
  <2>1. \A word \in PriorityWords : ~Has(word)
    BY <1>5 DEF Has
  <2>2. \A j \in 1 .. 5 : ~Found(words[j])
    BY <1>1, <1>2, <2>1 DEF PriorityWords
  <2> QED
    BY <1>2, <1>3, <1>5, <2>2, NoOption DEF Found
<1> QED
  BY <1>4, <1>5

\* The one reply action among the options is read, or else the way in decides.
LEMMA ReplyOrder ==
    LET words == <<"reply-none", "reply-wait", "reply-nowait">>
    IN DOMAIN words = 1 .. 3 /\ Len(words) = 3
       /\ words[1] = "reply-none" /\ words[2] = "reply-wait" /\ words[3] = "reply-nowait"
OBVIOUS

LEMMA ReplyRead ==
    ASSUME NEW options, NEW reply, NEW ct,
           \/ Range(options) \cap ReplyWords = {reply}
           \/ Range(options) \cap ReplyWords = {} /\ reply \notin ReplyWords
    PROVE  ReplyAction(options, ct) =
               IF reply \in ReplyWords THEN reply
               ELSE IF ct = "IB_UDP" THEN "reply-nowait" ELSE "reply-wait"
<1> DEFINE words == <<"reply-none", "reply-wait", "reply-nowait">>
           default == IF ct = "IB_UDP" THEN "reply-nowait" ELSE "reply-wait"
           Found(word) == HasOption(options, word)
<1>1. \A word \in ReplyWords : Found(word) <=> word \in Range(options)
  BY OptionsFound
<1>2. /\ DOMAIN words = 1 .. 3 /\ Len(words) = 3
      /\ words[1] = "reply-none" /\ words[2] = "reply-wait" /\ words[3] = "reply-nowait"
  BY ReplyOrder, Zenon
<1>3. ReplyAction(options, ct) = Option(words, options, default)
  BY DEF ReplyAction
<1>4. ReplyWords = {"reply-none", "reply-wait", "reply-nowait"}
  BY DEF ReplyWords
<1> HIDE DEF words, default, Found
<1>5. CASE Range(options) \cap ReplyWords = {reply}
  <2>1. reply \in ReplyWords /\ Found(reply) /\ \A word \in ReplyWords : Found(word) => word = reply
    BY <1>1, <1>5
  <2>2. ASSUME NEW i \in 1 .. 3, words[i] = reply, \A j \in 1 .. i - 1 : ~Found(words[j])
        PROVE  Option(words, options, default) = reply
    BY <1>2, <2>1, <2>2, FirstOption DEF Found
  <2>3. Option(words, options, default) = reply
    <3>1. CASE reply = "reply-none"
      <4>1. words[1] = reply
        BY <1>2, <3>1
      <4> QED
        BY <2>2, <4>1
    <3>2. CASE reply = "reply-wait"
      <4>1. words[2] = reply /\ ~Found(words[1])
        BY <1>2, <1>4, <2>1, <3>2
      <4> QED
        BY <2>2, <4>1
    <3>3. CASE reply = "reply-nowait"
      <4>1. words[3] = reply /\ ~Found(words[1]) /\ ~Found(words[2])
        BY <1>2, <1>4, <2>1, <3>3
      <4> QED
        BY <2>2, <4>1
    <3> QED
      BY <1>4, <2>1, <3>1, <3>2, <3>3
  <2> QED
    BY <1>3, <2>1, <2>3
<1>6. CASE Range(options) \cap ReplyWords = {} /\ reply \notin ReplyWords
  <2>1. \A word \in ReplyWords : ~Found(word)
    BY <1>1, <1>6
  <2>2. words[1] \in ReplyWords /\ words[2] \in ReplyWords /\ words[3] \in ReplyWords
    BY <1>2, <1>4
  <2>3. Option(words, options, default) = default
    BY <1>2, <2>1, <2>2, NoOption DEF Found
  <2> QED
    BY <1>3, <1>6, <2>3 DEF default
<1> QED
  BY <1>5, <1>6

\* What is read from the lines of a message, whatever object it is read into.
LEMMA ReadText ==
    ASSUME NEW o, NEW r, r.via \in {"TCP", "UDP", "GET", "POST"}
    PROVE  LET p == Received(o, r)
               id == GetValue(r.lines, "MsgID")
               options == GetValue(r.lines, "Options")
               length == GetValue(r.lines, "Content-Length")
               web == r.via \in {"GET", "POST"}
           IN /\ p.MsgTo = SetTag(GetValue(r.lines, "To"))
              /\ p.MsgFrom = SetTag(GetValue(r.lines, "From"))
              /\ p.m_bKeepAlive = (GetValue(r.lines, "Connection") \notin {<<"close">>, <<"Close">>})
              /\ p.MsgContentType = GetValue(r.lines, "Content-Type")
              /\ p.MsgContentLength = IF length = <<>> THEN 0 ELSE Value(atoi(length))
              /\ length # <<>> => p.m_pPayload = "content"
              /\ p.MsgID = IF web \/ id \in {<<>>, <<"0">>} THEN <<"new">> ELSE id
              /\ p.MsgPriority = IF web THEN "priority-high" ELSE Priority(options)
              /\ p.MsgReplyActionType =
                    IF web THEN "reply-wait"
                    ELSE ReplyAction(options, IF r.via = "UDP" THEN "IB_UDP" ELSE "IB_TCP")
<1> DEFINE lines == r.lines
           id == GetValue(lines, "MsgID")
           to == GetValue(lines, "To")
           from == GetValue(lines, "From")
           kept == GetValue(lines, "Connection")
           type == GetValue(lines, "Content-Type")
           length == GetValue(lines, "Content-Length")
           options == GetValue(lines, "Options")
           Common(p) == /\ p.MsgTo = SetTag(to) /\ p.MsgFrom = SetTag(from)
                        /\ p.m_bKeepAlive = (kept \notin {<<"close">>, <<"Close">>})
                        /\ p.MsgContentType = type
                        /\ p.MsgContentLength = IF length = <<>> THEN 0 ELSE Value(atoi(length))
                        /\ length # <<>> => p.m_pPayload = "content"
           Own(p, ct) == /\ p.MsgID = IF id \in {<<>>, <<"0">>} THEN <<"new">> ELSE id
                         /\ p.MsgPriority = Priority(options)
                         /\ p.MsgReplyActionType = ReplyAction(options, ct)
<1>1. ASSUME NEW m, DOMAIN m = MsgFields, m.m_bKeepAlive = TRUE, NEW ct
      PROVE  LET p == Parse(m, ct, lines)
             IN Common(p) /\ Own(p, ct) /\ DOMAIN p = MsgFields
  <2> DEFINE p == Parse(m, ct, lines)
  <2>1. DOMAIN p = MsgFields
    BY <1>1 DEF Parse
  <2>2. p.MsgTo = SetTag(to) /\ p.MsgFrom = SetTag(from)
    BY <1>1 DEF Parse, MsgFields
  <2>3. p.m_bKeepAlive = (kept \notin {<<"close">>, <<"Close">>})
    BY <1>1 DEF Parse, MsgFields
  <2>4. p.MsgContentType = type
        /\ p.MsgContentLength = IF length = <<>> THEN 0 ELSE Value(atoi(length))
    BY <1>1 DEF Parse, MsgFields
  <2>5. p.MsgID = IF id \in {<<>>, <<"0">>} THEN <<"new">> ELSE id
    BY <1>1 DEF Parse, MsgFields
  <2>6. p.MsgPriority = Priority(options) /\ p.MsgReplyActionType = ReplyAction(options, ct)
    BY <1>1 DEF Parse, MsgFields
  <2>7. length # <<>> => p.m_pPayload = "content"
    BY <1>1 DEF Parse, MsgFields
  <2> QED
    BY <2>1, <2>2, <2>3, <2>4, <2>5, <2>6, <2>7
<1>2. ASSUME NEW via
      PROVE  /\ CreateMessage(o, via).m_bKeepAlive = TRUE
             /\ DOMAIN CreateMessage(o, via) = MsgFields
  BY DEF CreateMessage, ResetMsg, Fields, MsgFields
<1> HIDE DEF id, to, from, kept, type, length, options, lines
<1>3. CASE r.via = "TCP"
  <2> DEFINE o1 == CreateMessage(o, "TCP")
             c == SetContentPayload(o1, "start", 1)
             p == Parse(c, "IB_TCP", lines)
  <2>1. DOMAIN o1 = MsgFields /\ o1.m_bKeepAlive = TRUE
    BY <1>2
  <2> HIDE DEF o1
  <2>2. DOMAIN c = MsgFields /\ c.m_bKeepAlive = TRUE
    BY <2>1, PayloadSet DEF MsgFields
  <2>3. Received(o, r) = p
    BY <1>3 DEF Received, ProcessMCP, lines, o1
  <2> HIDE DEF c, Common, Own
  <2>4. Common(p) /\ Own(p, "IB_TCP")
    BY <1>1, <2>2
  <2> QED
    BY <1>3, <2>3, <2>4 DEF Common, Own, id, to, from, kept, type, length, options, lines
<1>4. CASE r.via = "UDP"
  <2> DEFINE c == CreateMessage(o, "UDP")
             p == Parse(c, "IB_UDP", lines)
             q == Received(o, r)
  <2>1. DOMAIN c = MsgFields /\ c.m_bKeepAlive = TRUE
    BY <1>2
  <2>2. q = [p EXCEPT !.MsgProtocolType = "MCP",
                      !.UDPSocketHandle = p.MsgReplyActionType = "reply-wait"]
    BY <1>4 DEF Received, ReceiveUDP, lines
  <2>3. Common(p) /\ Own(p, "IB_UDP") /\ DOMAIN p = MsgFields
    <3> HIDE DEF c, Common, Own
    <3> QED
      BY <1>1, <2>1
  <2> HIDE DEF p, q
  <2>4. Common(q) /\ Own(q, "IB_UDP")
    BY <2>2, <2>3 DEF MsgFields
  <2> QED
    BY <1>4, <2>4 DEF q, id, to, from, kept, type, length, options, lines
<1>5. CASE r.via \in {"GET", "POST"}
  <2> DEFINE o1 == CreateMessage(o, r.via)
             c == SetContentPayload(o1, "start", 1)
             p == Parse(c, "IB_TCP", lines)
             q == Received(o, r)
  <2>1. DOMAIN o1 = MsgFields /\ o1.m_bKeepAlive = TRUE
    BY <1>2
  <2> HIDE DEF o1
  <2>2. DOMAIN c = MsgFields /\ c.m_bKeepAlive = TRUE
    BY <2>1, PayloadSet DEF MsgFields
  <2>3. q = [p EXCEPT !.MsgID = <<"new">>, !.MsgPriority = "priority-high",
                      !.MsgNotifyActionType = "notify-no", !.MsgReplyActionType = "reply-wait"]
    BY <1>5 DEF Received, ProcessHTTP, lines, o1
  <2>4. Common(p) /\ DOMAIN p = MsgFields
    <3> HIDE DEF c, Common, Own
    <3> QED
      BY <1>1, <2>2
  <2> HIDE DEF p, q
  <2>5. Common(q) /\ q.MsgID = <<"new">> /\ q.MsgPriority = "priority-high"
        /\ q.MsgReplyActionType = "reply-wait"
    BY <2>3, <2>4 DEF MsgFields
  <2> QED
    BY <1>5, <2>5 DEF q, id, to, from, kept, type, length, options, lines
<1> QED
  BY <1>3, <1>4, <1>5

\* A request is read as its client wrote it, whatever object it is read into.
LEMMA RequestRead ==
    ASSUME NEW o, NEW r \in Requests
    PROVE  SaysWritten(Received(o, r), r)
<1> DEFINE p == Received(o, r)
           w == r.wrote
           lines == r.lines
           web == r.via \in {"GET", "POST"}
           options == GetValue(lines, "Options")
           length == GetValue(lines, "Content-Length")
           ct == IF r.via = "UDP" THEN "IB_UDP" ELSE "IB_TCP"
<1>1. r.via \in {"TCP", "UDP", "GET", "POST"}
  BY HeaderAssumption, Zenon
<1>2. /\ p.MsgFrom = SetTag(GetValue(lines, "From"))
      /\ p.m_bKeepAlive = (GetValue(lines, "Connection") \notin {<<"close">>, <<"Close">>})
      /\ p.MsgContentLength = IF length = <<>> THEN 0 ELSE Value(atoi(length))
      /\ p.MsgID = IF web \/ GetValue(lines, "MsgID") \in {<<>>, <<"0">>} THEN <<"new">>
                   ELSE GetValue(lines, "MsgID")
      /\ p.MsgPriority = IF web THEN "priority-high" ELSE Priority(options)
      /\ p.MsgReplyActionType = IF web THEN "reply-wait" ELSE ReplyAction(options, ct)
  BY <1>1, ReadText
<1>3. /\ SetTag(GetValue(lines, "From")) = w.from
      /\ GetValue(lines, "MsgID") = w.id
      /\ w.close = (GetValue(lines, "Connection") \in {<<"close">>, <<"Close">>})
      /\ w.length = IF length = <<>> THEN 0 ELSE Value(atoi(length))
  BY WrittenAssumption
<1>4. ~web => /\ \/ Range(options) \cap PriorityWords = {w.priority}
                 \/ Range(options) \cap PriorityWords = {} /\ w.priority = "priority-lowest"
              /\ \/ Range(options) \cap ReplyWords = {w.reply}
                 \/ Range(options) \cap ReplyWords = {} /\ w.reply \notin ReplyWords
  BY <1>1, WrittenAssumption
<1> HIDE DEF p, w, web, lines, options, length
<1>5. ~web => Priority(options) = w.priority
  BY <1>4, PriorityRead
<1>6. ~web => ReplyAction(options, ct) =
                  IF w.reply \in ReplyWords THEN w.reply
                  ELSE IF r.via = "UDP" THEN "reply-nowait" ELSE "reply-wait"
  <2> SUFFICES ASSUME ~web
               PROVE  ReplyAction(options, ct) =
                          IF w.reply \in ReplyWords THEN w.reply
                          ELSE IF r.via = "UDP" THEN "reply-nowait" ELSE "reply-wait"
    OBVIOUS
  <2>1. (ct = "IB_UDP") = (r.via = "UDP")
    OBVIOUS
  <2> HIDE DEF ct
  <2>2. ReplyAction(options, ct) =
            IF w.reply \in ReplyWords THEN w.reply
            ELSE IF ct = "IB_UDP" THEN "reply-nowait" ELSE "reply-wait"
    BY <1>4, ReplyRead
  <2> QED
    BY <2>1, <2>2
<1>7. p.MsgReplyActionType =
          CASE web -> "reply-wait"
            [] ~web /\ w.reply \in ReplyWords -> w.reply
            [] OTHER -> IF r.via = "UDP" THEN "reply-nowait" ELSE "reply-wait"
  BY <1>2, <1>6
<1>8. p.MsgFrom = w.from /\ p.MsgContentLength = w.length
      /\ p.MsgPriority = IF web THEN "priority-high" ELSE w.priority
  BY <1>2, <1>3, <1>5
<1>9. p.MsgID = IF web \/ w.id \in {<<>>, <<"0">>} THEN <<"new">> ELSE w.id
  BY <1>2, <1>3
<1>10. p.m_bKeepAlive = ~w.close
  BY <1>2, <1>3
<1> QED
  BY <1>7, <1>8, <1>9, <1>10 DEF SaysWritten, p, w, web

\* The request in service says what its client wrote until its answer has gone.
WrittenInv == asked \in Requests => SaysWritten(msg[serving], asked)

LEMMA WrittenStep ==
    ASSUME AddressedInv, WrittenInv, [HeaderNext]_headerVars
    PROVE  WrittenInv'
<1>1. ASSUME NEW o \in Objects, NEW r \in Requests, Receive(o, r)
      PROVE  WrittenInv'
  <2>1. asked' = r /\ serving' = o /\ msg'[o] = Received(msg[o], r)
    BY <1>1 DEF Receive, AddressedInv
  <2> QED
    BY <2>1, RequestRead DEF WrittenInv
<1>2. CASE \E o \in Objects, e \in Errands : Ask(o, e)
  <2>1. asked' \notin Requests
    BY <1>2, HeaderAssumption DEF Ask
  <2> QED
    BY <2>1 DEF WrittenInv
<1>3. CASE \E length \in Bodies : Answer(length)
  <2>1. UNCHANGED <<serving, asked>> /\ serving \in Objects /\ Other(serving) # serving
    BY <1>3, OtherObject DEF Answer, AddressedInv
  <2>2. msg'[serving] = msg[serving]
    BY <1>3, <2>1 DEF Answer, AddressedInv
  <2> QED
    BY <2>1, <2>2 DEF WrittenInv
<1>4. CASE PostNotifyMessage
  <2> DEFINE s == serving
             o == Other(serving)
             n == Dispatched(NotifyMessage(msg[o], msg[s]))
  <2>1. UNCHANGED <<serving, asked>> /\ asked \in Requests
        /\ s \in Objects /\ o # s /\ DOMAIN msg[s] = MsgFields
    BY <1>4, OtherObject DEF PostNotifyMessage, AddressedInv, CameAs
  <2>2. msg' = [msg EXCEPT ![s].MsgNotifyActionType = "notify-no", ![o] = n]
    BY <1>4 DEF PostNotifyMessage
  <2> HIDE DEF n, o, s
  <2>3. msg'[s] = [msg[s] EXCEPT !.MsgNotifyActionType = "notify-no"]
    BY <2>1, <2>2 DEF AddressedInv
  <2>4. /\ msg'[s].MsgFrom = msg[s].MsgFrom /\ msg'[s].MsgID = msg[s].MsgID
        /\ msg'[s].MsgReplyActionType = msg[s].MsgReplyActionType
        /\ msg'[s].m_bKeepAlive = msg[s].m_bKeepAlive
        /\ msg'[s].MsgContentLength = msg[s].MsgContentLength
        /\ msg'[s].MsgPriority = msg[s].MsgPriority
    BY <2>1, <2>3 DEF MsgFields
  <2>5. SaysWritten(msg[s], asked)
    BY <2>1 DEF WrittenInv, s
  <2>6. SaysWritten(msg'[s], asked)
    BY <2>4, <2>5, Zenon DEF SaysWritten
  <2> QED
    BY <2>1, <2>6 DEF WrittenInv, s
<1>5. CASE TransmitMsg \/ Arrive
  <2>1. UNCHANGED <<msg, serving>> /\ asked' \in {asked, Nobody}
    BY <1>5 DEF TransmitMsg, TransmitMCP, TransmitHTTP, Arrive
  <2> QED
    BY <2>1, NobodyAsks DEF WrittenInv
<1>6. CASE UNCHANGED headerVars
  BY <1>6 DEF headerVars, WrittenInv
<1> QED
  BY <1>1, <1>2, <1>3, <1>4, <1>5, <1>6 DEF HeaderNext

\* Every request is read as its client wrote it, by each way in and into whatever was
\* read or sent in its object before: for any text with at most one word of a kind
\* among its options (msg.cpp:91-190).
THEOREM ReadAsMeant == HeaderSpec => [](WrittenInv /\ AsWritten)
<1>1. HeaderInit => WrittenInv
  BY NobodyAsks DEF HeaderInit, WrittenInv
<1>2. AddressedInv /\ WrittenInv /\ [HeaderNext]_headerVars => WrittenInv'
  BY WrittenStep
<1>3. WrittenInv => AsWritten
  BY Zenon DEF WrittenInv, AsWritten
<1> QED
  BY <1>1, <1>2, <1>3, AnswersFindTheirWay, PTL DEF HeaderSpec

\* What the message that serves r keeps of it for its answer.
LEMMA KeptForAnswer ==
    ASSUME NEW m, NEW r \in Requests, SaysWritten(m, r)
    PROVE  /\ m.MsgFrom = r.wrote.from /\ m.m_bKeepAlive = ~r.wrote.close
           /\ \/ m.MsgID = <<"new">>
              \/ m.MsgID = <<r.wrote.id[1]>> /\ r.wrote.id[1] # "0"
           /\ (r.via = "UDP" /\ r.wrote.reply = "reply-wait") =>
                 m.MsgReplyActionType = "reply-wait"
<1> DEFINE w == r.wrote
<1>1. m.MsgFrom = w.from /\ m.m_bKeepAlive = ~w.close
  BY DEF SaysWritten
<1>2. m.MsgID = <<"new">> \/ (m.MsgID = <<w.id[1]>> /\ w.id[1] # "0")
  <2>1. m.MsgID = <<"new">> \/ (m.MsgID = w.id /\ w.id # <<>> /\ w.id # <<"0">>)
    BY DEF SaysWritten
  <2>2. w.id = <<>> \/ w.id = <<w.id[1]>>
    BY WrittenAssumption
  <2> DEFINE word == w.id[1]
  <2>3. w.id # <<>> => w.id = <<word>>
    BY <2>2
  <2>4. word = "0" => <<word>> = <<"0">>
    OBVIOUS
  <2> HIDE DEF w, word
  <2>5. m.MsgID = <<"new">> \/ (m.MsgID = <<word>> /\ word # "0")
    BY <2>1, <2>3, <2>4
  <2> QED
    BY <2>5 DEF w, word
<1>3. (r.via = "UDP" /\ w.reply = "reply-wait") => m.MsgReplyActionType = "reply-wait"
  BY DEF SaysWritten, ReplyWords
<1> QED
  BY <1>1, <1>2, <1>3

LEMMA WhereMeant ==
    ASSUME AddressedInv, WrittenInv
    PROVE  SentWhereMeant
<1> DEFINE a == msg[Other(serving)]
           m == msg[serving]
<1> SUFFICES ASSUME stage = "wire"
             PROVE  LET w == IF asked \in Errands THEN asked ELSE asked.wrote
                    IN \/ asked \in Requests /\ sent.to = Socket
                       \/ w.ip # "" /\ sent.to = [addr |-> <<w.ip>>, port |-> w.port]
                       \/ w.ip = "" /\ asked \in Errands
                       \/ /\ w.ip = "" /\ asked.via = "UDP"
                          /\ w.reply = "reply-wait" => a.MsgFormat = "NOTIFY"
  BY DEF SentWhereMeant
<1>1. GoesTo(sent.to, a) /\ asked \in Requests \cup Errands
  BY DEF AddressedInv
<1>2. CASE asked \in Errands
  <2>1. SentAs(a, asked) /\ asked.via \in {"OB_TCP", "OB_UDP"}
    BY <1>2, HeaderAssumption DEF AddressedInv
  <2>2. ~HasSocket(a) /\ a.MsgTo = asked.to /\ a.MsgProtocolType = "MCP"
    BY <2>1 DEF SentAs, HasSocket
  <2>3. CASE asked.ip # ""
    <3>1. IsTag(asked.to, asked.ip, asked.port)
      BY <1>2, <2>3, HeaderAssumption
    <3>2. asked.to # <<>> /\ AddrIn(asked.to) = <<asked.ip>> /\ PortIn(asked.to) = asked.port
      BY <3>1, AddressFound
    <3>3. sent.to = [addr |-> <<asked.ip>>, port |-> asked.port]
      BY <1>1, <2>2, <3>2 DEF GoesTo, Address
    <3> QED
      BY <1>2, <2>3, <3>3
  <2> QED
    BY <1>2, <2>3
<1>3. CASE asked \in Requests
  <2> DEFINE w == asked.wrote
  <2>1. /\ asked \notin Errands /\ asked.via \in {"TCP", "UDP", "GET", "POST"}
        /\ w.ip # "" => IsTag(w.from, w.ip, w.port)
    BY <1>3, HeaderAssumption
  <2>2. CameAs(m, asked) /\ AnswersTo(a, m)
    BY <1>3 DEF AddressedInv
  <2>5. /\ m.MsgFrom = w.from
        /\ (asked.via = "UDP" /\ w.reply = "reply-wait") => m.MsgReplyActionType = "reply-wait"
    BY <1>3, KeptForAnswer DEF WrittenInv
  <2>3. CASE asked.via # "UDP"
    <3>1. a.MsgConnectionType = "OB_TCP" /\ a.TCPSocketHandle = TRUE
      BY <2>2, <2>3 DEF CameAs, AnswersTo, OutOf
    <3>2. HasSocket(a)
      BY <3>1 DEF HasSocket
    <3> QED
      BY <1>1, <1>3, <3>2 DEF GoesTo
  <2>4. CASE asked.via = "UDP"
    <3>1. a.MsgConnectionType = "OB_UDP" /\ a.MsgProtocolType = "MCP" /\ a.MsgTo = w.from
      BY <1>3, <2>2, <2>4, <2>5 DEF CameAs, AnswersTo, OutOf
    <3>2. CASE HasSocket(a)
      BY <1>1, <1>3, <3>2 DEF GoesTo
    <3>3. CASE ~HasSocket(a) /\ w.ip # ""
      <4>1. w.from # <<>> /\ AddrIn(w.from) = <<w.ip>> /\ PortIn(w.from) = w.port
        BY <2>1, <3>3, AddressFound
      <4>2. sent.to = [addr |-> <<w.ip>>, port |-> w.port]
        BY <1>1, <3>1, <3>3, <4>1 DEF GoesTo, Address
      <4> QED
        BY <2>1, <3>3, <4>2
    <3>4. CASE ~HasSocket(a) /\ w.ip = ""
      <4>1. a.UDPSocketHandle = FALSE
        BY <2>2, <3>1, <3>4 DEF HasSocket, AnswersTo, CameAs
      <4>2. w.reply = "reply-wait" => m.UDPSocketHandle = TRUE
        BY <2>2, <2>4, <2>5 DEF CameAs
      <4>3. w.reply = "reply-wait" => a.MsgFormat = "NOTIFY"
        BY <2>2, <4>1, <4>2 DEF AnswersTo
      <4> QED
        BY <2>1, <2>4, <3>4, <4>3
    <3> QED
      BY <3>2, <3>3, <3>4
  <2> QED
    BY <2>3, <2>4
<1> QED
  BY <1>1, <1>2, <1>3

\* Everything is sent to the client, or to the address, that it is meant for, though the
\* outbound handler keeps the address of the message before
\* (connectionhandleroutbound.cpp:281).
THEOREM MeantReached == HeaderSpec => []SentWhereMeant
<1>1. AddressedInv /\ WrittenInv => SentWhereMeant
  BY WhereMeant
<1> QED
  BY <1>1, AnswersFindTheirWay, ReadAsMeant, PTL

-----------------------------------------------------------------------------
(* What one node writes, another one reads. *)

\* The line l says the value of a name.
Says(l, name) == IndexOf(l, ":") # -1 /\ NameIn(l) = <<name>>

LEMMA NoPlace ==
    ASSUME NEW text, NEW word, \A j \in 1 .. Len(text) : text[j] # word
    PROVE  IndexOf(text, word) = -1
<1>1. SelectInSeq(text, LAMBDA w : w = word) = 0
  BY DEF SelectInSeq
<1> QED
  BY <1>1 DEF IndexOf

LEMMA WiderSeq ==
    ASSUME NEW W, NEW V, W \subseteq V, NEW text \in Seq(W)
    PROVE  text \in Seq(V)
OBVIOUS

\* Three words before a text.
LEMMA LineShape ==
    ASSUME NEW V, NEW text \in Seq(V), NEW a \in V, NEW b \in V, NEW c \in V, a # b
    PROVE  LET l == <<a, b, c>> \o text
           IN /\ IndexOf(l, b) = 1 /\ substr(l, 0, 1) = <<a>>
              /\ 2 < Len(l) /\ l[3] = c /\ Rest(l, 3) = text
<1> DEFINE l == <<a, b, c>> \o text
<1>1. l \in Seq(V)
  OBVIOUS
<1>2. Len(l) = Len(text) + 3
  OBVIOUS
<1>3. \A i \in 1 .. Len(text) : l[i + 3] = text[i]
  OBVIOUS
<1>4. Len(text) \in Nat
  OBVIOUS
<1>5. l[1] = a /\ l[2] = b /\ l[3] = c
  OBVIOUS
<1> HIDE DEF l
<1>6. IndexOf(l, b) = 1
  <2>1. 2 \in DOMAIN l /\ \A j \in 1 .. 2 - 1 : l[j] # b
    BY <1>2, <1>4, <1>5
  <2>2. IndexOf(l, b) = 2 - 1
    BY <1>1, <1>5, <2>1, FirstPlace
  <2> QED
    BY <2>2
<1>7. substr(l, 0, 1) = <<a>>
  <2>1. 1 \in 1 .. Len(l)
    BY <1>2, <1>4
  <2>2. SubSeq(l, 1, 1) = <<l[1]>>
    BY <1>1, <2>1, OneWord
  <2> QED
    BY <1>5, <2>2 DEF substr
<1>8. Rest(l, 3) = text
  <2> DEFINE v == SubSeq(l, 4, Len(l))
  <2>1. v \in Seq(V) /\ Len(v) = Len(text) /\ \A i \in 1 .. Len(v) : v[i] = l[i + 3]
    BY <1>1, <1>2, <1>4
  <2> HIDE DEF v
  <2>2. ASSUME NEW i \in 1 .. Len(v) PROVE v[i] = text[i]
    BY <1>3, <2>1
  <2>3. v = text
    BY <2>1, <2>2, SeqEqual
  <2> QED
    BY <2>3 DEF Rest, v
<1>9. 2 < Len(l)
  BY <1>2, <1>4
<1> QED
  BY <1>5, <1>6, <1>7, <1>8, <1>9 DEF l

\* A line that was written as a name and a text is read as that.
LEMMA LineRead ==
    ASSUME NEW W, NEW text \in Seq(W), NEW name, name # ":"
    PROVE  LET l == Line(name, text)
           IN /\ ValueIn(l) = text
              /\ \A other : Says(l, other) <=> <<other>> = <<name>>
<1> DEFINE l == Line(name, text)
           V == W \cup {name, ":", " "}
<1>1. /\ IndexOf(l, ":") = 1 /\ substr(l, 0, 1) = <<name>>
      /\ 2 < Len(l) /\ l[3] = " " /\ Rest(l, 3) = text
  <2>1. W \subseteq V /\ name \in V /\ ":" \in V /\ " " \in V
    OBVIOUS
  <2> HIDE DEF V
  <2>2. text \in Seq(V)
    BY <2>1, WiderSeq
  <2> QED
    <3> DEFINE colon == ":"
               blank == " "
    <3>1. name # colon /\ name \in V /\ colon \in V /\ blank \in V
      BY <2>1
    <3>2. l = <<name, colon, blank>> \o text
      BY DEF Line
    <3> HIDE DEF l, colon, blank
    <3>3. /\ IndexOf(l, colon) = 1 /\ substr(l, 0, 1) = <<name>>
          /\ 2 < Len(l) /\ l[3] = blank /\ Rest(l, 3) = text
      BY <2>2, <3>1, <3>2, LineShape
    <3> QED
      BY <3>3, Zenon DEF colon, blank
<1> HIDE DEF l
<1>2. NameIn(l) = <<name>>
  BY <1>1 DEF NameIn
<1>3. ValueIn(l) = text
  <2>1. 1 + 1 < Len(l) /\ l[1 + 2] = " " /\ Rest(l, 1 + 2) = text
    <3>1. 1 + 1 = 2 /\ 1 + 2 = 3
      OBVIOUS
    <3> QED
      BY <1>1, <3>1, Zenon
  <2> QED
    BY <1>1, <2>1, Zenon DEF ValueIn
<1>4. ASSUME NEW other PROVE Says(l, other) <=> <<other>> = <<name>>
  <2>1. IndexOf(l, ":") # -1
    <3>1. 1 # -1
      OBVIOUS
    <3> QED
      BY <1>1, <3>1, Zenon
  <2> QED
    BY <1>2, <2>1, Zenon DEF Says
<1> QED
  BY <1>3, <1>4 DEF l

\* What a header says under a name is in the only line of this name.
LEMMA ValueFound ==
    ASSUME NEW lines, NEW name, NEW i \in DOMAIN lines, i \in Int, Says(lines[i], name),
           \A j \in DOMAIN lines : Says(lines[j], name) => j = i
    PROVE  GetValue(lines, name) = ValueIn(lines[i])
<1> DEFINE own == {j \in DOMAIN lines : IndexOf(lines[j], ":") # -1 /\ NameIn(lines[j]) = <<name>>}
<1>1. own = {i}
  BY DEF Says
<1>2. Max(own) = i
  BY <1>1 DEF Max
<1> HIDE DEF own
<1> QED
  BY <1>1, <1>2 DEF GetValue, own

LEMMA ValueMissing ==
    ASSUME NEW lines, NEW name, \A j \in DOMAIN lines : ~Says(lines[j], name)
    PROVE  GetValue(lines, name) = <<>>
BY DEF GetValue, Says

Names == {"MsgID", "To", "From", "Connection", "Content-Type", "Content-Length"}

LEMMA NamedLine ==
    ASSUME NEW W, NEW text \in Seq(W), NEW name \in Names
    PROVE  /\ ValueIn(Line(name, text)) = text
           /\ \A other \in Names : Says(Line(name, text), other) <=> other = name
<1>1. name # ":"
  BY DEF Names
<1>2. /\ ValueIn(Line(name, text)) = text
      /\ \A other : Says(Line(name, text), other) <=> <<other>> = <<name>>
  BY <1>1, LineRead, Zenon
<1>3. ASSUME NEW other \in Names PROVE <<other>> = <<name>> <=> other = name
  OBVIOUS
<1> QED
  BY <1>2, <1>3, Zenon

\* The first line of an answer says nothing under a name.
LEMMA StatusLine ==
    ASSUME NEW word, word # ":", NEW name
    PROVE  ~Says(<<"MCP/1.0", " ", word>>, name)
<1> DEFINE l == <<"MCP/1.0", " ", word>>
<1>1. Len(l) = 3 /\ l[1] # ":" /\ l[2] # ":" /\ l[3] # ":"
  OBVIOUS
<1> HIDE DEF l
<1>2. \A j \in 1 .. Len(l) : l[j] # ":"
  BY <1>1
<1>3. IndexOf(l, ":") = -1
  BY <1>2, NoPlace
<1> QED
  BY <1>3, Zenon DEF Says, l

\* The lines of an answer with no content and no address, with no content, and with one.
LEMMA LinesInOrder ==
    ASSUME NEW a
    PROVE  LET L == ResponseLines(a)
               s == <<"MCP/1.0", " ", IF a.MsgFormat = "NOTIFY" THEN "Notify" ELSE "Reply">>
               i == Line("MsgID", a.MsgID)
               t == Line("To", a.MsgTo)
               f == Line("From", a.MsgFrom)
               c == Connection(a)
               ct == Line("Content-Type", a.MsgContentType)
               cl == Line("Content-Length", <<ToString(a.MsgContentLength)>>)
           IN /\ (a.MsgContentLength = 0 /\ a.MsgTo = <<>>) =>
                    DOMAIN L = 1 .. 4 /\ L[1] = s /\ L[2] = i /\ L[3] = c /\ L[4] = f
              /\ (a.MsgContentLength = 0 /\ a.MsgTo # <<>>) =>
                    DOMAIN L = 1 .. 5 /\ L[1] = s /\ L[2] = i /\ L[3] = c /\ L[4] = t /\ L[5] = f
              /\ a.MsgContentLength # 0 =>
                    DOMAIN L = 1 .. 7 /\ L[1] = s /\ L[2] = i /\ L[3] = t /\ L[4] = f
                    /\ L[5] = ct /\ L[6] = cl /\ L[7] = c
<1> DEFINE s == <<"MCP/1.0", " ", IF a.MsgFormat = "NOTIFY" THEN "Notify" ELSE "Reply">>
           i == Line("MsgID", a.MsgID)
           t == Line("To", a.MsgTo)
           f == Line("From", a.MsgFrom)
           c == Connection(a)
           ct == Line("Content-Type", a.MsgContentType)
           cl == Line("Content-Length", <<ToString(a.MsgContentLength)>>)
           L == ResponseLines(a)
<1>1. L = IF a.MsgContentLength = 0
          THEN <<s, i, c>> \o (IF a.MsgTo = <<>> THEN <<>> ELSE <<t>>) \o <<f>>
          ELSE <<s, i, t, f>> \o <<ct, cl>> \o <<c>>
  BY DEF ResponseLines, Content
<1> HIDE DEF s, i, t, f, c, ct, cl, L
<1>2. CASE a.MsgContentLength = 0 /\ a.MsgTo = <<>>
  <2> DEFINE K == <<s, i, c>> \o <<>> \o <<f>>
  <2>1. L = K
    BY <1>1, <1>2
  <2>2. DOMAIN K = 1 .. 4
    OBVIOUS
  <2>3. K[1] = s /\ K[2] = i /\ K[3] = c /\ K[4] = f
    OBVIOUS
  <2> HIDE DEF K
  <2> QED
    BY <1>2, <2>1, <2>2, <2>3 DEF s, i, t, f, c, ct, cl, L
<1>3. CASE a.MsgContentLength = 0 /\ a.MsgTo # <<>>
  <2> DEFINE K == <<s, i, c>> \o <<t>> \o <<f>>
  <2>1. L = K
    BY <1>1, <1>3
  <2>2. DOMAIN K = 1 .. 5
    OBVIOUS
  <2>3. K[1] = s /\ K[2] = i /\ K[3] = c /\ K[4] = t /\ K[5] = f
    OBVIOUS
  <2> HIDE DEF K
  <2> QED
    BY <1>3, <2>1, <2>2, <2>3 DEF s, i, t, f, c, ct, cl, L
<1>4. CASE a.MsgContentLength # 0
  <2> DEFINE K == <<s, i, t, f>> \o <<ct, cl>> \o <<c>>
  <2>1. L = K
    BY <1>1, <1>4
  <2>2. DOMAIN K = 1 .. 7
    OBVIOUS
  <2>3. K[1] = s /\ K[2] = i /\ K[3] = t /\ K[4] = f
    OBVIOUS
  <2>4. K[5] = ct /\ K[6] = cl /\ K[7] = c
    OBVIOUS
  <2> HIDE DEF K
  <2> QED
    BY <1>4, <2>1, <2>2, <2>3, <2>4 DEF s, i, t, f, c, ct, cl, L
<1> QED
  BY <1>2, <1>3, <1>4 DEF s, i, t, f, c, ct, cl, L

\* What the peer finds in the lines of an answer.
LEMMA ValuesRead ==
    ASSUME NEW a, NEW V, a.MsgID \in Seq(V), NEW W, a.MsgTo \in Seq(W),
           NEW U, a.MsgFrom \in Seq(U), a.MsgContentLength # 0 => a.MsgContentType = <<"text/html">>
    PROVE  LET L == ResponseLines(a)
           IN /\ GetValue(L, "MsgID") = a.MsgID /\ GetValue(L, "To") = a.MsgTo
              /\ GetValue(L, "Connection") = IF a.m_bKeepAlive THEN <<"keep-alive">> ELSE <<"close">>
              /\ GetValue(L, "Content-Type") =
                    IF a.MsgContentLength = 0 THEN <<>> ELSE <<"text/html">>
              /\ GetValue(L, "Content-Length") =
                    IF a.MsgContentLength = 0 THEN <<>> ELSE <<ToString(a.MsgContentLength)>>
<1> DEFINE word == IF a.MsgFormat = "NOTIFY" THEN "Notify" ELSE "Reply"
           kept == IF a.m_bKeepAlive THEN <<"keep-alive">> ELSE <<"close">>
           s == <<"MCP/1.0", " ", word>>
           i == Line("MsgID", a.MsgID)
           t == Line("To", a.MsgTo)
           f == Line("From", a.MsgFrom)
           c == Connection(a)
           ct == Line("Content-Type", a.MsgContentType)
           cl == Line("Content-Length", <<ToString(a.MsgContentLength)>>)
           L == ResponseLines(a)
           Is(l, name) == \A other \in Names : Says(l, other) <=> other = name
<1>n. {"MsgID", "To", "From", "Connection", "Content-Type", "Content-Length"} \subseteq Names
  BY DEF Names
<1>s. \A other \in Names : ~Says(s, other)
  <2>1. word # ":"
    OBVIOUS
  <2> HIDE DEF word
  <2> QED
    BY <2>1, StatusLine
<1>i. ValueIn(i) = a.MsgID /\ Is(i, "MsgID")
  BY <1>n, NamedLine, Zenon
<1>t. ValueIn(t) = a.MsgTo /\ Is(t, "To")
  BY <1>n, NamedLine, Zenon
<1>f. Is(f, "From")
  BY <1>n, NamedLine, Zenon
<1>c. ValueIn(c) = kept /\ Is(c, "Connection")
  <2>1. kept \in Seq({"keep-alive", "close"})
    <3>1. <<"keep-alive">> \in Seq({"keep-alive", "close"})
      OBVIOUS
    <3>2. <<"close">> \in Seq({"keep-alive", "close"})
      OBVIOUS
    <3> QED
      BY <3>1, <3>2, Zenon
  <2>2. c = Line("Connection", kept)
    BY DEF Connection
  <2> HIDE DEF c, kept
  <2> QED
    BY <1>n, <2>1, <2>2, NamedLine, Zenon
<1>ct. a.MsgContentLength # 0 => ValueIn(ct) = <<"text/html">> /\ Is(ct, "Content-Type")
  <2> SUFFICES ASSUME a.MsgContentLength # 0
               PROVE  ValueIn(ct) = <<"text/html">> /\ Is(ct, "Content-Type")
    OBVIOUS
  <2>1. a.MsgContentType = <<"text/html">>
    OBVIOUS
  <2>2. <<"text/html">> \in Seq({"text/html"})
    OBVIOUS
  <2> QED
    BY <1>n, <2>1, <2>2, NamedLine, Zenon
<1>cl. ValueIn(cl) = <<ToString(a.MsgContentLength)>> /\ Is(cl, "Content-Length")
  <2> DEFINE n == ToString(a.MsgContentLength)
  <2> HIDE DEF n
  <2>1. <<n>> \in Seq({n}) /\ "Content-Length" \in Names
    BY <1>n
  <2>2. cl = Line("Content-Length", <<n>>)
    BY DEF n
  <2> HIDE DEF cl
  <2>3. ValueIn(cl) = <<n>> /\ Is(cl, "Content-Length")
    BY <2>1, <2>2, NamedLine, Zenon
  <2> QED
    BY <2>3 DEF n
<1> HIDE DEF word, kept, s, i, t, f, c, ct, cl, L
<1>2. CASE a.MsgContentLength = 0 /\ a.MsgTo = <<>>
  <2>1. DOMAIN L = 1 .. 4
        /\ L[1] = s /\ L[2] = i /\ L[3] = c /\ L[4] = f
    BY <1>2, LinesInOrder DEF word, s, i, t, f, c, ct, cl, L
  <2>2. GetValue(L, "MsgID") = ValueIn(i)
    <3>1. 2 \in DOMAIN L /\ L[2] = i /\ Says(i, "MsgID")
      BY <1>n, <1>2, <1>i, <2>1
    <3>2. \A j \in DOMAIN L : Says(L[j], "MsgID") => j = 2
      BY <1>n, <1>2, <1>s, <1>i, <1>c, <1>f, <2>1
    <3> QED
      BY <3>1, <3>2, ValueFound
  <2>3. GetValue(L, "To") = <<>>
    <3>1. \A j \in DOMAIN L : ~Says(L[j], "To")
      BY <1>n, <1>2, <1>s, <1>i, <1>c, <1>f, <2>1
    <3> QED
      BY <3>1, ValueMissing
  <2>4. GetValue(L, "Connection") = ValueIn(c)
    <3>1. 3 \in DOMAIN L /\ L[3] = c /\ Says(c, "Connection")
      BY <1>n, <1>2, <1>c, <2>1
    <3>2. \A j \in DOMAIN L : Says(L[j], "Connection") => j = 3
      BY <1>n, <1>2, <1>s, <1>i, <1>c, <1>f, <2>1
    <3> QED
      BY <3>1, <3>2, ValueFound
  <2>5. GetValue(L, "Content-Type") = <<>>
    <3>1. \A j \in DOMAIN L : ~Says(L[j], "Content-Type")
      BY <1>n, <1>2, <1>s, <1>i, <1>c, <1>f, <2>1
    <3> QED
      BY <3>1, ValueMissing
  <2>6. GetValue(L, "Content-Length") = <<>>
    <3>1. \A j \in DOMAIN L : ~Says(L[j], "Content-Length")
      BY <1>n, <1>2, <1>s, <1>i, <1>c, <1>f, <2>1
    <3> QED
      BY <3>1, ValueMissing
  <2> QED
    BY <1>2, <1>i, <1>t, <1>c, <1>ct, <1>cl, <2>2, <2>3, <2>4, <2>5, <2>6 DEF L, kept
<1>3. CASE a.MsgContentLength = 0 /\ a.MsgTo # <<>>
  <2>1. DOMAIN L = 1 .. 5
        /\ L[1] = s /\ L[2] = i /\ L[3] = c /\ L[4] = t /\ L[5] = f
    BY <1>3, LinesInOrder DEF word, s, i, t, f, c, ct, cl, L
  <2>2. GetValue(L, "MsgID") = ValueIn(i)
    <3>1. 2 \in DOMAIN L /\ L[2] = i /\ Says(i, "MsgID")
      BY <1>n, <1>3, <1>i, <2>1
    <3>2. \A j \in DOMAIN L : Says(L[j], "MsgID") => j = 2
      BY <1>n, <1>3, <1>s, <1>i, <1>c, <1>t, <1>f, <2>1
    <3> QED
      BY <3>1, <3>2, ValueFound
  <2>3. GetValue(L, "To") = ValueIn(t)
    <3>1. 4 \in DOMAIN L /\ L[4] = t /\ Says(t, "To")
      BY <1>n, <1>3, <1>t, <2>1
    <3>2. \A j \in DOMAIN L : Says(L[j], "To") => j = 4
      BY <1>n, <1>3, <1>s, <1>i, <1>c, <1>t, <1>f, <2>1
    <3> QED
      BY <3>1, <3>2, ValueFound
  <2>4. GetValue(L, "Connection") = ValueIn(c)
    <3>1. 3 \in DOMAIN L /\ L[3] = c /\ Says(c, "Connection")
      BY <1>n, <1>3, <1>c, <2>1
    <3>2. \A j \in DOMAIN L : Says(L[j], "Connection") => j = 3
      BY <1>n, <1>3, <1>s, <1>i, <1>c, <1>t, <1>f, <2>1
    <3> QED
      BY <3>1, <3>2, ValueFound
  <2>5. GetValue(L, "Content-Type") = <<>>
    <3>1. \A j \in DOMAIN L : ~Says(L[j], "Content-Type")
      BY <1>n, <1>3, <1>s, <1>i, <1>c, <1>t, <1>f, <2>1
    <3> QED
      BY <3>1, ValueMissing
  <2>6. GetValue(L, "Content-Length") = <<>>
    <3>1. \A j \in DOMAIN L : ~Says(L[j], "Content-Length")
      BY <1>n, <1>3, <1>s, <1>i, <1>c, <1>t, <1>f, <2>1
    <3> QED
      BY <3>1, ValueMissing
  <2> QED
    BY <1>3, <1>i, <1>t, <1>c, <1>ct, <1>cl, <2>2, <2>3, <2>4, <2>5, <2>6 DEF L, kept
<1>4. CASE a.MsgContentLength # 0
  <2>1. DOMAIN L = 1 .. 7
        /\ L[1] = s /\ L[2] = i /\ L[3] = t /\ L[4] = f /\ L[5] = ct /\ L[6] = cl /\ L[7] = c
    BY <1>4, LinesInOrder DEF word, s, i, t, f, c, ct, cl, L
  <2>2. GetValue(L, "MsgID") = ValueIn(i)
    <3>1. 2 \in DOMAIN L /\ L[2] = i /\ Says(i, "MsgID")
      BY <1>n, <1>4, <1>i, <2>1
    <3>2. \A j \in DOMAIN L : Says(L[j], "MsgID") => j = 2
      BY <1>n, <1>4, <1>s, <1>i, <1>t, <1>f, <1>ct, <1>cl, <1>c, <2>1
    <3> QED
      BY <3>1, <3>2, ValueFound
  <2>3. GetValue(L, "To") = ValueIn(t)
    <3>1. 3 \in DOMAIN L /\ L[3] = t /\ Says(t, "To")
      BY <1>n, <1>4, <1>t, <2>1
    <3>2. \A j \in DOMAIN L : Says(L[j], "To") => j = 3
      BY <1>n, <1>4, <1>s, <1>i, <1>t, <1>f, <1>ct, <1>cl, <1>c, <2>1
    <3> QED
      BY <3>1, <3>2, ValueFound
  <2>4. GetValue(L, "Connection") = ValueIn(c)
    <3>1. 7 \in DOMAIN L /\ L[7] = c /\ Says(c, "Connection")
      BY <1>n, <1>4, <1>c, <2>1
    <3>2. \A j \in DOMAIN L : Says(L[j], "Connection") => j = 7
      BY <1>n, <1>4, <1>s, <1>i, <1>t, <1>f, <1>ct, <1>cl, <1>c, <2>1
    <3> QED
      BY <3>1, <3>2, ValueFound
  <2>5. GetValue(L, "Content-Type") = ValueIn(ct)
    <3>1. 5 \in DOMAIN L /\ L[5] = ct /\ Says(ct, "Content-Type")
      BY <1>n, <1>4, <1>ct, <2>1
    <3>2. \A j \in DOMAIN L : Says(L[j], "Content-Type") => j = 5
      BY <1>n, <1>4, <1>s, <1>i, <1>t, <1>f, <1>ct, <1>cl, <1>c, <2>1
    <3> QED
      BY <3>1, <3>2, ValueFound
  <2>6. GetValue(L, "Content-Length") = ValueIn(cl)
    <3>1. 6 \in DOMAIN L /\ L[6] = cl /\ Says(cl, "Content-Length")
      BY <1>n, <1>4, <1>cl, <2>1
    <3>2. \A j \in DOMAIN L : Says(L[j], "Content-Length") => j = 6
      BY <1>n, <1>4, <1>s, <1>i, <1>t, <1>f, <1>ct, <1>cl, <1>c, <2>1
    <3> QED
      BY <3>1, <3>2, ValueFound
  <2> QED
    BY <1>4, <1>i, <1>t, <1>c, <1>ct, <1>cl, <2>2, <2>3, <2>4, <2>5, <2>6 DEF L, kept
<1> QED
  BY <1>2, <1>3, <1>4 DEF L

\* The tag of a client, whole or of one word, is read as it is written.
LEMMA SenderTag ==
    ASSUME NEW r \in Requests
    PROVE  SetTag(r.wrote.from) = r.wrote.from /\ \E W : r.wrote.from \in Seq(W)
<1> DEFINE from == r.wrote.from
<1>1. CASE r.wrote.ip # ""
  <2> DEFINE n == from[1]
             ip == r.wrote.ip
             port == r.wrote.port
  <2>1. from = <<n, "@", ip, ":", port>> /\ {n, ip, port} \cap {"@", ":"} = {}
    BY <1>1, HeaderAssumption DEF IsTag
  <2> HIDE DEF n, ip, port, from
  <2>2. SetTag(from) = from
    <3>1. BuildFullTag(<<n>>, <<ip>>, <<port>>) = from
      <4> DEFINE W == {n, "@", ip, ":", port}
                 joined == BuildFullTag(<<n>>, <<ip>>, <<port>>)
                 tag == <<n, "@", ip, ":", port>>
      <4>1. joined \in Seq(W) /\ Len(joined) = 5
        BY DEF BuildFullTag
      <4>2. joined[1] = n /\ joined[2] = "@"
        BY DEF BuildFullTag
      <4>3. joined[3] = ip /\ joined[4] = ":" /\ joined[5] = port
        BY DEF BuildFullTag
      <4>4. tag \in Seq(W) /\ Len(tag) = 5
        OBVIOUS
      <4>5. tag[1] = n /\ tag[2] = "@" /\ tag[3] = ip /\ tag[4] = ":" /\ tag[5] = port
        OBVIOUS
      <4>6. tag = from
        BY <2>1
      <4> HIDE DEF tag, joined, W
      <4>7. \A i \in 1 .. 5 : joined[i] = tag[i]
        BY <4>2, <4>3, <4>5
      <4>8. joined = tag
        BY <4>1, <4>4, <4>7, SeqEqual
      <4> QED
        BY <4>6, <4>8 DEF joined
    <3> QED
      BY <2>1, <3>1, TagsReadBack
  <2>3. from \in Seq({n, "@", ip, ":", port})
    BY <2>1
  <2> QED
    BY <2>2, <2>3 DEF from
<1>2. CASE r.wrote.ip = ""
  <2>1. from = <<>> \/ (from = <<from[1]>> /\ from[1] \notin {"@", ":"})
    BY <1>2, HeaderAssumption DEF IsName
  <2>2. \A j \in 1 .. Len(from) : from[j] # "@" /\ from[j] # ":"
    <3>1. CASE from = <<>>
      BY <3>1
    <3>2. CASE from = <<from[1]>> /\ from[1] \notin {"@", ":"}
      <4> DEFINE n == from[1]
      <4>1. from = <<n>> /\ n # "@" /\ n # ":"
        BY <3>2
      <4> HIDE DEF from, n
      <4> QED
        BY <4>1
    <3> QED
      BY <2>1, <3>1, <3>2
  <2>3. IndexOf(from, "@") = -1 /\ IndexOf(from, ":") = -1
    BY <2>2, NoPlace
  <2>4. from \in Seq({from[1]})
    <3> DEFINE n == from[1]
    <3>1. from = <<>> \/ from = <<n>>
      BY <2>1
    <3> HIDE DEF from, n
    <3>2. from = <<>> => from \in Seq({n})
      OBVIOUS
    <3>3. <<n>> \in Seq({n})
      OBVIOUS
    <3> QED
      BY <3>1, <3>2, <3>3 DEF n
  <2> HIDE DEF from
  <2> QED
    BY <2>3, <2>4 DEF SetTag, from
<1> QED
  BY <1>1, <1>2

\* A step that brings an answer to its peer: this one reads what was asked for.
LEMMA AnswerRead ==
    ASSUME AddressedInv, WrittenInv, stage = "wire", sent.via \in {"OB_TCP", "OB_UDP"},
           asked \in Requests, HeaderNext
    PROVE  LET m == msg[Other(serving)]
           IN /\ peer'.MsgID = msg[serving].MsgID
              /\ peer'.MsgTo = asked.wrote.from
              /\ peer'.MsgContentLength = m.MsgContentLength
              /\ peer'.MsgContentType = m.MsgContentType
              /\ stage' = "idle" => peer'.m_bKeepAlive = ~asked.wrote.close
<1> DEFINE a == msg[Other(serving)]
           m == msg[serving]
           L == ResponseLines(a)
           via == IF sent.via = "OB_UDP" THEN "UDP" ELSE "TCP"
           p == Received(peer, [via |-> via, lines |-> L])
<1>1. Arrive
  BY DEF HeaderNext, Receive, Ask, Answer, PostNotifyMessage, TransmitMsg
<1>2. AnswersTo(a, m) /\ sent.lines = L
  BY DEF AddressedInv
<1>3. peer' = p /\ (stage' = "idle" => a.MsgFormat # "NOTIFY")
  BY <1>1, <1>2 DEF Arrive
<1>m. /\ m.MsgFrom = asked.wrote.from /\ m.m_bKeepAlive = ~asked.wrote.close
      /\ \/ m.MsgID = <<"new">>
         \/ m.MsgID = <<asked.wrote.id[1]>> /\ asked.wrote.id[1] # "0"
  BY KeptForAnswer DEF WrittenInv
<1>4. via \in {"TCP", "UDP"}
  OBVIOUS
<1>5. a.MsgTo = asked.wrote.from /\ SetTag(a.MsgTo) = a.MsgTo
  BY <1>2, <1>m, SenderTag DEF AnswersTo
<1>6. PICK W : a.MsgTo \in Seq(W)
  BY <1>5, SenderTag
<1>7. a.MsgID = m.MsgID /\ a.MsgID \notin {<<>>, <<"0">>}
      /\ \E V : a.MsgID \in Seq(V)
  <2>1. a.MsgID = m.MsgID
    BY <1>2 DEF AnswersTo
  <2>2. CASE m.MsgID = <<"new">>
    <3>1. <<"new">> # <<>> /\ <<"new">> # <<"0">> /\ <<"new">> \in Seq({"new"})
      OBVIOUS
    <3> QED
      BY <2>1, <2>2, <3>1
  <2>3. CASE m.MsgID = <<asked.wrote.id[1]>> /\ asked.wrote.id[1] # "0"
    <3> DEFINE n == asked.wrote.id[1]
    <3>1. n # "0" /\ m.MsgID = <<n>>
      BY <2>3
    <3> HIDE DEF n, m
    <3>2. <<n>> # <<>> /\ <<n>> # <<"0">> /\ <<n>> \in Seq({n})
      BY <3>1
    <3> QED
      BY <2>1, <3>1, <3>2
  <2> QED
    BY <1>m, <2>2, <2>3
<1>8. PICK V : a.MsgID \in Seq(V)
  BY <1>7
<1>9. /\ a.MsgFrom \in {<<>>, ThisNode}
      /\ a.MsgContentLength # 0 =>
            a.MsgContentLength \in Bodies /\ a.MsgContentType = <<"text/html">>
      /\ a.MsgContentLength = 0 => a.MsgContentType = <<>>
  BY <1>2 DEF AnswersTo
<1>f. PICK U : a.MsgFrom \in Seq(U)
  BY <1>9, FromText
<1> HIDE DEF L, p, via
<1>10. /\ GetValue(L, "MsgID") = a.MsgID /\ GetValue(L, "To") = a.MsgTo
       /\ GetValue(L, "Connection") = IF a.m_bKeepAlive THEN <<"keep-alive">> ELSE <<"close">>
       /\ GetValue(L, "Content-Type") =
             IF a.MsgContentLength = 0 THEN <<>> ELSE <<"text/html">>
       /\ GetValue(L, "Content-Length") =
             IF a.MsgContentLength = 0 THEN <<>> ELSE <<ToString(a.MsgContentLength)>>
  <2> HIDE DEF a
  <2> QED
    BY <1>6, <1>8, <1>9, <1>f, ValuesRead DEF L
<1> DEFINE length == GetValue(L, "Content-Length")
<1>11. /\ p.MsgID = IF GetValue(L, "MsgID") \in {<<>>, <<"0">>} THEN <<"new">>
                    ELSE GetValue(L, "MsgID")
       /\ p.MsgTo = SetTag(GetValue(L, "To"))
       /\ p.m_bKeepAlive = (GetValue(L, "Connection") \notin {<<"close">>, <<"Close">>})
       /\ p.MsgContentType = GetValue(L, "Content-Type")
       /\ p.MsgContentLength = IF length = <<>> THEN 0 ELSE Value(atoi(length))
  <2> DEFINE r == [via |-> via, lines |-> L]
  <2>1. r.via \in {"TCP", "UDP", "GET", "POST"} /\ r.via \notin {"GET", "POST"} /\ r.lines = L
    BY <1>4
  <2>2. p = Received(peer, r)
    BY DEF p
  <2> HIDE DEF r
  <2> QED
    BY <2>1, <2>2, ReadText
<1>12. p.MsgID = m.MsgID /\ p.MsgTo = asked.wrote.from /\ p.MsgContentType = a.MsgContentType
  <2> HIDE DEF a, m
  <2> QED
    BY <1>5, <1>7, <1>9, <1>10, <1>11
<1>13. p.MsgContentLength = a.MsgContentLength
  <2>1. CASE a.MsgContentLength = 0
    BY <1>10, <1>11, <2>1
  <2>2. CASE a.MsgContentLength # 0
    <3> DEFINE n == a.MsgContentLength
               word == ToString(n)
    <3>1. word \in Numbers /\ Value(word) = n
      BY <1>9, <2>2, LengthAssumption
    <3>2. length = <<word>>
      BY <1>10, <2>2
    <3> HIDE DEF n, word, length
    <3>3. length # <<>> /\ length[1] = word
      BY <3>2
    <3>4. atoi(length) = word
      BY <3>1, <3>3 DEF atoi
    <3> QED
      BY <1>11, <3>1, <3>3, <3>4 DEF n
  <2> QED
    BY <2>1, <2>2
<1>14. stage' = "idle" => p.m_bKeepAlive = ~asked.wrote.close
  <2> SUFFICES ASSUME stage' = "idle" PROVE p.m_bKeepAlive = ~asked.wrote.close
    OBVIOUS
  <2>1. a.m_bKeepAlive = m.m_bKeepAlive
    BY <1>2, <1>3 DEF AnswersTo
  <2>2. a.m_bKeepAlive = ~asked.wrote.close
    BY <1>m, <2>1
  <2>3. <<"keep-alive">> # <<"close">> /\ <<"keep-alive">> # <<"Close">>
    OBVIOUS
  <2> HIDE DEF a, m
  <2>4. CASE asked.wrote.close
    <3>1. GetValue(L, "Connection") = <<"close">>
      BY <1>10, <2>2, <2>4
    <3> QED
      BY <1>11, <2>4, <3>1
  <2>5. CASE ~asked.wrote.close
    <3>1. GetValue(L, "Connection") = <<"keep-alive">>
      BY <1>10, <2>2, <2>5
    <3> QED
      BY <1>11, <2>3, <2>5, <3>1
  <2> QED
    BY <2>4, <2>5
<1> QED
  BY <1>3, <1>12, <1>13, <1>14 DEF a, m

\* The peer reads in an answer what its request had and what the handler gave it: the
\* number, the tag, the length and the type of the payload, and whether the connection
\* stays (the lines that connectionhandleroutbound.cpp:167-211 writes and
\* msg.cpp:91-190 reads).
THEOREM AnswersUnderstood == HeaderSpec => AnswerMatchesRequest
<1> DEFINE Understood ==
        (stage = "wire" /\ sent.via \in {"OB_TCP", "OB_UDP"} /\ asked \in Requests) =>
        LET m == msg[Other(serving)]
        IN /\ peer'.MsgID = msg[serving].MsgID
           /\ peer'.MsgTo = asked.wrote.from
           /\ peer'.MsgContentLength = m.MsgContentLength
           /\ peer'.MsgContentType = m.MsgContentType
           /\ stage' = "idle" => peer'.m_bKeepAlive = ~asked.wrote.close
<1>1. AddressedInv /\ WrittenInv /\ [HeaderNext]_headerVars => [Understood]_headerVars
  BY AnswerRead
<1>2. HeaderSpec => [][Understood]_headerVars
  BY <1>1, AnswersFindTheirWay, ReadAsMeant, PTL DEF HeaderSpec
<1> QED
  BY <1>2 DEF AnswerMatchesRequest

-----------------------------------------------------------------------------
(* The types of the header's part. *)

\* A name, or a whole tag, is a text.
LEMMA ErrandTag ==
    ASSUME NEW e \in Errands
    PROVE  \E W : e.to \in Seq(W)
<1> DEFINE n == e.to[1]
           ip == e.ip
           port == e.port
           text == e.to
<1>1. text = <<>> \/ text = <<n>> \/ text = <<n, "@", ip, ":", port>>
  BY HeaderAssumption, Zenon DEF IsName, IsTag
<1> HIDE DEF n, ip, port, text
<1>2. <<n>> \in Seq({n}) /\ <<n, "@", ip, ":", port>> \in Seq({n, "@", ip, ":", port})
  OBVIOUS
<1>3. <<>> \in Seq({n})
  OBVIOUS
<1>4. \E W : text \in Seq(W)
  BY <1>1, <1>2, <1>3
<1> QED
  BY <1>4 DEF text

\* An errand has no content, and its lines name no length.
LEMMA ErrandRead ==
    ASSUME NEW e \in Errands, NEW a, SentAs(a, e)
    PROVE  GetValue(RequestLines(a), "Content-Length") = <<>>
<1> DEFINE s == a.MsgCommand \o <<" ", "MCP/1.0">>
           i == Line("MsgID", a.MsgID)
           t == Line("To", a.MsgTo)
           f == Line("From", a.MsgFrom)
           c == Connection(a)
           L == RequestLines(a)
           name == "Content-Length"
<1>n. {"MsgID", "To", "From", "Connection", "Content-Length"} \subseteq Names
  BY DEF Names
<1>1. /\ a.MsgTo = e.to /\ a.MsgContentLength = 0 /\ a.MsgCommand = <<"ECHO">>
      /\ a.MsgID = <<"new">> /\ a.MsgFrom \in {<<>>, ThisNode}
  BY DEF SentAs
<1>u. PICK U : a.MsgFrom \in Seq(U)
  BY <1>1, FromText
<1>2. PICK W : a.MsgTo \in Seq(W)
  BY <1>1, ErrandTag
<1>s. ~Says(s, name)
  <2> DEFINE k == <<"ECHO">> \o <<" ", "MCP/1.0">>
  <2>1. Len(k) = 3 /\ k[1] # ":" /\ k[2] # ":" /\ k[3] # ":"
    <3>1. Len(k) = 3
      OBVIOUS
    <3>2. k[1] = "ECHO" /\ k[2] = " " /\ k[3] = "MCP/1.0"
      <4> DEFINE x == "ECHO"
                 y == " "
                 z == "MCP/1.0"
      <4>1. k = <<x>> \o <<y, z>>
        OBVIOUS
      <4> HIDE DEF k, x, y, z
      <4>2. k[1] = x /\ k[2] = y /\ k[3] = z
        BY <4>1
      <4> QED
        BY <4>2 DEF x, y, z
    <3> HIDE DEF k
    <3> QED
      BY <3>1, <3>2
  <2>2. Len(s) = 3 /\ s[1] # ":" /\ s[2] # ":" /\ s[3] # ":"
    <3> HIDE DEF k
    <3>1. s = k
      BY <1>1 DEF k
    <3> HIDE DEF s
    <3> QED
      BY <2>1, <3>1
  <2> HIDE DEF s
  <2>3. \A j \in 1 .. Len(s) : s[j] # ":"
    BY <2>2
  <2>4. IndexOf(s, ":") = -1
    BY <2>3, NoPlace
  <2> QED
    BY <2>4, Zenon DEF Says
<1>i. ~Says(i, name)
  <2>1. a.MsgID \in Seq({"new"})
    BY <1>1
  <2>2. "MsgID" # "Content-Length"
    OBVIOUS
  <2> QED
    BY <1>n, <2>1, <2>2, NamedLine, Zenon
<1>t. ~Says(t, name)
  <2>1. "To" # "Content-Length"
    OBVIOUS
  <2> QED
    BY <1>n, <1>2, <2>1, NamedLine, Zenon
<1>f. ~Says(f, name)
  <2>1. "From" # "Content-Length"
    OBVIOUS
  <2> QED
    BY <1>n, <1>u, <2>1, NamedLine, Zenon
<1>c. ~Says(c, name)
  <2> DEFINE kept == IF a.m_bKeepAlive THEN <<"keep-alive">> ELSE <<"close">>
  <2>1. kept \in Seq({"keep-alive", "close"})
    <3>1. <<"keep-alive">> \in Seq({"keep-alive", "close"})
      OBVIOUS
    <3>2. <<"close">> \in Seq({"keep-alive", "close"})
      OBVIOUS
    <3> QED
      BY <3>1, <3>2, Zenon
  <2>2. c = Line("Connection", kept)
    BY DEF Connection
  <2>3. "Connection" # "Content-Length"
    OBVIOUS
  <2> HIDE DEF c, kept
  <2> QED
    BY <1>n, <2>1, <2>2, <2>3, NamedLine, Zenon
<1>3. L = <<s, i, t, f>> \o <<>> \o <<c>>
  BY <1>1 DEF RequestLines
<1> HIDE DEF s, i, t, f, c, L, name
<1>4. DOMAIN L = 1 .. 5 /\ L[1] = s /\ L[2] = i /\ L[3] = t /\ L[4] = f /\ L[5] = c
  BY <1>3
<1>5. \A j \in DOMAIN L : ~Says(L[j], name)
  BY <1>4, <1>s, <1>i, <1>t, <1>f, <1>c
<1> QED
  BY <1>5, ValueMissing DEF L, name

\* What HeaderTypeOK says of a message.
MessageOK(m) ==
    /\ m.MsgContentLength \in Nat
    /\ m.MsgContentLength > 0 => m.m_pPayload = "content"
    /\ m.m_bKeepAlive \in BOOLEAN /\ m.TCPSocketHandle \in BOOLEAN

HeaderTypes ==
    /\ m_ServerPort \in Numbers
    /\ \A o \in Objects : MessageOK(msg[o])
    /\ MessageOK(peer)

LEMMA HeaderTypesSay == AddressedInv /\ HeaderTypes => HeaderTypeOK
<1> SUFFICES ASSUME AddressedInv, HeaderTypes PROVE HeaderTypeOK
  OBVIOUS
<1>1. serving \in Objects /\ stage \in {"idle", "asked", "made", "wire"}
  BY DEF AddressedInv
<1>2. asked \in Requests \cup Errands \cup {Nobody}
  BY DEF AddressedInv
<1>3. MessageOK(msg[1]) /\ MessageOK(msg[2]) /\ MessageOK(peer) /\ m_ServerPort \in Numbers
  BY DEF HeaderTypes, Objects
<1> QED
  BY <1>1, <1>2, <1>3, Zenon DEF HeaderTypeOK, MessageOK

LEMMA EmptyOK ==
    ASSUME NEW keepAlive \in BOOLEAN
    PROVE  MessageOK(Fields(keepAlive))
BY DEF MessageOK, Fields

\* What is received has a length that its lines name, or none.
LEMMA ReceivedOK ==
    ASSUME NEW o, NEW r, r.via \in {"TCP", "UDP", "GET", "POST"},
           Received(o, r).MsgContentLength \in Nat
    PROVE  MessageOK(Received(o, r))
<1> DEFINE p == Received(o, r)
           length == GetValue(r.lines, "Content-Length")
           kept == GetValue(r.lines, "Connection")
<1>1. /\ p.m_bKeepAlive = (kept \notin {<<"close">>, <<"Close">>})
      /\ length = <<>> => p.MsgContentLength = 0
      /\ length # <<>> => p.m_pPayload = "content"
  BY ReadText
<1>2. p.TCPSocketHandle = (r.via # "UDP")
  BY ReceivedCameAs DEF CameAs
<1> HIDE DEF p, length, kept
<1>3. p.m_bKeepAlive \in BOOLEAN /\ p.TCPSocketHandle \in BOOLEAN
  BY <1>1, <1>2
<1>4. p.MsgContentLength > 0 => p.m_pPayload = "content"
  BY <1>1
<1> QED
  BY <1>3, <1>4 DEF MessageOK, p

LEMMA DispatchedOK ==
    ASSUME NEW m, DOMAIN m = MsgFields, MessageOK(m)
    PROVE  MessageOK(Dispatched(m))
<1> DEFINE d == Dispatched(m)
<1>1. \A f \in MsgFields \ {"MsgFrom"} : d[f] = m[f]
  BY DispatchedSays
<1> HIDE DEF d
<1>2. /\ d.MsgContentLength = m.MsgContentLength /\ d.m_pPayload = m.m_pPayload
      /\ d.m_bKeepAlive = m.m_bKeepAlive /\ d.TCPSocketHandle = m.TCPSocketHandle
  BY <1>1 DEF MsgFields
<1> QED
  BY <1>2 DEF MessageOK, d

LEMMA TypesStep ==
    ASSUME HeaderTypes, AddressedInv, WrittenInv, [HeaderNext]_headerVars
    PROVE  HeaderTypes'
<1>t. /\ serving \in Objects /\ Other(serving) \in Objects /\ Other(serving) # serving
      /\ msg = [o \in Objects |-> msg[o]]
  BY OtherObject DEF AddressedInv
<1>1. ASSUME NEW o \in Objects, NEW r \in Requests, Receive(o, r)
      PROVE  HeaderTypes'
  <2> DEFINE q == Received(msg[o], r)
  <2>1. r.via \in {"TCP", "UDP", "GET", "POST"} /\ r.wrote.length \in Nat
    BY HeaderAssumption, WrittenAssumption, Zenon
  <2>2. q.MsgContentLength \in Nat
    BY <2>1, RequestRead DEF SaysWritten
  <2>3. MessageOK(q)
    BY <2>1, <2>2, ReceivedOK
  <2> HIDE DEF q
  <2>4. msg' = [msg EXCEPT ![o] = q] /\ UNCHANGED <<m_ServerPort, peer>>
    BY <1>1 DEF Receive, q
  <2> QED
    BY <1>t, <2>3, <2>4 DEF HeaderTypes
<1>2. ASSUME NEW o \in Objects, NEW e \in Errands, Ask(o, e)
      PROVE  HeaderTypes'
  <2> DEFINE q == [ResetMsg(msg[o]) EXCEPT !.MsgCommand = <<"ECHO">>, !.MsgTo = e.to,
                                           !.MsgProtocolType = "MCP",
                                           !.MsgConnectionType = e.via]
             d == Dispatched(q)
  <2>1. MessageOK(q) /\ DOMAIN q = MsgFields
    BY DEF MessageOK, ResetMsg, Fields, MsgFields
  <2>2. msg' = [msg EXCEPT ![o] = d] /\ UNCHANGED <<m_ServerPort, peer>>
    BY <1>2 DEF Ask
  <2> HIDE DEF q
  <2>3. MessageOK(d)
    BY <2>1, DispatchedOK
  <2> HIDE DEF d
  <2> QED
    BY <1>t, <2>2, <2>3 DEF HeaderTypes
<1>3. ASSUME NEW length \in Bodies, Answer(length)
      PROVE  HeaderTypes'
  <2> DEFINE o == Other(serving)
             c == CreateMessageReply(msg[o], msg[serving])
             typed == [c EXCEPT !.MsgContentType = <<"text/html">>]
             full == SetContentPayload(typed, "content", length)
             q == IF length = 0 THEN Dispatched(c) ELSE Dispatched(full)
  <2>1. /\ DOMAIN c = MsgFields /\ c.MsgContentLength = 0
        /\ c.m_bKeepAlive = msg[serving].m_bKeepAlive
        /\ c.TCPSocketHandle = msg[serving].TCPSocketHandle
    BY DEF CreateMessageReply, ResetMsg, Fields, MsgFields
  <2>2. MessageOK(msg[serving])
    BY <1>t DEF HeaderTypes
  <2>3. MessageOK(c)
    BY <2>1, <2>2 DEF MessageOK
  <2>4. MessageOK(full) /\ DOMAIN full = MsgFields
    <3> HIDE DEF c
    <3>1. full.MsgContentLength = length /\ full.m_pPayload = "content"
          /\ DOMAIN full = MsgFields /\ full.m_bKeepAlive = c.m_bKeepAlive /\ full.TCPSocketHandle = c.TCPSocketHandle
      BY <2>1 DEF SetContentPayload, MsgFields
    <3>2. length \in Nat
      BY LengthAssumption
    <3> QED
      BY <2>3, <3>1, <3>2 DEF MessageOK
  <2>5. msg' = [msg EXCEPT ![o] = q] /\ UNCHANGED <<m_ServerPort, peer>>
    BY <1>3 DEF Answer
  <2> HIDE DEF o, c, full
  <2>6. MessageOK(q) /\ o \in Objects
    BY <1>t, <2>1, <2>3, <2>4, DispatchedOK DEF o
  <2> HIDE DEF q
  <2> QED
    BY <1>t, <2>5, <2>6 DEF HeaderTypes
<1>4. CASE PostNotifyMessage
  <2> DEFINE s == serving
             o == Other(serving)
             b == NotifyMessage(msg[o], msg[s])
             n == Dispatched(b)
             q == [msg[s] EXCEPT !.MsgNotifyActionType = "notify-no"]
  <2>1. MessageOK(msg[s]) /\ DOMAIN msg[s] = MsgFields /\ s \in Objects /\ o \in Objects /\ o # s
    BY <1>4, <1>t DEF HeaderTypes, PostNotifyMessage, AddressedInv, CameAs
  <2>2. MessageOK(n)
    <3>1. b.MsgContentLength = 0 /\ b.m_bKeepAlive = TRUE /\ DOMAIN b = MsgFields
          /\ b.TCPSocketHandle = msg[s].TCPSocketHandle
      BY DEF NotifyMessage, ResetMsg, Fields, MsgFields
    <3> HIDE DEF b
    <3>2. b.m_bKeepAlive \in BOOLEAN /\ b.TCPSocketHandle \in BOOLEAN
      BY <2>1, <3>1, Zenon DEF MessageOK
    <3>3. b.MsgContentLength \in Nat /\ ~(b.MsgContentLength > 0)
      BY <3>1
    <3>4. MessageOK(b)
      BY <3>2, <3>3, Zenon DEF MessageOK
    <3> QED
      BY <3>1, <3>4, DispatchedOK
  <2>3. MessageOK(q)
    <3>1. q.MsgContentLength = msg[s].MsgContentLength /\ q.m_pPayload = msg[s].m_pPayload
          /\ q.m_bKeepAlive = msg[s].m_bKeepAlive /\ q.TCPSocketHandle = msg[s].TCPSocketHandle
      BY <2>1 DEF MsgFields
    <3> HIDE DEF q
    <3> QED
      BY <2>1, <3>1 DEF MessageOK
  <2> HIDE DEF n
  <2>4. msg' = [msg EXCEPT ![s].MsgNotifyActionType = "notify-no", ![o] = n]
        /\ UNCHANGED <<m_ServerPort, peer>>
    BY <1>4 DEF PostNotifyMessage, n
  <2> HIDE DEF o, s
  <2>5. msg'[s] = q /\ msg'[o] = n /\ \A x \in Objects \ {s, o} : msg'[x] = msg[x]
    BY <1>t, <2>1, <2>4
  <2> HIDE DEF q
  <2> QED
    BY <2>2, <2>3, <2>4, <2>5 DEF HeaderTypes
<1>5. CASE TransmitMsg
  <2>1. UNCHANGED <<msg, peer>>
    BY <1>5 DEF TransmitMsg
  <2>2. m_ServerPort' \in Numbers
    <3>1. \A text : atoi(text) \in Numbers
      BY LengthAssumption DEF atoi
    <3>2. m_ServerPort \in Numbers
      BY DEF HeaderTypes
    <3> QED
      BY <1>5, <3>1, <3>2 DEF TransmitMsg, TransmitMCP, TransmitHTTP, PortIn
  <2> QED
    BY <2>1, <2>2 DEF HeaderTypes
<1>6. CASE Arrive
  <2> DEFINE via == IF sent.via = "OB_UDP" THEN "UDP" ELSE "TCP"
             r == [via |-> via, lines |-> sent.lines]
             q == Received(peer, r)
             a == msg[Other(serving)]
  <2>1. UNCHANGED <<msg, m_ServerPort>> /\ peer' \in {peer, q} /\ stage = "wire"
        /\ (sent.via = "HTTP" => peer' = peer) /\ (sent.via # "HTTP" => peer' = q)
    BY <1>6 DEF Arrive
  <2>2. ASSUME sent.via # "HTTP" PROVE MessageOK(q)
    <3>1. r.via \in {"TCP", "UDP", "GET", "POST"} /\ r.lines = sent.lines
      OBVIOUS
    <3>2. CASE asked \in Errands
      <4>1. SentAs(a, asked) /\ sent.lines = RequestLines(a)
        BY <2>1, <2>2, <3>2 DEF AddressedInv
      <4>2. GetValue(r.lines, "Content-Length") = <<>>
        BY <3>1, <3>2, <4>1, ErrandRead
      <4> HIDE DEF r
      <4>3. q.MsgContentLength = 0
        BY <3>1, <4>2, ReadText
      <4> QED
        BY <3>1, <4>3, ReceivedOK
    <3>3. CASE asked \in Requests
      <4>1. sent.via = a.MsgConnectionType /\ AnswersTo(a, msg[serving])
        BY <2>1, <2>2, <3>3 DEF AddressedInv
      <4>2. sent.via \in {"OB_TCP", "OB_UDP"}
        BY <4>1 DEF AnswersTo, OutOf
      <4>3. peer'.MsgContentLength = a.MsgContentLength
        BY <1>6, <2>1, <3>3, <4>2, AnswerRead DEF HeaderNext
      <4>4. a.MsgContentLength \in Nat
        BY <1>t DEF HeaderTypes, MessageOK
      <4>5. q.MsgContentLength \in Nat
        BY <2>1, <2>2, <4>3, <4>4
      <4> HIDE DEF r
      <4> QED
        BY <3>1, <4>5, ReceivedOK
    <3> QED
      BY <2>1, <3>2, <3>3 DEF AddressedInv
  <2> HIDE DEF q
  <2>3. MessageOK(peer')
    BY <2>1, <2>2 DEF HeaderTypes
  <2> QED
    BY <2>1, <2>3 DEF HeaderTypes
<1>7. CASE UNCHANGED headerVars
  BY <1>7 DEF headerVars, HeaderTypes
<1> QED
  BY <1>1, <1>2, <1>3, <1>4, <1>5, <1>6, <1>7 DEF HeaderNext

\* What is said of messages has its type, wherever they were read, made or sent from,
\* and none has a length without the content.
THEOREM HeaderTypeCorrect == HeaderSpec => []HeaderTypeOK
<1>1. HeaderInit => HeaderTypes
  BY EmptyOK, LengthAssumption DEF HeaderInit, HeaderTypes
<1>2. HeaderTypes /\ AddressedInv /\ WrittenInv /\ [HeaderNext]_headerVars => HeaderTypes'
  BY TypesStep
<1> QED
  BY <1>1, <1>2, HeaderTypesSay, AnswersFindTheirWay, ReadAsMeant, PTL DEF HeaderSpec
=============================================================================
