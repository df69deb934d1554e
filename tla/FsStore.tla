------------------------------ MODULE FsStore ------------------------------
(***************************************************************************)
(* The persistent tier of packages/ap-store on the relay's disc: ApStore   *)
(* over the FsAdapter of packages/runtime, which keeps one file per key.   *)
(*                                                                         *)
(* Two things the store cannot see from behind the adapter's interface:    *)
(* writeFile() truncates a file before it fills it, so that for a while,   *)
(* or for good if it is cut short, the file holds no JSON and reading it   *)
(* rejects; and list() takes the names of a directory first and opens the  *)
(* files one after another, while puts and deletes go on.                  *)
(***************************************************************************)
EXTENDS ApStore, Sequences

CONSTANT Viewed  \* the collection the reader lists with getChildren()

VARIABLES
    torn,    \* the keys whose file is there and holds no JSON
    open,    \* open[p]: the key whose file p's writeFile() has truncated
    reader   \* a getChildren(Viewed) in flight

fsVars == <<storeVars, torn, open, reader>>

ASSUME FsAssumption == Viewed \in Colls

\* filenameFor(): one file per key.  An object's key is its id alone.
objectKey(id) == <<id>>
IndexKeys == Colls \X Times \X Ids
Keys == IndexKeys \cup {objectKey(id) : id \in Ids}
NoKey == <<>>

\* at: whether a read is in flight; keys: the names readdir() gave whose files
\* are still to be read; ids: the values list() has returned or will return,
\* still to be looked up; docs: the ids whose documents it has.  stayed is
\* history: the ids Viewed has listed at every moment since readdir().
NoRead == [at |-> "idle", keys |-> {}, ids |-> {}, docs |-> {}, stayed |-> {}]

InViewed == {id \in Ids : Viewed \in Listed(id)}

FInit ==
    /\ Init
    /\ torn = {}
    /\ open = [p \in Callers |-> NoKey]
    /\ reader = NoRead

\* The reader is not the one that moves; what leaves Viewed has not stayed.
Watched == reader' = [reader EXCEPT !.stayed = @ \cap InViewed']

-----------------------------------------------------------------------------
\* writeFile(), first half: the file is created or truncated.
Truncate(p, key) ==
    /\ open[p] = NoKey
    /\ open' = [open EXCEPT ![p] = key]
    /\ torn' = torn \cup {key}
    /\ UNCHANGED <<storeVars, reader>>

OpenObject(p) ==
    /\ pc[p] = "unindex"
    /\ todo[p] = {}
    /\ Truncate(p, objectKey(call[p].id))

OpenIndex(p) ==
    /\ pc[p] = "index"
    /\ \E c \in todo[p] : Truncate(p, indexKey(c, call[p].ts, call[p].id))

\* writeFile(), second half: the content is there, and put() goes on.
Filled(p) ==
    /\ open[p] # NoKey
    /\ torn' = torn \ {open[p]}
    /\ open' = [open EXCEPT ![p] = NoKey]
    /\ Watched

WriteObject(p) == PutWrite(p) /\ Filled(p)

WriteIndex(p) == PutIndex(p) /\ idx' = idx \cup {open[p]} /\ Filled(p)

-----------------------------------------------------------------------------
\* get(): JSON.parse() of a torn file throws, and the call rejects with it.
Read(p) ==
    /\ PutRead(p) \/ DeleteRead(p)
    /\ objectKey(call[p].id) \notin torn
    /\ UNCHANGED <<torn, open>>
    /\ Watched

ReadRejects(p) ==
    /\ pc[p] \in {"get", "dget"}
    /\ objectKey(call[p].id) \in torn
    /\ Return(p)
    /\ UNCHANGED <<obj, idx, used, torn, open, reader>>

\* delete(): rm() with force, which does not look into the file.
Unlink(p) ==
    /\ PutUnindex(p) \/ DeleteUnindex(p)
    /\ torn' = torn \ {indexKey(c, old[p].ts, call[p].id) : c \in todo[p] \ todo'[p]}
    /\ UNCHANGED open
    /\ Watched

\* What moves no file's content halfway: the calls, the removal of an object,
\* the change event.
Rest(p) ==
    /\ open[p] = NoKey
    /\ Put(p) \/ Delete(p) \/ PutEmit(p) \/ DeleteObject(p) \/ DeleteEmit(p)
    /\ UNCHANGED <<torn, open>>
    /\ Watched

\* The disc is full or the process stops: a file that was truncated stays so.
CutShort(p) ==
    /\ Abort(p)
    /\ open' = [open EXCEPT ![p] = NoKey]
    /\ UNCHANGED <<torn, reader>>

-----------------------------------------------------------------------------
\* getChildren(Viewed): list() takes the names of the collection's keys.
ReadNames ==
    /\ reader.at = "idle"
    /\ reader' = [NoRead EXCEPT
         !.at = "reading",
         !.keys = {k \in idx \cup (torn \cap IndexKeys) : k[1] = Viewed},
         !.stayed = InViewed]
    /\ UNCHANGED <<storeVars, torn, open>>

\* Mutant of ReadEntry: an entry deleted meanwhile ends the listing.
ReadEntryStops ==
    \E k \in reader.keys \ torn :
        /\ reader' = IF k \in idx
                     THEN [reader EXCEPT !.keys = @ \ {k}, !.ids = @ \cup {k[3]}]
                     ELSE [reader EXCEPT !.keys = {}]
        /\ UNCHANGED <<storeVars, torn, open>>

\* entries.push({ key, value: await this.get(key) }): no value when the file
\* has been deleted since, and getChildren() then finds no document for it.
ReadEntry ==
    \E k \in reader.keys \ torn :
        /\ reader' = [reader EXCEPT !.keys = @ \ {k},
                                    !.ids = IF k \in idx THEN @ \cup {k[3]} ELSE @]
        /\ UNCHANGED <<storeVars, torn, open>>

\* const doc = await this.get(entry.value); if (doc) docs.push(doc)
ReadObject ==
    /\ reader.keys = {}
    /\ \E id \in reader.ids :
        /\ objectKey(id) \notin torn
        /\ reader' = [reader EXCEPT !.ids = @ \ {id},
                                    !.docs = IF obj[id] = None THEN @ ELSE @ \cup {id}]
    /\ UNCHANGED <<storeVars, torn, open>>

\* The read rejects at a file it comes to while it is torn.
ReadFails ==
    /\ \/ reader.keys \cap torn # {}
       \/ reader.keys = {} /\ \E id \in reader.ids : objectKey(id) \in torn
    /\ reader' = NoRead
    /\ UNCHANGED <<storeVars, torn, open>>

Answered == reader.at = "reading" /\ reader.keys = {} /\ reader.ids = {}

ReadReturns ==
    /\ Answered
    /\ reader' = NoRead
    /\ UNCHANGED <<storeVars, torn, open>>

FNext ==
    \/ \E p \in Callers :
        \/ OpenObject(p) \/ WriteObject(p) \/ OpenIndex(p) \/ WriteIndex(p)
        \/ Read(p) \/ ReadRejects(p) \/ Unlink(p) \/ Rest(p) \/ CutShort(p)
    \/ ReadNames \/ ReadEntry \/ ReadObject \/ ReadFails \/ ReadReturns

FSpec == FInit /\ [][FNext]_fsVars

-----------------------------------------------------------------------------
\* A getChildren() that is answered has every document its collection listed
\* from the first moment of the read to the last, whatever other puts and
\* deletes did to the files between the readdir() and the reads that follow it
\* (fs-adapter.js:56-72, store.js:158-170).
ListedThroughout == Answered => reader.stayed \subseteq reader.docs

\* What a write that was cut short can spoil.  A torn object file is in no
\* collection, so only its own id is lost and every listing goes on; a torn
\* index file is one that the stored record names, so the next put() or
\* delete() of the id removes it and the listing works again (the order of
\* the writes in put(), store.js:116-127, over fs-adapter.js:35-38).
TornContained ==
    \A k \in torn \ {open[p] : p \in Callers} :
        \/ /\ k \notin IndexKeys
           /\ \A e \in idx \cup (torn \cap IndexKeys) : objectKey(e[3]) # k
        \/ /\ k \in IndexKeys
           /\ \/ k \in Entries(k[3], obj[k[3]])
              \/ \E p \in Callers :
                    pc[p] = "dunindex" /\ call[p].id = k[3] /\ k[1] \in todo[p] /\ k[2] = old[p].ts

-----------------------------------------------------------------------------
\* Why they hold.  The adapter's own variables have these types.
FTypeOK ==
    /\ torn \subseteq Keys
    /\ open \in [Callers -> Keys \cup {NoKey}]
    /\ reader \in [at : {"idle", "reading"}, keys : SUBSET IndexKeys,
                   ids : SUBSET Ids, docs : SUBSET Ids, stayed : SUBSET Ids]

\* A file that is being written is the one the put has come to.
OpenOK ==
    \A p \in Callers : open[p] # NoKey =>
        /\ open[p] \in torn
        /\ \/ /\ pc[p] = "unindex" /\ todo[p] = {}
              /\ open[p] = objectKey(call[p].id)
           \/ /\ pc[p] = "index"
              /\ \E c \in todo[p] : open[p] = indexKey(c, call[p].ts, call[p].id)

\* A torn object is being written, or its put was cut short; until it is whole
\* again no call gets past it, and no collection has an entry of it.
TornObjects ==
    \A id \in Ids : objectKey(id) \in torn =>
        /\ \E p \in Callers :
              id \in MayPut[p] /\ (open[p] = objectKey(id) \/ p \in Faults)
        /\ \A p \in Callers :
              pc[p] \notin {"idle", "get", "dget"} /\ call[p].id = id => open[p] = objectKey(id)
        /\ \A e \in idx \cup (torn \cap IndexKeys) : e[3] # id

\* A torn entry is one of the stored record, or its delete is about to come to
\* it; a put that is about to write the record anew has removed it before.
TornEntries ==
    \A k \in torn \cap IndexKeys :
        /\ \/ k \in Entries(k[3], obj[k[3]])
           \/ \E p \in Callers :
                pc[p] = "dunindex" /\ call[p].id = k[3] /\ k[1] \in todo[p] /\ k[2] = old[p].ts
        /\ \A p \in Callers : pc[p] = "unindex" /\ call[p].id = k[3] => k[1] \in todo[p]

\* What has stayed in Viewed has been read, or is still to be come to.
ReaderOK ==
    /\ reader.stayed \subseteq InViewed
    /\ \A id \in reader.stayed \ (reader.ids \cup reader.docs) :
          \E k \in reader.keys \cap idx : k[1] = Viewed /\ k[3] = id

\* The inductive invariant behind ListedThroughout and TornContained.
FsInv == FTypeOK /\ OpenOK /\ TornObjects /\ TornEntries /\ ReaderOK
=============================================================================
