---------------------------- MODULE SealedOutbox ----------------------------
(***************************************************************************)
(* Private documents on their way out: ClientOutbox, with what publish()   *)
(* makes of a document before it queues it (packages/ap-encryption), and   *)
(* the group it is meant for (packages/ap-groups).                         *)
(*                                                                         *)
(* The application lists the members of the group, one read per member,    *)
(* and publishes for those it found; members come and go meanwhile, and    *)
(* the document may wait in the outbox for long.  Session and ephemeral    *)
(* documents take no part in the outbox: they are sent at once or never.   *)
(*                                                                         *)
(* Cryptography is symbolic: what is locked under a key is opened by that  *)
(* key, and two parties agree on the key made of both their key pairs.     *)
(***************************************************************************)
EXTENDS ClientOutbox

CONSTANTS
    People,      \* whoever may be a member, each with an X25519 key pair
    Me,          \* the publisher
    Private,     \* slots whose publish() calls are meant for the group; the
                 \* calls of the others are public
    Founders,    \* the members at first
    Minted,      \* Minted[n]: the id mintId() gives the n-th document
    MaxChanges   \* bound: members added and removed; MaxPublish bounds the
                 \* publish() calls of all durabilities together

ASSUME SealedAssumption ==
    /\ Private \subseteq Publishers
    /\ Me \in People /\ Founders \subseteq People
    /\ Minted \in [1..MaxPublish -> Ids] /\ MaxChanges \in Nat

VARIABLES
    members,  \* the members whose record the store holds
    changes,  \* members added and removed so far
    draft,    \* draft[p]: the listMembers() a publish() call p waits for
    docs,     \* docs[ts]: the document of the publish() with that ts
    live,     \* session and ephemeral documents whose store.put() is under way
    lives,    \* how many were published
    aired     \* those send() accepted (history)

groupVars == <<members, changes>>
liveVars == <<live, lives, aired>>
sealVars == <<groupVars, draft, docs, liveVars>>
svars == <<vars, sealVars>>

\* A listing: the records still to be read, the members found.  `start` and
\* `stayed` are history: the members when it began, and those ever since.
Listing(ms) == [on |-> TRUE, todo |-> ms, found |-> {}, start |-> ms, stayed |-> ms]
NoListing == [Listing({}) EXCEPT !.on = FALSE]

SOInit ==
    /\ OInit
    /\ members = Founders /\ changes = 0
    /\ draft = [p \in Publishers |-> NoListing]
    /\ docs = <<>>
    /\ live = {} /\ lives = 0 /\ aired = {}

-----------------------------------------------------------------------------
\* addMember() and removeMember(): one record per member.  (Bound: as long as
\* there is something left to publish.)
Changed(ms) ==
    /\ changes < MaxChanges
    /\ clock + lives < MaxPublish
    /\ changes' = changes + 1
    /\ members' = ms
    /\ draft' = [p \in Publishers |-> [draft[p] EXCEPT !.stayed = @ \cap ms]]
    /\ UNCHANGED <<vars, docs, liveVars>>

AddMember(m) == m \notin members /\ Changed(members \cup {m})

RemoveMember(m) == m \in members /\ Changed(members \ {m})

\* listMembers(): getChildren() of the group's collection is called...
ListMembers(p) ==
    /\ p \in Private
    /\ pc[p] = "idle"
    /\ ~draft[p].on
    /\ clock + lives < MaxPublish
    /\ draft' = [draft EXCEPT ![p] = Listing(members)]
    /\ UNCHANGED <<vars, groupVars, docs, liveVars>>

\* ... and reads the records it listed, skipping those removed since.
ReadMember(p) ==
    /\ \E m \in draft[p].todo :
         draft' = [draft EXCEPT ![p].todo = @ \ {m}, ![p].found = @ \cup ({m} \cap members)]
    /\ UNCHANGED <<vars, groupVars, docs, liveVars>>

-----------------------------------------------------------------------------
\* ecdh() and sha256(): the key two parties share.
wrapKey(mine, theirs) == {mine, theirs}

Locked(key, text) == [key |-> key, text |-> text]
Undecryptable == 0
Unlocked(key, box) == IF box.key = key THEN box.text ELSE Undecryptable

\* encryptForRecipients(): one content key, wrapped for each recipient.  Every
\* text has a random content key of its own, so the two share a number.
encryptForRecipients(text, sender, recipients) ==
    [content |-> Locked(text, text),
     to |-> [r \in recipients |-> Locked(wrapKey(sender, r), text)]]

\* decryptFromSender(), by the holder of the key pair of id.
decryptFromSender(envelope, id, sender) ==
    IF id \notin DOMAIN envelope.to THEN Undecryptable
    ELSE Unlocked(Unlocked(wrapKey(id, sender), envelope.to[id]), envelope.content)

\* encryptPayload(): the envelope, with the public key of the sender.
encryptPayload(text, sender, recipients) ==
    LET envelope == encryptForRecipients(text, sender, recipients)
    IN  [senderKey |-> sender, content |-> envelope.content, to |-> envelope.to]

decryptPayload(payload, id) == decryptFromSender(payload, id, payload.senderKey)

\* What q makes of a document it comes to hold.
Reads(d, q) == d.fields # Undecryptable \/ decryptPayload(d.payload, q) # Undecryptable

-----------------------------------------------------------------------------
\* Mutant of assertEncryptionGuard: an empty recipient list passes as well.
GuardPublicOnly(isPublic, encrypted, optOut) == ~(isPublic /\ encrypted)

\* assertEncryptionGuard() does not throw.
assertEncryptionGuard(isPublic, encrypted, optOut) ==
    /\ ~(isPublic /\ encrypted)
    /\ ~(~isPublic /\ ~encrypted /\ ~optOut)

\* The document publish() stores: its fields, or the payload in their place.
Document(text, isPublic, optOut, listing) ==
    [public |-> isPublic, optOut |-> optOut,
     fields |-> IF listing.found = {} THEN text ELSE Undecryptable,
     payload |-> encryptPayload(text, Me, listing.found),
     start |-> listing.start, stayed |-> listing.stayed]

\* The guard lets a publish() call of slot p pass.  It encrypts for the members
\* its listing found, if there was one, and is public or opts out as it likes.
Admitted(p, isPublic, optOut) ==
    /\ draft[p].todo = {}
    /\ assertEncryptionGuard(isPublic, draft[p].found # {}, optOut)

\* The guard throws: nothing is stored.
Throws(p, isPublic, optOut) ==
    /\ draft[p].on
    /\ draft[p].todo = {}
    /\ ~assertEncryptionGuard(isPublic, draft[p].found # {}, optOut)
    /\ draft' = [draft EXCEPT ![p] = NoListing]
    /\ UNCHANGED <<vars, groupVars, docs, liveVars>>

PublishPersistent(p, isPublic, optOut) ==
    /\ clock + lives < MaxPublish
    /\ Admitted(p, isPublic, optOut)
    /\ Publish(p, Minted[clock + 1])
    /\ docs' = Append(docs, Document(clock', isPublic, optOut, draft[p]))
    /\ draft' = [draft EXCEPT ![p] = NoListing]
    /\ UNCHANGED <<groupVars, liveVars>>

PublishLive(p, isPublic, optOut) ==
    /\ pc[p] = "idle"
    /\ clock + lives < MaxPublish
    /\ Admitted(p, isPublic, optOut)
    /\ lives' = lives + 1
    /\ live' = live \cup {Document(MaxPublish + lives', isPublic, optOut, draft[p])}
    /\ draft' = [draft EXCEPT ![p] = NoListing]
    /\ UNCHANGED <<vars, groupVars, docs, aired>>

\* if (connected) transport.send(), whose error is swallowed: it is not queued.
SendLive ==
    /\ \E d \in live :
        /\ live' = live \ {d}
        /\ aired' = IF connected /\ sock = "open" THEN aired \cup {d} ELSE aired
    /\ UNCHANGED <<vars, groupVars, draft, docs, lives>>

-----------------------------------------------------------------------------
\* The app is killed: what it had in hand is gone.
SOCrash ==
    /\ Crash
    /\ draft' = [p \in Publishers |-> NoListing]
    /\ live' = {}
    /\ UNCHANGED <<groupVars, docs, lives, aired>>

OutboxStep ==
    /\ \/ \E p \in Publishers : PublishStep(p)
       \/ \E f \in Flushers : FlushStep(f)
       \/ Dial \/ Open \/ Refuse \/ Resume \/ Drop \/ CloseEvent
    /\ UNCHANGED sealVars

CallPublish(p) ==
    \E isPublic, optOut \in BOOLEAN :
        /\ isPublic => ~optOut
        /\ IF p \in Private THEN isPublic => draft[p].on ELSE isPublic
        /\ \/ Throws(p, isPublic, optOut)
           \/ PublishPersistent(p, isPublic, optOut)
           \/ p \in Private /\ PublishLive(p, isPublic, optOut)

SONext ==
    \/ \E m \in People : AddMember(m) \/ RemoveMember(m)
    \/ \E p \in Publishers : ListMembers(p) \/ ReadMember(p) \/ CallPublish(p)
    \/ SendLive \/ SOCrash \/ OutboxStep

SOSpec == SOInit /\ [][SONext]_svars /\ OFairness

-----------------------------------------------------------------------------
\* What the transport was given, queued before or not.
Left == {docs[w.ts] : w \in handed} \cup aired

\* A document that is not public leaves the device only sealed, unless the
\* caller opted out: whoever was a member from the beginning of the listing it
\* was published with to its end can open it, and whoever was not when that
\* began cannot, however members came and went, and also when they were all
\* gone by the end of it (client.js:118-139, guard.js, membership.js:46-53).
SealedForMembers ==
    \A d \in Left : ~d.public /\ ~d.optOut =>
        \A q \in People :
            /\ q \in d.stayed => Reads(d, q)
            /\ Reads(d, q) => q \in d.start

-----------------------------------------------------------------------------
\* Why SealedForMembers holds.  Between its awaits a listing has read, or has
\* still to read, whoever was a member all the time, and has read no one else.
Listings == [on : BOOLEAN, todo : SUBSET People, found : SUBSET People,
             start : SUBSET People, stayed : SUBSET People]

DraftsOK ==
    /\ members \subseteq People
    /\ draft \in [Publishers -> Listings]
    /\ \A p \in Publishers :
        /\ draft[p].todo \cup draft[p].found \subseteq draft[p].start
        /\ draft[p].stayed \subseteq members \cap (draft[p].found \cup draft[p].todo)

Sealed(d) ==
    ~d.public /\ ~d.optOut =>
        \A q \in People : (q \in d.stayed => Reads(d, q)) /\ (Reads(d, q) => q \in d.start)

Documents == {Document(text, isPublic, optOut, listing) :
                text \in Nat \ {Undecryptable}, isPublic \in BOOLEAN, optOut \in BOOLEAN,
                listing \in Listings}

\* The inductive invariant behind SealedForMembers: what was ever queued, is on
\* its way or was sent at once is sealed when it has to be.
SealedInv ==
    /\ DraftsOK
    /\ docs \in Seq(Documents) /\ Len(docs) = clock
    /\ lives \in Nat
    /\ \A n \in DOMAIN docs : Sealed(docs[n])
    /\ \A d \in live \cup aired : Sealed(d)
=============================================================================
