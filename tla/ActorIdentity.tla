--------------------------- MODULE ActorIdentity ---------------------------
(***************************************************************************)
(* What other servers can do with the identity of a relay: find its actor  *)
(* by a handle (webfinger.js, resolve.js, relay/src/ap-router.js), read    *)
(* the identity key from the actor document (actor.js, multikey.js), and   *)
(* verify requests the relay signs with its transport key                  *)
(* (http-signature.js, signed-fetch.js), while the relay's process stops   *)
(* and starts over its vault (LocalIdentity, which this module extends).   *)
(*                                                                         *)
(* A signature is the text signed and the key pair that signed it: it is   *)
(* valid under the public key of that pair for that text and no other.     *)
(***************************************************************************)
EXTENDS LocalIdentity, Multikey

CONSTANTS
    Outgoing,   \* requests of the relay on their way at one time
    NoBody

ASSUME RequestAssumption == NoBody \notin {"activity", "rewritten"}

VARIABLES
    salt,     \* which public keys the seeds of this behaviour have
    request,  \* request[r]: a request the relay signed, as it is on its way
    asSigned, \* asSigned[r]: the same as it was sent (history)
    verdict,  \* verdict[r]: what the receiver has made of it
    learned   \* the identity keys other servers have read from actor documents

federationVars == <<salt, request, asSigned, verdict, learned>>
actorVars == <<identityVars, federationVars>>

Base == "actor"
Pending == "pending"
NoRequest == [method |-> "none"]
RawKeys == [1..KeyLen -> 0..ByteBase - 1]

\* The public key of the n-th seed generated.
PublicKey(n) == [i \in 1..KeyLen |-> (salt[i] + n) % ByteBase]

AInit ==
    /\ LInit
    /\ salt \in RawKeys
    /\ request = [r \in Outgoing |-> NoRequest]
    /\ asSigned = [r \in Outgoing |-> NoRequest]
    /\ verdict = [r \in Outgoing |-> Pending]
    /\ learned = {}

Serving == {p \in Processes : pc[p] = "serving"}

\* buildActor(): the document process p serves.
Actor(p) ==
    [id |-> Base,
     publicKey |-> [id |-> <<Base, "transport-key">>, owner |-> Base,
                    publicKeyPem |-> held[p]["transport"]],
     assertionMethod |-> encodeMultikey(PublicKey(held[p]["seed"]))]

\* resolveWebFinger() and fetchActor(): a server asks for the actor's handle, is
\* given its URL, fetches the document, and reads the identity key in it.
Discover(p) ==
    /\ p \in Serving
    /\ learned' = learned \cup {decodeMultikey(Actor(p).assertionMethod)}
    /\ UNCHANGED <<identityVars, salt, request, asSigned, verdict>>

-----------------------------------------------------------------------------
RequestTarget == "(request-target)"
digestHeaderFor(body) == <<"SHA-256", body>>

\* buildSigningString(): the named parts of a request.
SigningString(req, names) ==
    [n \in names |-> IF n = RequestTarget THEN <<req.method, req.path>> ELSE req.headers[n]]

\* Mutant of SignedNames: the digest is sent, and not signed.
SignedNamesOfGet(headers) == {RequestTarget} \cup ({"host", "date"} \cap DOMAIN headers)

\* DEFAULT_SIGNED_HEADERS, those the request has.
SignedNames(headers) == {RequestTarget} \cup ({"host", "date", "digest"} \cap DOMAIN headers)

\* signRequest(): host, date and, with a body, digest are added, and all signed.
Signed(method, body, p) ==
    LET names == {"content-type", "host", "date"} \cup (IF body = NoBody THEN {} ELSE {"digest"})
        headers == [n \in names |-> IF n = "digest" THEN digestHeaderFor(body) ELSE "as sent"]
        signed == SignedNames(headers)
        target == [method |-> method, path |-> "inbox", headers |-> headers]
    IN  [method |-> method, path |-> "inbox", headers |-> headers, body |-> body,
         signature |-> [keyId |-> <<Base, "transport-key">>, names |-> signed,
                        text |-> SigningString(target, signed), key |-> held[p]["transport"]]]

\* signedFetch(): a GET, or the POST of an activity, leaves the relay.
Send(p, r) ==
    /\ p \in Serving
    /\ request[r] = NoRequest
    /\ \E shape \in {<<"GET", NoBody>>, <<"POST", "activity">>} :
         request' = [request EXCEPT ![r] = Signed(shape[1], shape[2], p)]
    /\ asSigned' = [asSigned EXCEPT ![r] = request'[r]]
    /\ UNCHANGED <<identityVars, salt, verdict, learned>>

\* What may be other than it was sent when the request arrives: a proxy rewrites
\* a header, the target, or the body, with its digest or without, or takes a
\* header away.
Other(n) == IF n = "digest" THEN digestHeaderFor("rewritten") ELSE "rewritten"

Rewritten(req) ==
    LET changed(n) == [req EXCEPT !.headers[n] = Other(n)]
        body == IF req.body = NoBody THEN {} ELSE {req, changed("digest")}
    IN  {[req EXCEPT !.path = "rewritten"], [req EXCEPT !.method = "PUT"]}
        \cup {changed(n) : n \in DOMAIN req.headers}
        \cup {[req EXCEPT !.headers = [m \in DOMAIN @ \ {n} |-> @[m]]] : n \in DOMAIN req.headers}
        \cup {[r EXCEPT !.body = "rewritten"] : r \in body}

Rewrite(r) ==
    /\ request[r] # NoRequest /\ verdict[r] = Pending
    /\ request[r] = asSigned[r]
    /\ \E req \in Rewritten(request[r]) : request' = [request EXCEPT ![r] = req]
    /\ UNCHANGED <<identityVars, salt, asSigned, verdict, learned>>

\* Mutant of DigestFits: the digest is not compared with the body.
DigestUnread(req) == TRUE

\* The digest header, if there is one, is the body's.
DigestFits(req) ==
    "digest" \in DOMAIN req.headers /\ req.body # NoBody =>
        req.headers["digest"] = digestHeaderFor(req.body)

\* verifyRequest() under public key k.
Verified(req, k) ==
    /\ DigestFits(req)
    /\ req.signature.names \subseteq DOMAIN req.headers \cup {RequestTarget}
    /\ req.signature.key = k
    /\ req.signature.text = SigningString(req, req.signature.names)

\* The receiver extracts the key id, fetches the actor document the relay serves
\* by now, and verifies; while nothing serves the document it cannot.
Judge(r) ==
    /\ request[r] # NoRequest /\ verdict[r] = Pending
    /\ LET keyId == request[r].signature.keyId
       IN  \/ Serving = {} /\ verdict' = [verdict EXCEPT ![r] = "unresolved"]
           \/ \E p \in Serving :
                /\ Actor(p).publicKey.id = keyId
                /\ verdict' = [verdict EXCEPT ![r] =
                     IF Verified(request[r], Actor(p).publicKey.publicKeyPem)
                     THEN "verified" ELSE "invalid"]
    /\ UNCHANGED <<identityVars, salt, request, asSigned, learned>>

ANext ==
    \/ LNext /\ UNCHANGED federationVars
    \/ \E p \in Processes :
         \/ Discover(p)
         \/ \E r \in Outgoing : Send(p, r)
    \/ \E r \in Outgoing : Rewrite(r) \/ Judge(r)

ASpec == AInit /\ [][ANext]_actorVars

-----------------------------------------------------------------------------
\* The parts of a request that were signed, and its body, are as they were sent.
Intact(r) ==
    LET req == request[r]
        names == asSigned[r].signature.names
    IN  /\ req.body = asSigned[r].body
        /\ names \subseteq DOMAIN req.headers \cup {RequestTarget}
        /\ SigningString(req, names) = SigningString(asSigned[r], names)

\* A request the relay signed verifies at its receiver exactly if its target,
\* host, date, digest and body are as they were sent, also if the relay has
\* been stopped and started between signing it and serving the document it is
\* verified with (local-actor.js:40-45, http-signature.js:46-138,
\* resolve.js:47-61).
VerifiedIfIntact ==
    \A r \in Outgoing :
        /\ verdict[r] = "verified" => Intact(r)
        /\ verdict[r] = "invalid" => ~Intact(r)

\* The identity key other servers have read from the relay's actor document, at
\* any time, is the public key of the seed the relay runs on: the Multikey
\* string decodes to what was encoded, and no restart makes another seed.
LearnedIsServed ==
    \A p \in Serving : learned \subseteq {PublicKey(held[p]["seed"])}

-----------------------------------------------------------------------------
\* Why they hold.  A request is signed with the transport key in the relay's
\* file, its digest too if it has a body; its signature and its being without a
\* body survive the way, and a judged request does not change any more.
SignedByFile(original) ==
    LET sig == original.signature
    IN  /\ sig.keyId = <<Base, "transport-key">>
        /\ sig.key = file["transport"] /\ file["transport"] \in 1..made
        /\ sig.text = SigningString(original, sig.names)
        /\ original.body # NoBody =>
             "digest" \in sig.names /\ original.headers["digest"] = digestHeaderFor(original.body)

Carried(req, original) ==
    /\ DOMAIN req = {"method", "path", "headers", "body", "signature"}
    /\ req.signature = original.signature
    /\ req.body = original.body \/ (req.body = "rewritten" /\ original.body # NoBody)

OutgoingOK ==
    /\ DOMAIN request = Outgoing /\ DOMAIN asSigned = Outgoing
    /\ verdict \in [Outgoing -> {Pending, "verified", "invalid", "unresolved"}]
    /\ \A r \in Outgoing :
        /\ request[r] = NoRequest => verdict[r] = Pending
        /\ request[r] # NoRequest =>
             SignedByFile(asSigned[r]) /\ Carried(request[r], asSigned[r])

\* What has been learned is what the seed in the file is published as.
LearnedFromFile ==
    /\ salt \in RawKeys
    /\ \A k \in learned : /\ file["seed"] \in 1..made
                          /\ k = decodeMultikey(encodeMultikey(PublicKey(file["seed"])))

\* The inductive invariant behind VerifiedIfIntact and LearnedIsServed.
FederationInv == OutgoingOK /\ LearnedFromFile /\ VerifiedIfIntact
=============================================================================
