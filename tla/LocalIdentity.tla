--------------------------- MODULE LocalIdentity ---------------------------
(***************************************************************************)
(* ensureLocalActor() (packages/relay/src/local-actor.js) over LocalVault  *)
(* and FsVaultAdapter (packages/local-vault/src): a relay process reads    *)
(* its seed and its transport key pair from two files when it starts, and  *)
(* generates and writes what is not there.                                 *)
(*                                                                         *)
(* fs.writeFile() opens the file with O_TRUNC and then writes it, so a     *)
(* write is two steps, and between them the file is neither absent nor a   *)
(* value: JSON.parse() of it throws.                                       *)
(***************************************************************************)
EXTENDS Naturals, FiniteSets

CONSTANTS
    Processes,   \* relay processes, and restarts of them, over one data directory
    Overlap,     \* TRUE: a process may start while another one is starting
    MaxStarts,   \* bound on the starts of a process
    Absent, Torn

VARIABLES
    file,      \* file[k]: what the file of key k holds
    pc,        \* pc[p]: where ensureLocalActor() stands in process p
    held,      \* held[p][k]: the value process p has in hand for key k
    starts,    \* the starts so far
    made,      \* the keys generated so far; a generated key is never made again
    returned   \* the identities ensureLocalActor() has returned

identityVars == <<file, pc, held, starts, made, returned>>

Keys == {"seed", "transport"}

ASSUME IdentityAssumption ==
    /\ MaxStarts \in Nat
    /\ Overlap \in BOOLEAN
    /\ Absent # Torn
    /\ {Absent, Torn} \cap Nat = {}

AtGet == [seed |-> "getSeed", transport |-> "getTransport"]
AtSet == [seed |-> "setSeed", transport |-> "setTransport"]
AtWrite == [seed |-> "writeSeed", transport |-> "writeTransport"]
After == [seed |-> "getTransport", transport |-> "build"]

Starting(p) == pc[p] \notin {"down", "serving", "failed"}

Nothing == [k \in Keys |-> Absent]

LInit ==
    /\ file = Nothing
    /\ pc = [p \in Processes |-> "down"]
    /\ held = [p \in Processes |-> Nothing]
    /\ starts = 0
    /\ made = 0
    /\ returned = {}

Start(p) ==
    /\ pc[p] = "down"
    /\ starts < MaxStarts
    /\ Overlap \/ \A q \in Processes \ {p} : ~Starting(q)
    /\ starts' = starts + 1
    /\ pc' = [pc EXCEPT ![p] = "getSeed"]
    /\ UNCHANGED <<file, held, made, returned>>

\* A file that is there and can be parsed: its value is taken.
Found(p, k) ==
    /\ file[k] \notin {Absent, Torn}
    /\ held' = [held EXCEPT ![p][k] = file[k]]
    /\ pc' = [pc EXCEPT ![p] = After[k]]
    /\ UNCHANGED made

\* Mutant of Generate: what is generated is used, but not stored.
GenerateOnly(p, k) ==
    /\ file[k] = Absent
    /\ made' = made + 1
    /\ held' = [held EXCEPT ![p][k] = made + 1]
    /\ pc' = [pc EXCEPT ![p] = After[k]]

\* ENOENT: get() returns undefined, and a key is generated.
Generate(p, k) ==
    /\ file[k] = Absent
    /\ made' = made + 1
    /\ held' = [held EXCEPT ![p][k] = made + 1]
    /\ pc' = [pc EXCEPT ![p] = AtSet[k]]

\* JSON.parse() throws, and the start fails.
Unreadable(p, k) ==
    /\ file[k] = Torn
    /\ pc' = [pc EXCEPT ![p] = "failed"]
    /\ UNCHANGED <<held, made>>

\* vault.getSeed(), vault.getTransportKeypair()
Get(p, k) ==
    /\ pc[p] = AtGet[k]
    /\ Found(p, k) \/ Generate(p, k) \/ Unreadable(p, k)
    /\ UNCHANGED <<file, starts, returned>>

\* writeFile() opens the file, which empties it.
Truncate(p, k) ==
    /\ pc[p] = AtSet[k]
    /\ file' = [file EXCEPT ![k] = Torn]
    /\ pc' = [pc EXCEPT ![p] = AtWrite[k]]
    /\ UNCHANGED <<held, starts, made, returned>>

\* ... and writes its content.
Write(p, k) ==
    /\ pc[p] = AtWrite[k]
    /\ file' = [file EXCEPT ![k] = held[p][k]]
    /\ pc' = [pc EXCEPT ![p] = After[k]]
    /\ UNCHANGED <<held, starts, made, returned>>

\* The actor document is built from the keys in hand, and is served from here on.
Build(p) ==
    /\ pc[p] = "build"
    /\ returned' = returned \cup {held[p]}
    /\ pc' = [pc EXCEPT ![p] = "serving"]
    /\ UNCHANGED <<file, held, starts, made>>

\* The process stops, while it starts or at any time later.
Stop(p) ==
    /\ pc[p] # "down"
    /\ pc' = [pc EXCEPT ![p] = "down"]
    /\ held' = [held EXCEPT ![p] = Nothing]
    /\ UNCHANGED <<file, starts, made, returned>>

LNext ==
    \E p \in Processes :
        \/ Start(p) \/ Build(p) \/ Stop(p)
        \/ \E k \in Keys : Get(p, k) \/ Truncate(p, k) \/ Write(p, k)

LSpec == LInit /\ [][LNext]_identityVars

-----------------------------------------------------------------------------
\* Every variable keeps its type, and a process that has come past a key, or is
\* about to write one, has that key in hand.
LTypeOK ==
    /\ made \in Nat
    /\ pc \in [Processes -> {"down", "getSeed", "setSeed", "writeSeed", "getTransport",
                            "setTransport", "writeTransport", "build", "serving", "failed"}]
    /\ file \in [Keys -> (1..made) \cup {Absent, Torn}]
    /\ held \in [Processes -> [Keys -> (1..made) \cup {Absent}]]
    /\ starts \in 0..MaxStarts
    /\ \A p \in Processes :
        /\ pc[p] \in {"build", "serving"} => Absent \notin {held[p][k] : k \in Keys}
        /\ pc[p] \in {"getTransport", "setTransport", "writeTransport"} => held[p]["seed"] # Absent
        /\ \A k \in Keys : pc[p] \in {AtSet[k], AtWrite[k]} => held[p][k] # Absent

\* Both keys are "generated once and persisted in the vault"
\* (local-actor.js:1-4): however often the relay stops, wherever it stops, and
\* is started again, it never serves a second identity, whose followers'
\* copies of its keys would no longer be right (local-actor.js:33-45).
OneIdentity == Cardinality(returned) <= 1

-----------------------------------------------------------------------------
\* Why it holds when starts do not overlap: the one process that starts writes a
\* key only where there is none, and goes on only with what the file then holds.
OneStarts == \A p, q \in Processes : Starting(p) /\ Starting(q) => p = q

Known(p, k) == file[k] \in 1..made /\ held[p][k] = file[k]

WritesMissing ==
    \A p \in Processes, k \in Keys :
        /\ pc[p] = AtSet[k] => file[k] = Absent /\ held[p][k] \in 1..made
        /\ pc[p] = AtWrite[k] => file[k] = Torn /\ held[p][k] \in 1..made

RunsOnFiles ==
    \A p \in Processes :
        /\ pc[p] \in {"getTransport", "setTransport", "writeTransport", "build", "serving"}
             => Known(p, "seed")
        /\ pc[p] \in {"build", "serving"} => Known(p, "transport")

\* The inductive invariant behind OneIdentity.
IdentityInv ==
    /\ OneStarts /\ WritesMissing /\ RunsOnFiles
    /\ \A i \in returned : i = file /\ \A k \in Keys : file[k] \in 1..made
=============================================================================
