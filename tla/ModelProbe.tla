------------------------------ MODULE ModelProbe ------------------------------
(***************************************************************************)
(* The verification of pinned model files that precedes every capability   *)
(* report and every execution (_verified_model_digests of                  *)
(* executors/comfyui.py), while somebody else writes the files.  Hashing   *)
(* takes long; a digest is reused by a later pass as long as the stat      *)
(* identity of the file stays the same and has settled.                    *)
(*                                                                         *)
(* Time is counted in units of one second.  A file system stamps a write   *)
(* with the last tick of its clock.  A file has the pinned size whatever   *)
(* its content; hard links are paths of one inode.                         *)
(***************************************************************************)
EXTENDS Naturals, Sequences

CONSTANTS
    PinnedPaths,   \* the placements, in the order of the pins
    Inodes,
    Bytes,         \* contents of a model file
    NoInode,       \* a path without a file
    NoDigest,      \* no entry in a cache
    StampTick,     \* resolution of modification times
    SettleTime,    \* _MODEL_DIGEST_CACHE_SETTLE_NS
    LastSecond,    \* bound on time
    MaxWrites      \* bound on writes of others

VARIABLES
    clock,
    inode,      \* bytes and stamp of each file
    link,       \* the file at each placement
    digests,    \* _model_digest_cache
    observed,   \* _model_fingerprint_observations
    pass,       \* the running pass
    writes      \* writes left

probeVars == <<clock, inode, link, digests, observed, pass, writes>>

Placements == {PinnedPaths[i] : i \in DOMAIN PinnedPaths}

Stamp == clock - (clock % StampTick)

StatIdentity(p) == [ino |-> link[p], stamp |-> inode[link[p]].stamp]

NoPass == [pc |-> "idle", start |-> 0, at |-> 1, shared |-> {}, stable |-> FALSE,
           print |-> NoDigest, bytes |-> NoDigest, failures |-> 0]

ProbeInit ==
    /\ clock = 0
    /\ \E b \in Bytes : inode = [i \in Inodes |-> [bytes |-> b, stamp |-> 0]]
    /\ link \in [Placements -> Inodes]
    /\ digests = [p \in Placements |-> NoDigest]
    /\ observed = [p \in Placements |-> NoDigest]
    /\ pass = NoPass
    /\ writes = MaxWrites

-----------------------------------------------------------------------------
(* One pass over the pins *)

Current == PinnedPaths[pass.at]

\* Both clocks are read once, when the pass starts.
BeginPass ==
    /\ pass.pc = "idle"
    /\ pass' = [NoPass EXCEPT !.pc = "stat", !.start = clock]
    /\ UNCHANGED <<clock, inode, link, digests, observed, writes>>

AfterPin(q, failed) ==
    LET r == [q EXCEPT !.failures = @ + failed, !.print = NoDigest, !.bytes = NoDigest]
    IN  IF q.at = Len(PinnedPaths) THEN [NoPass EXCEPT !.failures = r.failures]
        ELSE [r EXCEPT !.pc = "stat", !.at = q.at + 1]

\* _forget_model_placement.
Forget(p) ==
    /\ digests' = [digests EXCEPT ![p] = NoDigest]
    /\ observed' = [observed EXCEPT ![p] = NoDigest]
    /\ pass' = AfterPin(pass, 1)

\* A new identity counts as observed since the start of the pass.
Observation(p) ==
    IF observed[p] # NoDigest /\ observed[p].print = StatIdentity(p) THEN observed[p]
    ELSE [print |-> StatIdentity(p), at |-> pass.start]

Settled(p) ==
    \/ pass.start >= StatIdentity(p).stamp + SettleTime
    \/ pass.start >= Observation(p).at + SettleTime

Reusable(p) ==
    /\ digests[p] # NoDigest /\ digests[p].print = StatIdentity(p)
    /\ observed[p] # NoDigest /\ observed[p].print = StatIdentity(p)
    /\ Settled(p)

\* A digest found for another placement of the same file in this pass.
Shared(p) == {e \in pass.shared : e.print = StatIdentity(p)}

\* Whether the digest is the pinned one only matters to the answer.
StatPin ==
    LET p == Current IN
    /\ pass.pc = "stat" /\ link[p] # NoInode
    /\ observed' = [observed EXCEPT ![p] = Observation(p)]
    /\ \/ /\ Reusable(p)
          /\ pass' = AfterPin([pass EXCEPT !.shared = @ \cup {digests[p]}], 0)
          /\ UNCHANGED digests
       \/ /\ ~Reusable(p)
          /\ \E e \in Shared(p) : digests' = [digests EXCEPT ![p] = e]
          /\ pass' = AfterPin(pass, 0)
       \/ /\ ~Reusable(p) /\ Shared(p) = {}
          /\ digests' = [digests EXCEPT ![p] = NoDigest]
          /\ pass' = [pass EXCEPT !.pc = "read", !.print = StatIdentity(p), !.stable = Settled(p)]
    /\ UNCHANGED <<clock, inode, link, writes>>

MissingPin ==
    /\ pass.pc = "stat" /\ link[Current] = NoInode
    /\ Forget(Current)
    /\ UNCHANGED <<clock, inode, link, writes>>

ReadPin ==
    /\ pass.pc = "read"
    /\ IF link[Current] = NoInode THEN Forget(Current)
       ELSE /\ pass' = [pass EXCEPT !.pc = "restat", !.bytes = inode[link[Current]].bytes]
            /\ UNCHANGED <<digests, observed>>
    /\ UNCHANGED <<clock, inode, link, writes>>

\* An identity that changed while the file was read is forgotten.
RestatPin ==
    LET p == Current
        e == [print |-> pass.print, bytes |-> pass.bytes]
    IN  /\ pass.pc = "restat"
        /\ IF link[p] = NoInode \/ StatIdentity(p) # pass.print THEN Forget(p)
           ELSE /\ digests' = IF pass.stable THEN [digests EXCEPT ![p] = e] ELSE digests
                /\ pass' = AfterPin([pass EXCEPT !.shared =
                               IF pass.stable THEN @ \cup {e} ELSE @], 0)
                /\ UNCHANGED observed
        /\ UNCHANGED <<clock, inode, link, writes>>

-----------------------------------------------------------------------------
(* Everybody else *)

\* invalidate_model_digest_cache, after a model was installed.
Invalidate ==
    /\ pass.pc = "idle"
    /\ digests' = [p \in Placements |-> NoDigest]
    /\ observed' = [p \in Placements |-> NoDigest]
    /\ UNCHANGED <<clock, inode, link, pass, writes>>

Rewrite(i, b) ==
    /\ writes > 0 /\ writes' = writes - 1
    /\ inode' = [inode EXCEPT ![i] = [bytes |-> b, stamp |-> Stamp]]
    /\ UNCHANGED <<clock, link, digests, observed, pass>>

\* A file is put in place or removed; linking changes its status time too.
Relink(p, i) ==
    /\ writes > 0 /\ writes' = writes - 1
    /\ link' = [link EXCEPT ![p] = i]
    /\ inode' = IF i = NoInode THEN inode ELSE [inode EXCEPT ![i].stamp = Stamp]
    /\ UNCHANGED <<clock, digests, observed, pass>>

SecondPasses ==
    /\ clock < LastSecond
    /\ clock' = clock + 1
    /\ UNCHANGED <<inode, link, digests, observed, pass, writes>>

ProbeNext ==
    \/ BeginPass \/ StatPin \/ MissingPin \/ ReadPin \/ RestatPin \/ Invalidate \/ SecondPasses
    \/ \E i \in Inodes, b \in Bytes : Rewrite(i, b)
    \/ \E p \in Placements, i \in Inodes \cup {NoInode} : Relink(p, i)

-----------------------------------------------------------------------------
\* A digest that a later pass would reuse is the digest of the bytes that are
\* there: "A fresh stat identity must settle for that full tick before
\* cross-probe reuse" (_MODEL_DIGEST_CACHE_SETTLE_NS, _verified_model_digests).
ReusedDigestIsCurrent ==
    \A p \in Placements :
        (link[p] # NoInode /\ digests[p] # NoDigest /\ digests[p].print = StatIdentity(p))
            => digests[p].bytes = inode[link[p]].bytes
=============================================================================
