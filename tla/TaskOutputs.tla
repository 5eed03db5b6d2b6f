----------------------------- MODULE TaskOutputs -----------------------------
(***************************************************************************)
(* `vgen task get` and `task submit --wait`: every available output is     *)
(* downloaded, checked, decrypted to a staged file and published under the *)
(* name its metadata asks for.  Several commands publish into one          *)
(* directory at once, and here all of them ask for the same name; the      *)
(* names tried in turn are 0 (the name asked for), 1 (name-01), and so on. *)
(***************************************************************************)
EXTENDS Naturals

CONSTANTS Gets,             \* commands, each publishing one output
          Outputs,          \* contents of outputs
          Absent,           \* no file under the name
          MaxNames          \* names tried (10000 in the code)

VARIABLES folder,           \* name -> content
          gets              \* the commands
outputVars == <<folder, gets>>

ASSUME OutputsAssumption == Absent \notin Outputs /\ MaxNames \in Nat \ {0}

Names == 0..(MaxNames - 1)

\* The directory may hold a file of that name from an earlier download.
OutputInit ==
    /\ \E f \in Outputs \cup {Absent} :
           folder = [n \in Names |-> IF n = 0 THEN f ELSE Absent]
    /\ \E c \in [Gets -> Outputs], o \in [Gets -> BOOLEAN] :
           gets = [g \in Gets |-> [pc |-> "start", content |-> c[g], overwrite |-> o[g], name |-> 0]]

Set(g, r) == gets' = [gets EXCEPT ![g] = r]

\* download_and_decrypt_output: what does not match the recorded digest, or
\* does not decrypt, is not staged, and the command ends.
Stage(g) ==
    /\ gets[g].pc = "start"
    /\ \E pc \in {"staged", "failed"} : Set(g, [gets[g] EXCEPT !.pc = pc])
    /\ UNCHANGED folder

Replace(g) ==
    /\ gets[g].pc = "staged" /\ gets[g].overwrite
    /\ folder' = [folder EXCEPT ![0] = gets[g].content]
    /\ Set(g, [gets[g] EXCEPT !.pc = "done"])

\* The name tested for existence first, and the staged file moved to it after.
TestThenMove(g) ==
    /\ gets[g].pc \in {"staged", "compare", "free"} /\ ~gets[g].overwrite
    /\ gets[g].name < MaxNames
    /\ IF gets[g].pc = "free"
       THEN /\ folder' = [folder EXCEPT ![gets[g].name] = gets[g].content]
            /\ Set(g, [gets[g] EXCEPT !.pc = "done"])
       ELSE /\ Set(g, [gets[g] EXCEPT !.pc = IF folder[gets[g].name] = Absent THEN "free"
                                             ELSE "compare"])
            /\ UNCHANGED folder

\* os.link fails when the name is taken.
Link(g) ==
    LET n == gets[g].name IN
    /\ gets[g].pc = "staged" /\ ~gets[g].overwrite /\ n < MaxNames
    /\ IF folder[n] = Absent
       THEN /\ folder' = [folder EXCEPT ![n] = gets[g].content]
            /\ Set(g, [gets[g] EXCEPT !.pc = "done"])
       ELSE /\ Set(g, [gets[g] EXCEPT !.pc = "compare"])
            /\ UNCHANGED folder

\* The same content under the name already is the answer; else the next name.
Compare(g) ==
    LET n == gets[g].name IN
    /\ gets[g].pc = "compare"
    /\ Set(g, IF folder[n] = gets[g].content THEN [gets[g] EXCEPT !.pc = "done"]
              ELSE [gets[g] EXCEPT !.pc = "staged", !.name = n + 1])
    /\ UNCHANGED folder

NamesExhausted(g) ==
    /\ gets[g].pc = "staged" /\ gets[g].name = MaxNames
    /\ Set(g, [gets[g] EXCEPT !.pc = "failed"])
    /\ UNCHANGED folder

OutputNext ==
    \E g \in Gets : Stage(g) \/ Replace(g) \/ Link(g) \/ Compare(g) \/ NamesExhausted(g)

----------------------------------------------------------------------------
\* When commands without --overwrite publish at once under one name, each
\* returns a path that holds its own output and keeps holding it, also when
\* the name was taken between two of its steps (_publish_task_output).
PublishedKept ==
    (\A g \in Gets : ~gets[g].overwrite) =>
        \A g \in Gets : gets[g].pc = "done" => folder[gets[g].name] = gets[g].content
=============================================================================
