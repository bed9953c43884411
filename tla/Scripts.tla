------------------------------ MODULE Scripts ------------------------------
(***************************************************************************)
(* node_script.cc: code run in a context of its own.  The sandbox is not   *)
(* the global object of the code: its properties are copied into that      *)
(* before the code runs, and back when it has returned.  A script may run  *)
(* others before it returns, in new contexts (runInNewContext) or in one   *)
(* that createContext has made (runInContext), also on a sandbox that one  *)
(* further out runs on; and it may call functions of the program.          *)
(***************************************************************************)
EXTENDS Naturals, FiniteSets, Sequences

CONSTANTS Sandboxes, \* plain objects, given to runInNewContext
          Contexts,  \* objects made by createContext
          Props, Values,
          MaxDepth,  \* bound on the scripts inside each other
          MaxWrites, \* bound on the writes to properties
          Absent

VARIABLES sandbox,   \* the properties of each sandbox and each context object
          global,    \* the properties of the global object of each context
          stack,     \* the scripts that run, the innermost last
          last,      \* what was last written to each property, by anyone (history)
          spoilt,    \* spoilt[b]: properties that may come to be another's (history)
          nwrites

scriptVars == <<sandbox, global, stack, last, spoilt, nwrites>>

Boxes == Sandboxes \cup Contexts

Bare == [p \in Props |-> Absent]

ScriptInit == /\ sandbox = [b \in Boxes |-> Bare]
              /\ global = [c \in Contexts |-> Bare]
              /\ stack = <<>>
              /\ last = [b \in Boxes |-> Bare]
              /\ spoilt = [b \in Boxes |-> {}]
              /\ nwrites = 0

\* Mutant: properties the target has are left as they are.
CloneObjectNew(source, target) == [p \in Props |-> IF target[p] = Absent THEN source[p] ELSE target[p]]

\* Every property of source goes to target (one that is source itself comes to
\* be target); what source lacks stays in target.
CloneObject(source, target) == [p \in Props |-> IF source[p] = Absent THEN target[p] ELSE source[p]]

Frames == 1 .. Len(stack)
Inner == stack[Len(stack)]

Running(b) == \E k \in Frames : stack[k].box = b

InnerGlobal(k) == IF stack[k].box \in Contexts THEN global[stack[k].box] ELSE stack[k].global

\* The global object of the innermost script becomes g.
GlobalBecomes(g) ==
    LET b == Inner.box
    IN IF b \in Contexts
       THEN global' = [global EXCEPT ![b] = g] /\ UNCHANGED stack
       ELSE stack' = [stack EXCEPT ![Len(stack)].global = g] /\ UNCHANGED global

Spoils(b, props) == spoilt' = [spoilt EXCEPT ![b] = @ \cup props]

(***************************************************************************)
(* EvalMachine: up to the run of the script.  What a script that runs on   *)
(* the sandbox has written to its global object is not in the sandbox yet. *)
(***************************************************************************)
Enters(b) ==
    /\ Len(stack) < MaxDepth
    /\ Spoils(b, {p \in Props : last[b][p] # sandbox[b][p]})
    /\ UNCHANGED <<sandbox, last, nwrites>>

RunInNewContext(b) ==
    /\ b \in Sandboxes /\ Enters(b)
    /\ stack' = Append(stack, [box |-> b, global |-> CloneObject(sandbox[b], Bare)])
    /\ UNCHANGED global

RunInContext(b) ==
    /\ b \in Contexts /\ Enters(b)
    /\ global' = [global EXCEPT ![b] = CloneObject(sandbox[b], @)]
    /\ stack' = Append(stack, [box |-> b, global |-> Bare])

\* The script has run: the properties of its global object go to the sandbox.
Returns ==
    /\ stack # <<>>
    /\ sandbox' = [sandbox EXCEPT ![Inner.box] = CloneObject(InnerGlobal(Len(stack)), @)]
    /\ stack' = SubSeq(stack, 1, Len(stack) - 1)
    /\ UNCHANGED <<global, last, spoilt, nwrites>>

\* It has thrown: nothing is copied, and what it wrote is to be forgotten; but
\* what it has made stays in a context that stays.
Throws ==
    /\ stack # <<>>
    /\ stack' = SubSeq(stack, 1, Len(stack) - 1)
    /\ LET b == Inner.box
       IN /\ last' = [last EXCEPT ![b] = sandbox[b]]
          /\ Spoils(b, {p \in Props : /\ b \in Contexts
                                     /\ sandbox[b][p] = Absent /\ last[b][p] # Absent})
    /\ UNCHANGED <<sandbox, global, nwrites>>

(***************************************************************************)
(* What the code that runs does: a script to its global object, the        *)
(* program, also in functions that scripts call, to the objects it gave or *)
(* will give.  Absent for a value deletes the property: no copy takes that *)
(* over.  safe: no copy made before the write is still to be copied.       *)
(***************************************************************************)
Noted(b, p, v, safe) ==
    /\ nwrites < MaxWrites
    /\ nwrites' = nwrites + 1
    /\ last' = [last EXCEPT ![b][p] = v]
    /\ spoilt' = [spoilt EXCEPT ![b] = IF safe THEN @ \ {p} ELSE @ \cup {p}]

ScriptWrites(p, v) ==
    /\ stack # <<>>
    /\ Noted(Inner.box, p, v,
             v # Absent /\ \A k \in Frames : stack[k].box = Inner.box => k = Len(stack))
    /\ GlobalBecomes([InnerGlobal(Len(stack)) EXCEPT ![p] = v])
    /\ UNCHANGED sandbox

ProgramWrites(b, p, v) ==
    /\ Noted(b, p, v, ~Running(b) /\ (b \in Contexts => v # Absent))
    /\ sandbox' = [sandbox EXCEPT ![b][p] = v]
    /\ UNCHANGED <<global, stack>>

ScriptNext ==
    \/ \E b \in Boxes : RunInNewContext(b) \/ RunInContext(b)
    \/ Returns \/ Throws
    \/ \E p \in Props, v \in Values \cup {Absent} :
         ScriptWrites(p, v) \/ \E b \in Boxes : ProgramWrites(b, p, v)

ScriptSpec == ScriptInit /\ [][ScriptNext]_scriptVars

-----------------------------------------------------------------------------
PropsOf == [Props -> Values \cup {Absent}]

ScriptTypeOK == /\ sandbox \in [Boxes -> PropsOf] /\ global \in [Contexts -> PropsOf]
                /\ \A k \in Frames : stack[k].box \in Boxes /\ stack[k].global \in PropsOf
                /\ last \in [Boxes -> PropsOf]
                /\ spoilt \in [Boxes -> SUBSET Props] /\ nwrites \in 0 .. MaxWrites

\* The copies make up for an object shared: the innermost script reads from its
\* global object what was last written to a property, whether it, a script
\* before it or the program wrote that; so does the program from a sandbox that
\* no script runs on; and a script that throws has written nothing.  Excepted
\* are, until they are written again: a property that was deleted, or written
\* while a script further out, or the one that wrote it, had an older copy; and
\* one made in a lasting context by a script that threw.
ReadsLastWritten ==
    /\ stack # <<>> =>
         \A p \in Props \ spoilt[Inner.box] : InnerGlobal(Len(stack))[p] = last[Inner.box][p]
    /\ \A b \in Boxes : ~Running(b) =>
         \A p \in Props \ spoilt[b] : sandbox[b][p] = last[b][p]
=============================================================================
