---------------------------- MODULE CommandTree ----------------------------
(***************************************************************************)
(* The command tree of an App (nabat/app.go, command.go): New runs the     *)
(* init hooks of the root and the extensions, then registers the commands  *)
(* declared with WithCommand, and validates; user code registers more with *)
(* App.Command and Command.Command until the first Run.                    *)
(*                                                                         *)
(* newCommand runs the WithCommandInit hooks of a command after it joined  *)
(* the tree, and a hook is user code that may register commands itself, so *)
(* registrations nest: stack holds the ones in progress, innermost last.   *)
(* Commands are numbered in the order they join; 0 is the root.            *)
(***************************************************************************)
EXTENDS Integers, Sequences, FiniteSets, SequencesExt

CONSTANTS
  Names,    \* command names
  Groups,   \* help groups a command can ask for
  NoGroup,  \* no WithGroup option
  Decls,    \* the commands declared with WithCommand
  NoDecl,   \* of a command that user code registers
  Top,      \* those passed to New, in order
  Kids,     \* declaration -> those nested in it, in order
  MaxCmds   \* bound: commands that ever join the tree

ASSUME TreeAssumption ==
  /\ NoGroup \notin Groups
  /\ NoDecl \notin Decls
  /\ Top \in Seq(Decls)
  /\ Kids \in [Decls -> Seq(Decls)]
  /\ MaxCmds \in Nat

\* A declaration is one occurrence of a WithCommand option (command.go:138-157)
\* among those of New or of another WithCommand, so each has one place (an
\* option given twice is two declarations), and they are a forest.
Nested(d) == {e \in Decls : d \in Range(Kids[e])}

ASSUME ForestAssumption ==
  /\ IsFiniteSet(Decls)
  /\ IsInjective(Top) /\ \A e \in Decls : IsInjective(Kids[e])
  /\ \A d \in Decls : IF d \in Range(Top) THEN Nested(d) = {} ELSE \E e \in Decls : Nested(d) = {e}
  /\ \E depth \in [Decls -> 0..Cardinality(Decls)] :
       \A e \in Decls : \A d \in Range(Kids[e]) : depth[e] < depth[d]

VARIABLES
  phase,   \* "init" and "pending" inside New; "built", "failed", "run"
  cmds,    \* every command that has joined, with its parent and spec
  listed,  \* those in the command list of their parent
  meta,    \* App.meta: the commands with a spec
  groups,  \* the help groups of each parent
  stack,   \* registrations in progress
  errs,    \* the declarations whose errors New aggregates
  failed   \* history: commands whose registration returned an error

tree == <<cmds, listed, meta, groups>>
vars == <<phase, tree, stack, errs, failed>>

Root == 0
All == 0..Len(cmds)

\* One frame per registration in progress: the init hooks a command has
\* still to run, or the declarations still to register under it.
HooksFrame(c, n) == [kind |-> "hooks", cmd |-> c, hooks |-> n, regs |-> <<>>]
RegsFrame(c, ds) == [kind |-> "regs", cmd |-> c, hooks |-> 0, regs |-> ds]
Top1 == stack[Len(stack)]
Below == SubSeq(stack, 1, Len(stack) - 1)

Init ==
  /\ phase = "init"
  /\ cmds = <<>>
  /\ listed = {}
  /\ meta = {Root}
  /\ groups = {}
  /\ stack = <<>>
  /\ errs = {}
  /\ failed = {}

-----------------------------------------------------------------------------
(* newCommand.                                                             *)

\* The parent learns the group of the new command, if it does not have it.
AddGroup(p, g) ==
  groups' = IF g = NoGroup THEN groups ELSE groups \cup {<<p, g>>}

\* The command joins the list of its parent and App.meta, and its init
\* hooks are next; rest is the stack without the new command's frames.
Join(p, n, g, d, hooks, rest) ==
  LET c == Len(cmds) + 1
  IN  /\ Len(cmds) < MaxCmds
      /\ AddGroup(p, g)
      /\ cmds' = Append(cmds, [parent |-> p, name |-> n, group |-> g, decl |-> d,
                               known |-> d = NoDecl \/ hooks > 0])
      /\ listed' = listed \cup {c}
      /\ meta' = meta \cup {c}
      /\ stack' = Append(rest, HooksFrame(c, hooks))
      /\ UNCHANGED <<phase, errs, failed>>

\* An empty name and an option that fails end the registration before the
\* group is added; a collision of names, a flag that cannot be registered
\* and a failing finalizeCommand end it after.
RefuseEarly == UNCHANGED <<tree, failed>>
RefuseLate(p, g) == AddGroup(p, g) /\ UNCHANGED <<cmds, listed, meta, failed>>

-----------------------------------------------------------------------------
(* User code: extensions and init hooks while New runs, any code after it. *)

InHook == stack # <<>> /\ Top1.kind = "hooks" /\ Top1.hooks > 0

\* User code runs while nothing is registered, and inside an init hook.  It
\* can name the root and the commands it was ever given a *Command of, the
\* ones that were rolled back included.
UserCode(p) ==
  /\ IF stack = <<>> THEN phase \in {"init", "built"}
                     ELSE InHook
  /\ p \in {Root} \cup {c \in 1..Len(cmds) : cmds[c].known}

Command(p, n, g, hooks) ==
  UserCode(p) /\ Join(p, n, g, NoDecl, hooks, stack)

CommandRefused(p, g) ==
  /\ UserCode(p)
  /\ RefuseLate(p, g)
  /\ UNCHANGED <<phase, stack, errs>>

\* An init hook returns nil and the next one is called.
HookOk ==
  /\ InHook
  /\ stack' = Append(Below, HooksFrame(Top1.cmd, Top1.hooks - 1))
  /\ UNCHANGED <<phase, tree, errs, failed>>

\* (A mutant: the command stays in the list of its parent.)
rollbackCommandListed(c) == meta' = meta \ {c} /\ UNCHANGED listed

\* (A mutant: the command is looked for by its name.)
rollbackCommandByName(c) ==
  /\ meta' = meta \ {c}
  /\ listed' = {x \in listed : cmds[x].parent # cmds[c].parent
                               \/ cmds[x].name # cmds[c].name}

rollbackCommand(c) == meta' = meta \ {c} /\ listed' = listed \ {c}

\* An init hook fails: its command is rolled back and newCommand returns
\* the error, which New keeps if it was registering a declaration.
HookFails ==
  LET c == Top1.cmd
  IN  /\ InHook
      /\ rollbackCommand(c)
      /\ failed' = failed \cup {c}
      /\ errs' = IF cmds[c].decl = NoDecl THEN errs ELSE errs \cup {cmds[c].decl}
      /\ stack' = Below
      /\ UNCHANGED <<phase, cmds, groups>>

\* (A mutant: the nested declarations are forgotten.)
JoinedNoKids ==
  /\ stack # <<>> /\ Top1.kind = "hooks" /\ Top1.hooks = 0
  /\ stack' = Below
  /\ UNCHANGED <<phase, tree, errs, failed>>

\* newCommand returns the command; registerPendingUnder goes on with the
\* declarations nested in it.
Joined ==
  LET c == Top1.cmd
  IN  /\ stack # <<>> /\ Top1.kind = "hooks" /\ Top1.hooks = 0
      /\ stack' = IF cmds[c].decl = NoDecl THEN Below
                  ELSE Append(Below, RegsFrame(c, Kids[cmds[c].decl]))
      /\ UNCHANGED <<phase, tree, errs, failed>>

-----------------------------------------------------------------------------
(* New after the extensions: registerPending and validate.                 *)

\* An init hook of the root or an extension fails and New returns.
InitFails ==
  /\ phase = "init" /\ stack = <<>>
  /\ phase' = "failed"
  /\ UNCHANGED <<tree, stack, errs, failed>>

\* The declarations passed to New; rootSpec.children, registered before
\* them, is empty, since New applies a declaration to the configuration.
StartPending ==
  /\ phase = "init" /\ stack = <<>>
  /\ phase' = "pending"
  /\ stack' = <<RegsFrame(Root, Top)>>
  /\ UNCHANGED <<tree, errs, failed>>

Registering ==
  /\ phase = "pending" /\ stack # <<>>
  /\ Top1.kind = "regs" /\ Top1.regs # <<>>

RestOfRegs == Append(Below, RegsFrame(Top1.cmd, Tail(Top1.regs)))

Pending(n, g, hooks) ==
  LET d == Head(Top1.regs)
  IN  Registering /\ Join(Top1.cmd, n, g, d, hooks, RestOfRegs)

PendingRefused(g) ==
  /\ Registering
  /\ RefuseEarly \/ RefuseLate(Top1.cmd, g)
  /\ errs' = errs \cup {Head(Top1.regs)}
  /\ stack' = RestOfRegs
  /\ UNCHANGED phase

PendingDone ==
  /\ phase = "pending" /\ stack # <<>>
  /\ Top1.kind = "regs" /\ Top1.regs = <<>>
  /\ stack' = Below
  /\ UNCHANGED <<phase, tree, errs, failed>>

\* The commands the root leads to: the largest set that holds, with a
\* command, its parent, and only commands their parents list.
InTree ==
  UNION {S \in SUBSET All : \A c \in S \ {Root} : c \in listed /\ cmds[c].parent \in S}

UniqueNames ==
  \A c, d \in InTree \ {Root} :
    cmds[c].parent = cmds[d].parent /\ cmds[c].name = cmds[d].name => c = d

FinishNew ==
  /\ phase = "pending" /\ stack = <<>>
  /\ phase' = IF errs = {} /\ UniqueNames THEN "built" ELSE "failed"
  /\ UNCHANGED <<tree, stack, errs, failed>>

\* The first Run freezes the registration for good.
Run ==
  /\ phase = "built" /\ stack = <<>>
  /\ phase' = "run"
  /\ UNCHANGED <<tree, stack, errs, failed>>

Next ==
  \/ \E p \in All, n \in Names, g \in Groups \cup {NoGroup}, h \in 0..1 :
       Command(p, n, g, h)
  \/ \E p \in All, g \in Groups : CommandRefused(p, g)
  \/ HookOk
  \/ HookFails
  \/ Joined
  \/ InitFails
  \/ StartPending
  \/ \E n \in Names, g \in Groups \cup {NoGroup}, h \in 0..1 : Pending(n, g, h)
  \/ \E g \in Groups \cup {NoGroup} : PendingRefused(g)
  \/ PendingDone
  \/ FinishNew
  \/ Run

Spec == Init /\ [][Next]_vars

-----------------------------------------------------------------------------
(* Properties.                                                             *)

\* The values of the variables; a parent joins before its children, and a
\* command that was rolled back is neither listed nor has a spec.
TypeOK ==
  /\ phase \in {"init", "pending", "built", "failed", "run"}
  /\ cmds \in Seq([parent : 0..MaxCmds, name : Names, group : Groups \cup {NoGroup},
                   decl : Decls \cup {NoDecl}, known : BOOLEAN])
  /\ Len(cmds) <= MaxCmds
  /\ \A c \in 1..Len(cmds) : cmds[c].parent < c
  /\ listed \subseteq 1..Len(cmds)
  /\ meta \subseteq All
  /\ groups \subseteq All \X Groups
  /\ stack \in Seq([kind : {"hooks", "regs"}, cmd : All, hooks : 0..1, regs : Seq(Decls)])
  /\ errs \subseteq Decls
  /\ failed \subseteq 1..Len(cmds)
  /\ failed \cap (listed \cup meta) = {}

\* Every command the tree leads to has a spec in App.meta, and none of them
\* is one whose registration failed, although the command was in the tree
\* while its init hooks ran (rollbackCommand, app.go:446-453).
NothingHalfRegistered == InTree \subseteq meta \ failed

\* A registration that fails takes nothing out of the tree but what was
\* registered under it, whatever other commands its hooks registered.
Ancestry(c) ==  \* c, its parent and so on
  LET up[x \in All] == IF x = Root THEN {Root} ELSE {x} \cup up[cmds[x].parent]
  IN  up[c]
RollbackIsLocal ==
  [][\A c \in InTree : c \in InTree' \/ Ancestry(c) \cap (failed' \ failed) # {}]_vars

\* The parent of a command in the tree has the group the command names;
\* Cobra panics on a command whose group is missing.
GroupsDefined ==
  \A c \in InTree \ {Root} :
    cmds[c].group # NoGroup => <<cmds[c].parent, cmds[c].group>> \in groups

\* When New has registered what was declared, each declaration has one
\* command, under the command it is nested in, or New reports an error for
\* it or for one it is nested in; an App it returns has them all.
Declared(d) == {c \in InTree \ {Root} : cmds[c].decl = d}
Registered(d) ==
  /\ Cardinality(Declared(d)) = 1
  /\ \A c \in Declared(d) :
       IF Nested(d) = {} THEN cmds[c].parent = Root
                         ELSE cmds[cmds[c].parent].decl \in Nested(d)
Reported(d) ==
  LET rep[n \in 0..Cardinality(Decls)] ==
        errs \cup {e \in Decls : n > 0 /\ Nested(e) \cap rep[n - 1] # {}}
  IN  d \in rep[Cardinality(Decls)]
DeclarationsAccounted ==
  /\ phase = "pending" /\ stack = <<>> => \A d \in Decls : Registered(d) \/ Reported(d)
  /\ phase = "built" => \A d \in Decls : Registered(d)
=============================================================================
