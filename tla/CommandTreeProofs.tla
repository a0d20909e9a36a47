------------------------- MODULE CommandTreeProofs -------------------------
(***************************************************************************)
(* Proofs about the command tree, for any declarations, names, groups and  *)
(* numbers of commands, and init hooks that register whatever they like.   *)
(* The properties speak of the commands the tree leads to (InTree).  The   *)
(* invariant that implies them speaks of the commands that some parent     *)
(* lists, whether the tree leads to that parent or not: of these it can be *)
(* seen step by step that they have a spec and their group.                *)
(* Of a declaration the second invariant says at every moment where its    *)
(* command is or will come from: a frame of the stack has still to         *)
(* register it, or it waits for the one it is nested in, or it has its one *)
(* command in its place, or New will report it.                            *)
(***************************************************************************)
EXTENDS CommandTree, SequenceTheorems, FiniteSetTheorems, WellFoundedInduction, TLAPS

Cmd == [parent : 0..MaxCmds, name : Names, group : Groups \cup {NoGroup},
        decl : Decls \cup {NoDecl}, known : BOOLEAN]
Frame == [kind : {"hooks", "regs"}, cmd : All, hooks : 0..1, regs : Seq(Decls)]

\* The frames of init hooks belong to commands, never to the root.
HooksOfCommands ==
  \A i \in 1..Len(stack) : stack[i].kind = "hooks" => stack[i].cmd # Root

\* A listed command has a spec, and its parent has its group.
ListedComplete ==
  /\ Root \in meta
  /\ listed \subseteq meta
  /\ \A c \in listed :
       cmds[c].group # NoGroup => <<cmds[c].parent, cmds[c].group>> \in groups

TreeInv == TypeOK /\ HooksOfCommands /\ ListedComplete

-----------------------------------------------------------------------------
(* What the pieces of the actions keep.                                    *)

\* The stack as a sequence of frames, whatever frames are.
LEMMA StackParts ==
  ASSUME NEW F, NEW s \in Seq(F), s # <<>>
  PROVE  /\ Len(s) \in Nat /\ Len(s) > 0
         /\ s[Len(s)] \in F
         /\ SubSeq(s, 1, Len(s) - 1) \in Seq(F)
         /\ Len(SubSeq(s, 1, Len(s) - 1)) = Len(s) - 1
         /\ \A i \in 1..(Len(s) - 1) : SubSeq(s, 1, Len(s) - 1)[i] = s[i]
<1>1. Len(s) \in Nat /\ Len(s) > 0
  OBVIOUS
<1>2. s[Len(s)] \in F /\ \A i \in 1..(Len(s) - 1) : s[i] \in F
  BY <1>1
<1> DEFINE n == Len(s) - 1
<1>3. n \in Int /\ n \in Nat
  BY <1>1
<1>4. /\ SubSeq(s, 1, n) \in Seq(F)
      /\ Len(SubSeq(s, 1, n)) = IF 1 <= n THEN n - 1 + 1 ELSE 0
      /\ \A i \in 1..(n - 1 + 1) : SubSeq(s, 1, n)[i] = s[1 + i - 1]
  <2>1. \A i \in 1..n : s[i] \in F
    BY <1>2
  <2> HIDE DEF n
  <2> QED
    BY <1>3, <2>1, SubSeqProperties
<1>5. Len(SubSeq(s, 1, n)) = n /\ \A i \in 1..n : SubSeq(s, 1, n)[i] = s[i]
  <2> HIDE DEF n
  <2> QED
    BY <1>3, <1>4
<1> QED
  BY <1>1, <1>2, <1>4, <1>5

LEMMA AppendParts ==
  ASSUME NEW F, NEW s \in Seq(F), NEW f \in F
  PROVE  /\ Append(s, f) \in Seq(F)
         /\ Len(Append(s, f)) = Len(s) + 1
         /\ \A i \in 1..Len(s) : Append(s, f)[i] = s[i]
         /\ Append(s, f)[Len(s) + 1] = f
  OBVIOUS

\* The innermost registration and those around it.
LEMMA TopType ==
  ASSUME TreeInv, stack # <<>>
  PROVE  /\ Top1 \in Frame
         /\ Top1.kind = "hooks" => Top1.cmd \in 1..Len(cmds)
         /\ Below \in Seq(Frame)
         /\ \A i \in 1..Len(Below) : Below[i].kind = "hooks" => Below[i].cmd # Root
<1>1. stack \in Seq(Frame)
  BY DEF TreeInv, TypeOK, Frame
<1>2. Top1 \in Frame /\ Below \in Seq(Frame)
  BY <1>1, StackParts DEF Top1, Below
<1>3. Top1.kind = "hooks" => Top1.cmd # Root
  BY <1>1, StackParts DEF TreeInv, HooksOfCommands, Top1
<1>4. Top1.cmd \in All /\ Len(cmds) \in Nat
  BY <1>2 DEF Frame, TreeInv, TypeOK
<1>5. \A i \in 1..Len(Below) : Below[i].kind = "hooks" => Below[i].cmd # Root
  BY <1>1, StackParts DEF TreeInv, HooksOfCommands, Below
<1> QED
  BY <1>2, <1>3, <1>4, <1>5 DEF All, Root

\* A stack r in place of the whole, and what is on top of it a frame f.
LEMMA PushType ==
  ASSUME NEW r \in Seq(Frame), NEW f \in Frame,
         \A i \in 1..Len(r) : r[i].kind = "hooks" => r[i].cmd # Root,
         f.kind = "hooks" => f.cmd # Root
  PROVE  /\ Append(r, f) \in Seq(Frame)
         /\ \A i \in 1..Len(Append(r, f)) :
              Append(r, f)[i].kind = "hooks" => Append(r, f)[i].cmd # Root
<1>1. /\ Append(r, f) \in Seq(Frame)
      /\ Len(Append(r, f)) = Len(r) + 1
      /\ \A i \in 1..Len(r) : Append(r, f)[i] = r[i]
      /\ Append(r, f)[Len(r) + 1] = f
  BY AppendParts
<1>2. Len(r) \in Nat
  OBVIOUS
<1> QED
  BY <1>1, <1>2

\* Nothing but the groups of a parent grows when a registration is refused.
LEMMA AddGroupType ==
  ASSUME TreeInv, NEW p \in All, NEW g \in Groups \cup {NoGroup}, AddGroup(p, g)
  PROVE  /\ groups' \subseteq All \X Groups
         /\ groups \subseteq groups'
         /\ g # NoGroup => <<p, g>> \in groups'
  BY DEF AddGroup, TreeInv, TypeOK

\* A step that changes the stack, the phase, the errors and the groups of
\* the parents only.
LEMMA StackStep ==
  ASSUME TreeInv, UNCHANGED <<cmds, listed, meta, failed>>,
         phase' \in {"init", "pending", "built", "failed", "run"},
         groups' \subseteq All \X Groups, groups \subseteq groups',
         errs' \subseteq Decls,
         stack' \in Seq(Frame),
         \A i \in 1..Len(stack') : stack'[i].kind = "hooks" => stack'[i].cmd # Root
  PROVE  TreeInv'
<1>1. TypeOK'
  BY DEF TreeInv, TypeOK, All, Frame
<1>2. HooksOfCommands'
  BY DEF HooksOfCommands, Root
<1>3. ListedComplete'
  BY DEF TreeInv, ListedComplete, Root
<1> QED
  BY <1>1, <1>2, <1>3 DEF TreeInv

\* A command joins under p: it gets the next number, and was never listed.
LEMMA JoinStep ==
  ASSUME TreeInv, NEW p \in All, NEW n \in Names, NEW g \in Groups \cup {NoGroup},
         NEW d \in Decls \cup {NoDecl}, NEW h \in 0..1,
         NEW rest \in Seq(Frame),
         \A i \in 1..Len(rest) : rest[i].kind = "hooks" => rest[i].cmd # Root,
         Join(p, n, g, d, h, rest)
  PROVE  TreeInv'
<1> DEFINE c == Len(cmds) + 1
           new == [parent |-> p, name |-> n, group |-> g, decl |-> d,
                   known |-> d = NoDecl \/ h > 0]
<1>1. /\ Len(cmds) < MaxCmds /\ MaxCmds \in Nat /\ Len(cmds) \in Nat
      /\ cmds' = Append(cmds, new)
      /\ listed' = listed \cup {c} /\ meta' = meta \cup {c}
      /\ stack' = Append(rest, HooksFrame(c, h))
      /\ UNCHANGED <<phase, errs, failed>>
  BY TreeAssumption DEF Join, TreeInv, TypeOK
<1>2. new \in Cmd
  <2>1. (d = NoDecl \/ h > 0) \in BOOLEAN
    OBVIOUS
  <2>2. p \in 0..MaxCmds
    BY <1>1 DEF All
  <2> QED
    BY <2>1, <2>2 DEF Cmd
<1>3. new.parent = p /\ new.group = g
  OBVIOUS
<1> HIDE DEF new
<1>4. /\ cmds' \in Seq(Cmd)
      /\ Len(cmds') = Len(cmds) + 1
      /\ \A i \in 1..Len(cmds) : cmds'[i] = cmds[i]
      /\ cmds'[c] = new
  <2>1. cmds \in Seq(Cmd)
    BY DEF TreeInv, TypeOK, Cmd
  <2> QED
    BY <1>1, <1>2, <2>1, AppendParts
<1>5. All' = All \cup {c} /\ c \notin All
  BY <1>1, <1>4 DEF All
<1>6. /\ groups' \subseteq All \X Groups
      /\ groups \subseteq groups'
      /\ g # NoGroup => <<p, g>> \in groups'
  BY AddGroupType DEF Join
<1>7. /\ stack' \in Seq([kind : {"hooks", "regs"}, cmd : All', hooks : 0..1,
                         regs : Seq(Decls)])
      /\ HooksOfCommands'
  <2> DEFINE F == [kind : {"hooks", "regs"}, cmd : All', hooks : 0..1, regs : Seq(Decls)]
  <2>1. Frame \subseteq F
    BY <1>5 DEF Frame
  <2>2. rest \in Seq(F)
    <3> HIDE DEF F
    <3> QED
      BY <2>1
  <2>3. HooksFrame(c, h) \in F
    BY <1>5 DEF HooksFrame
  <2>4. HooksFrame(c, h).cmd # Root
    BY <1>1 DEF HooksFrame, Root
  <2> HIDE DEF F
  <2>5. /\ stack' \in Seq(F)
        /\ Len(stack') = Len(rest) + 1
        /\ \A i \in 1..Len(rest) : stack'[i] = rest[i]
        /\ stack'[Len(rest) + 1] = HooksFrame(c, h)
    BY <1>1, <2>2, <2>3, AppendParts
  <2>6. Len(rest) \in Nat
    OBVIOUS
  <2>7. HooksOfCommands'
    BY <2>4, <2>5, <2>6 DEF HooksOfCommands, Root
  <2> QED
    BY <2>5, <2>7 DEF F
<1>8. \A x \in 1..Len(cmds') : cmds'[x].parent < x
  <2>1. c \in Nat /\ p < c
    BY <1>1 DEF All
  <2> QED
    BY <1>1, <1>3, <1>4, <2>1 DEF TreeInv, TypeOK
<1>9. /\ listed' \subseteq 1..Len(cmds')
      /\ meta' \subseteq All'
      /\ failed' \subseteq 1..Len(cmds')
      /\ failed' \cap (listed' \cup meta') = {}
  <2>1. 1..Len(cmds') = 1..Len(cmds) \cup {c} /\ c \notin 1..Len(cmds)
    BY <1>1, <1>4
  <2>2. /\ listed \subseteq 1..Len(cmds) /\ meta \subseteq All
        /\ failed \subseteq 1..Len(cmds) /\ failed \cap (listed \cup meta) = {}
    BY DEF TreeInv, TypeOK
  <2> QED
    BY <1>1, <1>5, <2>1, <2>2
<1>10. TypeOK'
  <2>1. groups' \subseteq All' \X Groups
    BY <1>5, <1>6
  <2>2. Len(cmds') <= MaxCmds
    BY <1>1, <1>4
  <2> QED
    BY <1>1, <1>4, <1>7, <1>8, <1>9, <2>1, <2>2 DEF TreeInv, TypeOK, Cmd
<1>11. ListedComplete'
  <2>1. Root \in meta' /\ listed' \subseteq meta'
    BY <1>1 DEF TreeInv, ListedComplete, Root
  <2>2. ASSUME NEW x \in listed', cmds'[x].group # NoGroup
        PROVE  <<cmds'[x].parent, cmds'[x].group>> \in groups'
    <3>1. CASE x = c
      BY <1>3, <1>4, <1>6, <2>2, <3>1
    <3>2. CASE x \in listed
      <4>1. x \in 1..Len(cmds)
        BY <3>2 DEF TreeInv, TypeOK
      <4> QED
        BY <1>4, <1>6, <2>2, <3>2, <4>1 DEF TreeInv, ListedComplete
    <3> QED
      BY <1>1, <2>2, <3>1, <3>2
  <2> QED
    BY <2>1, <2>2 DEF ListedComplete, Root
<1> QED
  BY <1>7, <1>10, <1>11 DEF TreeInv

\* A failing init hook takes its command, never the root, out of the lists.
LEMMA HookFailsStep ==
  ASSUME TreeInv, HookFails
  PROVE  TreeInv'
<1> DEFINE c == Top1.cmd
<1>1. /\ stack # <<>> /\ Top1.kind = "hooks"
      /\ meta' = meta \ {c} /\ listed' = listed \ {c}
      /\ failed' = failed \cup {c}
      /\ errs' = IF cmds[c].decl = NoDecl THEN errs ELSE errs \cup {cmds[c].decl}
      /\ stack' = Below
      /\ UNCHANGED <<phase, cmds, groups>>
  BY DEF HookFails, InHook, rollbackCommand
<1>2. /\ c \in 1..Len(cmds)
      /\ Below \in Seq(Frame)
      /\ \A i \in 1..Len(Below) : Below[i].kind = "hooks" => Below[i].cmd # Root
  BY <1>1, TopType
<1>3. cmds[c].decl \in Decls \cup {NoDecl}
  <2>1. cmds \in Seq(Cmd)
    BY DEF TreeInv, TypeOK, Cmd
  <2>2. cmds[c] \in Cmd
    BY <1>2, <2>1, ElementOfSeq
  <2> QED
    BY <2>2 DEF Cmd
<1>4. c # Root /\ c \in All
  BY <1>2 DEF Root, All, TreeInv, TypeOK
<1> HIDE DEF c
<1>5. /\ listed' \subseteq 1..Len(cmds)
      /\ meta' \subseteq All
      /\ failed' \subseteq 1..Len(cmds)
      /\ failed' \cap (listed' \cup meta') = {}
      /\ errs' \subseteq Decls
  BY <1>1, <1>2, <1>3, <1>4 DEF TreeInv, TypeOK
<1>6. TypeOK'
  BY <1>1, <1>2, <1>5 DEF TreeInv, TypeOK, All, Frame
<1>7. HooksOfCommands'
  BY <1>1, <1>2 DEF HooksOfCommands, Root
<1>8. ListedComplete'
  BY <1>1, <1>4 DEF TreeInv, ListedComplete, Root
<1> QED
  BY <1>6, <1>7, <1>8 DEF TreeInv

-----------------------------------------------------------------------------
(* The invariant, and what it implies of the tree.                         *)

LEMMA InitTree == Init => TreeInv
<1> SUFFICES ASSUME Init
             PROVE  TreeInv
  OBVIOUS
<1>1. Len(cmds) = 0 /\ Len(stack) = 0 /\ All = {0}
  BY DEF Init, All
<1>2. TypeOK
  BY <1>1, TreeAssumption DEF Init, TypeOK, Root
<1>3. HooksOfCommands /\ ListedComplete
  BY <1>1 DEF Init, HooksOfCommands, ListedComplete
<1> QED
  BY <1>2, <1>3 DEF TreeInv

LEMMA NextTree == TreeInv /\ [Next]_vars => TreeInv'
<1> SUFFICES ASSUME TreeInv, [Next]_vars
             PROVE  TreeInv'
  OBVIOUS
<1>1. ASSUME NEW p \in All, NEW n \in Names, NEW g \in Groups \cup {NoGroup},
             NEW h \in 0..1, Command(p, n, g, h)
      PROVE  TreeInv'
  <2>1. stack \in Seq(Frame)
    BY DEF TreeInv, TypeOK, Frame
  <2>2. \A i \in 1..Len(stack) : stack[i].kind = "hooks" => stack[i].cmd # Root
    BY DEF TreeInv, HooksOfCommands
  <2> QED
    BY <1>1, <2>1, <2>2, JoinStep DEF Command
<1>2. ASSUME NEW p \in All, NEW g \in Groups, CommandRefused(p, g)
      PROVE  TreeInv'
  <2>1. AddGroup(p, g) /\ UNCHANGED <<cmds, listed, meta, failed, phase, stack, errs>>
    BY <1>2 DEF CommandRefused, RefuseLate
  <2>2. groups' \subseteq All \X Groups /\ groups \subseteq groups'
    BY <2>1, AddGroupType
  <2> QED
    BY <2>1, <2>2, StackStep DEF TreeInv, TypeOK, HooksOfCommands, Frame
<1>3. ASSUME NEW f \in Frame, f.kind = "hooks" => f.cmd # Root,
             stack # <<>>, stack' \in {Below, Append(Below, f)},
             errs' \subseteq Decls, groups' \subseteq All \X Groups,
             groups \subseteq groups', UNCHANGED <<phase, cmds, listed, meta, failed>>
      PROVE  TreeInv'
  <2>1. /\ Below \in Seq(Frame)
        /\ \A i \in 1..Len(Below) : Below[i].kind = "hooks" => Below[i].cmd # Root
    BY <1>3, TopType
  <2>2. /\ Append(Below, f) \in Seq(Frame)
        /\ \A i \in 1..Len(Append(Below, f)) :
             Append(Below, f)[i].kind = "hooks" => Append(Below, f)[i].cmd # Root
    BY <1>3, <2>1, PushType
  <2>3. /\ stack' \in Seq(Frame)
        /\ \A i \in 1..Len(stack') : stack'[i].kind = "hooks" => stack'[i].cmd # Root
    BY <1>3, <2>1, <2>2
  <2>4. phase' \in {"init", "pending", "built", "failed", "run"}
    BY <1>3 DEF TreeInv, TypeOK
  <2> QED
    BY <1>3, <2>3, <2>4, StackStep
<1>4. errs \subseteq Decls /\ groups \subseteq All \X Groups
  BY DEF TreeInv, TypeOK
<1>5. CASE HookOk
  <2>1. stack # <<>> /\ Top1.kind = "hooks" /\ Top1.hooks > 0
    BY <1>5 DEF HookOk, InHook
  <2>2. Top1 \in Frame /\ Top1.cmd \in 1..Len(cmds)
    BY <2>1, TopType
  <2>3. HooksFrame(Top1.cmd, Top1.hooks - 1) \in Frame
    BY <2>1, <2>2 DEF HooksFrame, Frame
  <2>4. HooksFrame(Top1.cmd, Top1.hooks - 1).cmd # Root
    BY <2>2 DEF HooksFrame, Root, TreeInv, TypeOK
  <2> QED
    BY <1>3, <1>4, <1>5, <2>1, <2>3, <2>4 DEF HookOk, tree
<1>6. CASE HookFails
  BY <1>6, HookFailsStep
<1>7. CASE Joined
  <2>1. stack # <<>> /\ Top1.kind = "hooks"
    BY <1>7 DEF Joined
  <2>2. Top1 \in Frame /\ Top1.cmd \in 1..Len(cmds)
    BY <2>1, TopType
  <2>3. cmds[Top1.cmd].decl \in Decls \cup {NoDecl}
    <3>1. cmds \in Seq(Cmd)
      BY DEF TreeInv, TypeOK, Cmd
    <3>2. cmds[Top1.cmd] \in Cmd
      BY <2>2, <3>1, ElementOfSeq
    <3> QED
      BY <3>2 DEF Cmd
  <2>4. CASE cmds[Top1.cmd].decl = NoDecl
    <3>1. stack' = Below
      BY <1>7, <2>4 DEF Joined
    <3>2. HooksFrame(Top1.cmd, 0) \in Frame /\ HooksFrame(Top1.cmd, 0).cmd # Root
      BY <2>2 DEF HooksFrame, Frame, All, Root, TreeInv, TypeOK
    <3> QED
      BY <1>3, <1>4, <1>7, <2>1, <3>1, <3>2 DEF Joined, tree
  <2>5. CASE cmds[Top1.cmd].decl \in Decls
    <3> DEFINE f == RegsFrame(Top1.cmd, Kids[cmds[Top1.cmd].decl])
    <3>1. stack' = Append(Below, f)
      BY <1>7, <2>5, TreeAssumption DEF Joined
    <3>2. Kids[cmds[Top1.cmd].decl] \in Seq(Decls)
      BY <2>5, TreeAssumption
    <3>3. f \in Frame /\ f.kind # "hooks"
      BY <2>2, <3>2 DEF RegsFrame, Frame
    <3> HIDE DEF f
    <3> QED
      BY <1>3, <1>4, <1>7, <2>1, <3>1, <3>3 DEF Joined, tree
  <2> QED
    BY <2>3, <2>4, <2>5
<1>8. CASE InitFails \/ FinishNew \/ Run
  <2>1. /\ phase' \in {"init", "pending", "built", "failed", "run"}
        /\ UNCHANGED <<cmds, listed, meta, failed, groups, errs, stack>>
    BY <1>8 DEF InitFails, FinishNew, Run, tree
  <2> QED
    BY <2>1, <1>4, StackStep DEF TreeInv, TypeOK, HooksOfCommands, Frame
<1>9. CASE StartPending
  <2>1. RegsFrame(Root, Top) \in Frame /\ RegsFrame(Root, Top).kind # "hooks"
    BY TreeAssumption DEF RegsFrame, Frame, Root, All, TreeInv, TypeOK
  <2>2. /\ stack' \in Seq(Frame)
        /\ \A i \in 1..Len(stack') : stack'[i].kind = "hooks" => stack'[i].cmd # Root
    BY <1>9, <2>1 DEF StartPending
  <2>3. phase' \in {"init", "pending", "built", "failed", "run"}
    BY <1>9 DEF StartPending
  <2> QED
    BY <1>4, <1>9, <2>2, <2>3, StackStep DEF StartPending, tree
<1>10. ASSUME Registering
       PROVE  /\ stack # <<>>
              /\ Head(Top1.regs) \in Decls
              /\ Top1.cmd \in All
              /\ RegsFrame(Top1.cmd, Tail(Top1.regs)) \in Frame
              /\ RegsFrame(Top1.cmd, Tail(Top1.regs)).kind # "hooks"
  <2>1. Top1 \in Frame /\ stack # <<>> /\ Top1.regs # <<>>
    BY <1>10, TopType DEF Registering
  <2>2. Top1.regs \in Seq(Decls) /\ Top1.cmd \in All
    BY <2>1 DEF Frame
  <2>3. Head(Top1.regs) \in Decls /\ Tail(Top1.regs) \in Seq(Decls)
    BY <2>1, <2>2, HeadTailProperties
  <2> QED
    BY <2>1, <2>2, <2>3 DEF RegsFrame, Frame
<1>11. ASSUME NEW n \in Names, NEW g \in Groups \cup {NoGroup}, NEW h \in 0..1,
              Pending(n, g, h)
       PROVE  TreeInv'
  <2> DEFINE d == Head(Top1.regs)
  <2>1. Registering /\ Join(Top1.cmd, n, g, d, h, RestOfRegs)
    BY <1>11 DEF Pending
  <2>2. d \in Decls /\ Top1.cmd \in All
    BY <1>10, <2>1
  <2>3. /\ Below \in Seq(Frame)
        /\ \A i \in 1..Len(Below) : Below[i].kind = "hooks" => Below[i].cmd # Root
    BY <1>10, <2>1, TopType
  <2>4. /\ RestOfRegs \in Seq(Frame)
        /\ \A i \in 1..Len(RestOfRegs) :
             RestOfRegs[i].kind = "hooks" => RestOfRegs[i].cmd # Root
    BY <1>10, <2>1, <2>3, PushType DEF RestOfRegs
  <2> HIDE DEF d
  <2> QED
    BY <2>1, <2>2, <2>4, JoinStep
<1>12. ASSUME NEW g \in Groups \cup {NoGroup}, PendingRefused(g)
       PROVE  TreeInv'
  <2>1. Registering /\ errs' = errs \cup {Head(Top1.regs)}
        /\ stack' = Append(Below, RegsFrame(Top1.cmd, Tail(Top1.regs)))
        /\ UNCHANGED <<phase, cmds, listed, meta, failed>>
    BY <1>12 DEF PendingRefused, RestOfRegs, RefuseEarly, RefuseLate, tree
  <2>2. UNCHANGED groups \/ AddGroup(Top1.cmd, g)
    BY <1>12 DEF PendingRefused, RefuseEarly, RefuseLate, tree
  <2>3. groups' \subseteq All \X Groups /\ groups \subseteq groups'
    BY <1>4, <1>10, <2>1, <2>2, AddGroupType
  <2> QED
    BY <1>3, <1>4, <1>10, <2>1, <2>3
<1>13. CASE PendingDone
  <2>1. stack # <<>> /\ stack' = Below /\ UNCHANGED <<phase, tree, errs, failed>>
    BY <1>13 DEF PendingDone
  <2>2. Top1 \in Frame /\ Top1.kind = "regs"
    BY <1>13, <2>1, TopType DEF PendingDone
  <2> QED
    BY <1>3, <1>4, <2>1, <2>2 DEF tree
<1>14. CASE UNCHANGED vars
  BY <1>4, <1>14, StackStep DEF vars, tree, TreeInv, TypeOK, HooksOfCommands, Frame
<1> QED
  BY <1>1, <1>2, <1>5, <1>6, <1>7, <1>8, <1>9, <1>11, <1>12, <1>13, <1>14 DEF Next

LEMMA TreeInvariant == Spec => []TreeInv
  BY InitTree, NextTree, PTL DEF Spec

\* Whatever the tree leads to is the root or listed.
LEMMA InTreeListed == InTree \subseteq {Root} \cup listed
  BY DEF InTree

\* The variables keep their types: parents are older than their children,
\* and a command that was rolled back is neither listed nor has a spec.
THEOREM TreeTypeOK == Spec => []TypeOK
<1>1. TreeInv => TypeOK
  BY DEF TreeInv
<1> QED
  BY <1>1, TreeInvariant, PTL

\* Every command the tree leads to has a spec, and its registration did not
\* fail, whatever the init hooks did in between.
THEOREM TreeNothingHalfRegistered == Spec => []NothingHalfRegistered
<1>1. TreeInv => NothingHalfRegistered
  <2> SUFFICES ASSUME TreeInv
               PROVE  InTree \subseteq meta \ failed
    BY DEF NothingHalfRegistered
  <2>1. Root \notin failed
    BY DEF TreeInv, TypeOK, ListedComplete
  <2> QED
    BY <2>1, InTreeListed DEF TreeInv, TypeOK, ListedComplete
<1> QED
  BY <1>1, TreeInvariant, PTL

\* The parent of every command in the tree has the group the command names.
THEOREM TreeGroupsDefined == Spec => []GroupsDefined
<1>1. TreeInv => GroupsDefined
  BY InTreeListed DEF GroupsDefined, TreeInv, ListedComplete
<1> QED
  BY <1>1, TreeInvariant, PTL

-----------------------------------------------------------------------------
(* A registration that fails takes out of the tree only what is its own.    *)

\* Sets of commands closed under parents, and the least one with x.
UpClosed(T) == \A z \in T \ {Root} : cmds[z].parent \in T
Least(x) == {y \in All : \A T \in SUBSET All : x \in T /\ UpClosed(T) => y \in T}

\* A parent is a command that joined before.
LEMMA ParentsJoined ==
  ASSUME TreeInv, NEW x \in All \ {Root}
  PROVE  cmds[x].parent \in All
<1>1. x \in 1..Len(cmds) /\ Len(cmds) \in Nat /\ cmds \in Seq(Cmd)
  BY DEF All, Root, TreeInv, TypeOK, Cmd
<1>2. cmds[x].parent \in Nat /\ cmds[x].parent < x
  <2>1. cmds[x] \in Cmd
    BY <1>1, ElementOfSeq
  <2> QED
    BY <1>1, <2>1, TreeAssumption DEF Cmd, TreeInv, TypeOK
<1> QED
  BY <1>1, <1>2 DEF All

\* Ancestry is what its recursive definition says: that definition has a
\* solution, the least sets closed under parents.
LEMMA AncestryOf ==
  ASSUME TreeInv
  PROVE  \A x \in All :
           Ancestry(x) = IF x = Root THEN {Root} ELSE {x} \cup Ancestry(cmds[x].parent)
<1> DEFINE F(f) == [x \in All |-> IF x = Root THEN {Root} ELSE {x} \cup f[cmds[x].parent]]
           least == [x \in All |-> Least(x)]
           up == CHOOSE f : f = F(f)
<1>1. least = F(least)
  <2> SUFFICES ASSUME NEW x \in All
               PROVE  Least(x) = IF x = Root THEN {Root} ELSE {x} \cup least[cmds[x].parent]
    OBVIOUS
  <2>0. Root \in All
    BY DEF Root, All, TreeInv, TypeOK
  <2>1. CASE x = Root
    <3>1. UpClosed({Root}) /\ {Root} \in SUBSET All
      BY <2>0 DEF UpClosed
    <3>2. Root \in Least(Root)
      BY <2>0 DEF Least
    <3> QED
      BY <2>1, <3>1, <3>2 DEF Least
  <2>2. CASE x # Root
    <3> DEFINE p == cmds[x].parent
               T == {x} \cup Least(p)
    <3>1. p \in All
      BY <2>2, ParentsJoined
    <3>2. T \subseteq All /\ p \in Least(p) /\ x \in T
      BY <3>1 DEF Least
    <3>3. UpClosed(Least(p))
      BY ParentsJoined DEF UpClosed, Least
    <3>4. UpClosed(T)
      BY <3>2, <3>3 DEF UpClosed
    <3>5. Least(x) \subseteq T
      BY <3>2, <3>4 DEF Least
    <3>6. T \subseteq Least(x)
      BY <2>2 DEF Least, UpClosed
    <3> QED
      BY <2>2, <3>1, <3>5, <3>6
  <2> QED
    BY <2>1, <2>2
<1>2. up = F(up)
  <2> HIDE DEF F, least
  <2> QED
    BY <1>1
<1>3. \A x : Ancestry(x) = up[x]
  BY DEF Ancestry
<1>4. \A x \in All : up[x] = IF x = Root THEN {Root} ELSE {x} \cup up[cmds[x].parent]
  <2> HIDE DEF up
  <2> QED
    BY <1>2
<1> HIDE DEF up
<1> QED
  BY <1>3, <1>4, ParentsJoined

\* The tree is itself a set of the kind it is the union of.
LEMMA InTreeClosed ==
  /\ InTree \subseteq All
  /\ \A c \in InTree \ {Root} : c \in listed /\ cmds[c].parent \in InTree
  BY DEF InTree

LEMMA InTreeNow ==
  ASSUME NEW S \in SUBSET All',
         \A c \in S \ {Root} : c \in listed' /\ cmds'[c].parent \in S
  PROVE  S \subseteq InTree'
  BY DEF InTree

\* A step that takes no command off a list leaves in the tree what was there.
LEMMA TreeGrows ==
  ASSUME listed \subseteq listed', All \subseteq All',
         \A c \in All \ {Root} : cmds'[c] = cmds[c]
  PROVE  InTree \subseteq InTree'
<1>1. InTree \in SUBSET All'
  BY InTreeClosed
<1>2. \A c \in InTree \ {Root} : c \in listed' /\ cmds'[c].parent \in InTree
  BY InTreeClosed
<1> QED
  BY <1>1, <1>2, InTreeNow

\* A registration that fails takes nothing out of the tree but what was
\* registered under it, whatever its hooks have registered elsewhere
\* (rollbackCommand, app.go:446-453).
THEOREM TreeRollbackIsLocal == Spec => RollbackIsLocal
<1> DEFINE Local == \A c \in InTree : c \in InTree' \/ Ancestry(c) \cap (failed' \ failed) # {}
<1>1. TreeInv /\ Next => Local
  <2> SUFFICES ASSUME TreeInv, Next
               PROVE  Local
    OBVIOUS
  <2>1. CASE UNCHANGED <<cmds, listed>>
    BY <2>1, TreeGrows DEF All
  <2>2. ASSUME NEW p, NEW n, NEW g, NEW d, NEW h, NEW rest, Join(p, n, g, d, h, rest)
        PROVE  Local
    <3>1. PICK new : cmds' = Append(cmds, new)
      BY <2>2 DEF Join
    <3>2. cmds \in Seq(Cmd) /\ Len(cmds) \in Nat
      BY DEF TreeInv, TypeOK, Cmd
    <3>3. Len(cmds') = Len(cmds) + 1 /\ \A c \in 1..Len(cmds) : cmds'[c] = cmds[c]
      BY <3>1, <3>2
    <3>4. listed \subseteq listed'
      BY <2>2 DEF Join
    <3> QED
      BY <3>2, <3>3, <3>4, TreeGrows DEF All, Root
  <2>3. CASE HookFails
    <3>1. PICK r : /\ listed' = listed \ {r} /\ failed' = failed \cup {r}
                   /\ UNCHANGED cmds
      BY <2>3 DEF HookFails, rollbackCommand
    <3> DEFINE S == {x \in InTree : r \notin Ancestry(x)}
    <3>2. S \in SUBSET All'
      BY <3>1, InTreeClosed DEF All
    <3>3. ASSUME NEW c \in S \ {Root}
          PROVE  c \in listed' /\ cmds'[c].parent \in S
      <4>1. c \in All /\ c \in listed /\ cmds[c].parent \in InTree
        BY InTreeClosed
      <4>2. Ancestry(c) = {c} \cup Ancestry(cmds[c].parent)
        BY <4>1, AncestryOf
      <4> QED
        BY <3>1, <4>1, <4>2
    <3>4. S \subseteq InTree'
      BY <3>2, <3>3, InTreeNow
    <3>5. CASE r \in failed
      <4>1. listed' = listed
        BY <3>1, <3>5 DEF TreeInv, TypeOK
      <4> QED
        BY <2>1, <3>1, <4>1
    <3>6. CASE r \notin failed
      BY <3>1, <3>4, <3>6
    <3> QED
      BY <3>5, <3>6
  <2> QED
    BY <2>1, <2>2, <2>3
       DEF Next, Command, CommandRefused, RefuseLate, RefuseEarly, HookOk, Joined, InitFails,
           StartPending, Pending, PendingRefused, PendingDone, FinishNew, Run, tree
<1>2. TreeInv /\ [Next]_vars => [Local]_vars
  BY <1>1
<1> QED
  BY <1>2, TreeInvariant, PTL DEF Spec, RollbackIsLocal

-----------------------------------------------------------------------------
(* What becomes of the declarations.                                       *)

\* The frames of the stack, and that no two of them are of one command.
Frames == Range(stack)
Apart(s) == \A i, j \in 1..Len(s) : s[i].cmd = s[j].cmd => i = j

\* Nothing has come of the declaration yet.
Open(d) == d \notin errs /\ \A c \in 1..Len(cmds) : cmds[c].decl # d

\* The declarations to register under a command.
Nest(c) == IF c = Root THEN Top ELSE Kids[cmds[c].decl]

\* The init hooks of the declaration's command are running.
Starting(e) == \E f \in Frames : f.kind = "hooks" /\ cmds[f.cmd].decl = e

\* The commands of the frames are in the tree, and what a frame has still to
\* register is open.
FramesListed == \A f \in Frames : f.cmd = Root \/ f.cmd \in listed
RegsOpen ==
  \A f \in Frames : f.kind = "regs" =>
    /\ f.cmd # Root => cmds[f.cmd].decl \in Decls
    /\ IsInjective(f.regs) /\ Range(f.regs) \subseteq Range(Nest(f.cmd))
    /\ \A d \in Range(f.regs) : Open(d)
KidsOpen ==
  \A e \in Decls : Open(e) \/ Starting(e) => \A d \in Range(Kids[e]) : Open(d)

\* A declaration has one command, which stays where it belongs unless its
\* registration fails.
DeclOnce ==
  \A b, c \in 1..Len(cmds) : cmds[b].decl \in Decls /\ cmds[c].decl = cmds[b].decl => b = c
Placed(c) ==
  /\ c \in listed
  /\ LET p == cmds[c].parent IN
     IF Nested(cmds[c].decl) = {} THEN p = Root
     ELSE /\ p \in listed /\ cmds[p].decl \in Nested(cmds[c].decl)
          /\ \A f \in Frames : f.cmd = p => f.kind = "regs"
DeclPlaced ==
  /\ \A c \in 1..Len(cmds) : cmds[c].decl \in Decls => cmds[c].decl \in errs \/ Placed(c)
  /\ \A c \in listed : cmds[c].decl \notin errs

\* Where an open declaration is to come from.
Located(d) ==
  /\ d \in Range(Top) => \E f \in Frames : f.cmd = Root /\ d \in Range(f.regs)
  /\ \A e \in Nested(d) :
       \/ e \in errs \/ Open(e) \/ Starting(e)
       \/ \E f \in Frames : /\ f.kind = "regs" /\ f.cmd # Root
                            /\ cmds[f.cmd].decl = e /\ d \in Range(f.regs)

DeclInv ==
  /\ TreeInv
  /\ Apart(stack) /\ FramesListed /\ RegsOpen /\ KidsOpen
  /\ DeclOnce /\ DeclPlaced
  /\ phase = "init" => errs = {} /\ \A d \in Decls : Open(d)
  /\ phase = "pending" => \A d \in Decls : Open(d) => Located(d)
  /\ phase = "built" => errs = {} /\ \A d \in Decls : ~Open(d)
  /\ phase # "pending" => \A f \in Frames : f.kind = "hooks" /\ cmds[f.cmd].decl = NoDecl

-----------------------------------------------------------------------------
(* The stack as a set of frames.                                           *)

LEMMA PushSet ==
  ASSUME NEW F, NEW s \in Seq(F), NEW f \in F
  PROVE  /\ Range(Append(s, f)) = Range(s) \cup {f}
         /\ Apart(s) /\ (\A g \in Range(s) : g.cmd # f.cmd) => Apart(Append(s, f))
<1>1. /\ Append(s, f) \in Seq(F) /\ Len(Append(s, f)) = Len(s) + 1 /\ Len(s) \in Nat
      /\ \A i \in 1..Len(s) : Append(s, f)[i] = s[i]
      /\ Append(s, f)[Len(s) + 1] = f
  OBVIOUS
<1> DEFINE t == Append(s, f)
<1> HIDE DEF t
<1>2. DOMAIN s = 1..Len(s) /\ DOMAIN t = 1..Len(s) \cup {Len(s) + 1}
  BY <1>1 DEF t
<1>3. Range(t) = Range(s) \cup {f}
  BY <1>1, <1>2 DEF Range, t
<1>4. ASSUME Apart(s), \A g \in Range(s) : g.cmd # f.cmd
      PROVE  Apart(t)
  <2>1. \A i \in 1..Len(s) : t[i] = s[i] /\ s[i].cmd # f.cmd
    BY <1>1, <1>2, <1>4 DEF Range, t
  <2>2. 1..Len(t) = 1..Len(s) \cup {Len(s) + 1} /\ t[Len(s) + 1] = f
    BY <1>1 DEF t
  <2> QED
    BY <1>4, <2>1, <2>2 DEF Apart
<1> QED
  BY <1>3, <1>4 DEF t

LEMMA PopSet ==
  ASSUME NEW F, NEW s \in Seq(F), s # <<>>, Apart(s)
  PROVE  LET b == SubSeq(s, 1, Len(s) - 1)
             t == s[Len(s)]
         IN /\ Range(b) = Range(s) \ {t} /\ Apart(b) /\ t \in Range(s)
            /\ \A g \in Range(b) : g.cmd # t.cmd
<1> DEFINE b == SubSeq(s, 1, Len(s) - 1)
           t == s[Len(s)]
<1>1. /\ Len(s) \in Nat /\ Len(s) > 0 /\ Len(b) = Len(s) - 1 /\ b \in Seq(F)
      /\ \A i \in 1..(Len(s) - 1) : b[i] = s[i]
  BY StackParts
<1> HIDE DEF b
<1>2. DOMAIN s = 1..(Len(s) - 1) \cup {Len(s)} /\ DOMAIN b = 1..(Len(s) - 1)
  BY <1>1
<1>3. \A i \in 1..(Len(s) - 1) : s[i].cmd # t.cmd
  BY <1>1 DEF Apart
<1>4. \A g \in Range(b) : g \in Range(s) /\ g.cmd # t.cmd
  BY <1>1, <1>2, <1>3 DEF Range
<1>5. Range(s) \subseteq Range(b) \cup {t} /\ t \in Range(s)
  BY <1>1, <1>2 DEF Range
<1>6. Apart(b)
  BY <1>1 DEF Apart
<1> QED
  BY <1>4, <1>5, <1>6 DEF b

\* The last frame and the others.
LEMMA TopFrame ==
  ASSUME DeclInv, stack # <<>>
  PROVE  /\ Top1 \in Frames /\ Top1 \in Frame /\ Below \in Seq(Frame)
         /\ Range(Below) = Frames \ {Top1} /\ Apart(Below)
         /\ \A g \in Range(Below) : g.cmd # Top1.cmd
<1>1. stack \in Seq(Frame)
  BY DEF DeclInv, TreeInv, TypeOK, Frame
<1>2. Top1 \in Frame /\ Below \in Seq(Frame)
  BY TopType DEF DeclInv
<1> QED
  BY <1>1, <1>2, PopSet DEF DeclInv, Top1, Below, Frames

\* A frame in the place of the last one.
LEMMA NewTop ==
  ASSUME DeclInv, stack # <<>>, NEW f \in Frame, f.cmd = Top1.cmd
  PROVE  /\ Append(Below, f) \in Seq(Frame) /\ Apart(Append(Below, f))
         /\ Range(Append(Below, f)) = (Frames \ {Top1}) \cup {f}
  BY TopFrame, PushSet

\* What the invariant says of the frames and the commands.
LEMMA DeclFacts ==
  ASSUME DeclInv
  PROVE  /\ Frames \subseteq Frame /\ stack \in Seq(Frame)
         /\ \A f \in Frames : f.kind = "hooks" => f.cmd # Root /\ f.cmd \in 1..Len(cmds)
         /\ \A f, g \in Frames : f.cmd = g.cmd => f = g
         /\ \A c \in 1..Len(cmds) : /\ cmds[c].decl \in Decls \cup {NoDecl}
                                    /\ cmds[c].parent < c /\ cmds[c].parent \in All
         /\ Len(cmds) \in Nat /\ listed \subseteq 1..Len(cmds) /\ Root \notin 1..Len(cmds)
         /\ errs \subseteq Decls /\ NoDecl \notin Decls
<1>1. stack \in Seq(Frame) /\ cmds \in Seq(Cmd)
  BY DEF DeclInv, TreeInv, TypeOK, Frame, Cmd
<1>2. DOMAIN stack = 1..Len(stack) /\ \A i \in 1..Len(stack) : stack[i] \in Frame
  BY <1>1
<1>3. \A c \in 1..Len(cmds) : cmds[c] \in Cmd
  BY <1>1
<1>4. Frames \subseteq Frame
  BY <1>2 DEF Frames, Range
<1>5. Len(cmds) \in Nat /\ listed \subseteq 1..Len(cmds) /\ Root \notin 1..Len(cmds)
  BY <1>1 DEF DeclInv, TreeInv, TypeOK, Root
<1>6. \A f \in Frames : f.kind = "hooks" => f.cmd # Root /\ f.cmd \in 1..Len(cmds)
  <2>1. \A f \in Frames : f.cmd \in All
    BY <1>4 DEF Frame
  <2>2. \A f \in Frames : f.kind = "hooks" => f.cmd # Root
    BY <1>2 DEF Frames, Range, DeclInv, TreeInv, HooksOfCommands
  <2> QED
    BY <1>5, <2>1, <2>2 DEF All, Root
<1>7. \A f, g \in Frames : f.cmd = g.cmd => f = g
  BY <1>2 DEF Frames, Range, DeclInv, Apart
<1>8. \A c \in 1..Len(cmds) : /\ cmds[c].decl \in Decls \cup {NoDecl}
                               /\ cmds[c].parent < c /\ cmds[c].parent \in All
  <2> SUFFICES ASSUME NEW c \in 1..Len(cmds)
               PROVE  /\ cmds[c].decl \in Decls \cup {NoDecl}
                      /\ cmds[c].parent < c /\ cmds[c].parent \in All
    OBVIOUS
  <2>1. cmds[c] \in Cmd
    BY <1>3
  <2>2. cmds[c].decl \in Decls \cup {NoDecl} /\ cmds[c].parent \in 0..MaxCmds /\ MaxCmds \in Nat
    BY <2>1, TreeAssumption DEF Cmd
  <2>3. cmds[c].parent < c
    BY DEF DeclInv, TreeInv, TypeOK
  <2> QED
    BY <1>5, <2>2, <2>3 DEF All
<1> QED
  BY <1>1, <1>4, <1>5, <1>6, <1>7, <1>8, TreeAssumption DEF DeclInv, TreeInv, TypeOK

\* The forest of the declarations.
LEMMA ForestFacts ==
  /\ Range(Top) \subseteq Decls /\ \A e \in Decls : Range(Kids[e]) \subseteq Decls
  /\ \A d \in Decls : Nested(d) \subseteq Decls
  /\ \A e \in Decls, d \in Decls : d \in Range(Kids[e]) <=> e \in Nested(d)
  /\ \A d \in Decls : d \in Range(Top) <=> Nested(d) = {}
  /\ \A d \in Decls : \A e, f \in Nested(d) : e = f
  /\ \A d \in Decls : d \notin Nested(d)
<1>1. Top \in Seq(Decls) /\ \A e \in Decls : Kids[e] \in Seq(Decls)
  BY TreeAssumption
<1>2. \A s \in Seq(Decls) : Range(s) \subseteq Decls
  BY DEF Range
<1>3. \A d \in Decls : d \notin Nested(d)
  <2>1. PICK depth \in [Decls -> 0..Cardinality(Decls)] :
          \A e \in Decls : \A d \in Range(Kids[e]) : depth[e] < depth[d]
    BY ForestAssumption
  <2>2. Cardinality(Decls) \in Nat
    BY ForestAssumption, FS_CardinalityType
  <2> QED
    BY <2>1, <2>2 DEF Nested
<1>4. \A d \in Decls : \A e, f \in Nested(d) : e = f
  <2> SUFFICES ASSUME NEW d \in Decls
               PROVE  \A e, f \in Nested(d) : e = f
    OBVIOUS
  <2>1. CASE d \in Range(Top)
    BY <2>1, ForestAssumption
  <2>2. CASE d \notin Range(Top)
    <3>1. PICK e \in Decls : Nested(d) = {e}
      BY <2>2, ForestAssumption
    <3> QED
      BY <3>1
  <2> QED
    BY <2>1, <2>2
<1>5. \A d \in Decls : d \in Range(Top) <=> Nested(d) = {}
  BY ForestAssumption
<1> QED
  BY <1>1, <1>2, <1>3, <1>4, <1>5 DEF Nested

\* What a frame has to register no other frame has.
LEMMA RegsApart ==
  ASSUME DeclInv, NEW f \in Frames, NEW g \in Frames, f.kind = "regs", g.kind = "regs",
         NEW d \in Range(f.regs), d \in Range(g.regs)
  PROVE  f = g
<1>1. f \in Frame /\ g \in Frame
  BY DeclFacts
<1>2. d \in Range(Nest(f.cmd)) /\ d \in Range(Nest(g.cmd))
  BY DEF DeclInv, RegsOpen
<1>3. /\ f.cmd # Root => f.cmd \in listed /\ cmds[f.cmd].decl \in Decls
      /\ g.cmd # Root => g.cmd \in listed /\ cmds[g.cmd].decl \in Decls
  BY DEF DeclInv, FramesListed, RegsOpen
<1>4. d \in Decls
  BY <1>2, <1>3, ForestFacts DEF Nest
<1>5. f.cmd = g.cmd
  BY <1>2, <1>3, <1>4, ForestFacts, DeclFacts DEF Nest, DeclInv, DeclOnce
<1> QED
  BY <1>5, DeclFacts

-----------------------------------------------------------------------------
(* What the pieces of the actions keep.                                    *)

\* The parts of the invariant that speak of the frames.
Parts == Apart(stack) /\ FramesListed /\ RegsOpen /\ KidsOpen /\ DeclOnce /\ DeclPlaced
Phases ==
  /\ phase = "init" => errs = {} /\ \A d \in Decls : Open(d)
  /\ phase = "pending" => \A d \in Decls : Open(d) => Located(d)
  /\ phase = "built" => errs = {} /\ \A d \in Decls : ~Open(d)
  /\ phase # "pending" => \A f \in Frames : f.kind = "hooks" /\ cmds[f.cmd].decl = NoDecl

LEMMA DeclParts == DeclInv <=> TreeInv /\ Parts /\ Phases
  BY DEF DeclInv, Parts, Phases

\* The innermost frame goes, or one of the same command comes in its place
\* that takes over what it has to do.
LEMMA TopStep ==
  ASSUME DeclInv, stack # <<>>, UNCHANGED <<cmds, listed, errs, phase>>,
         NEW X, X \subseteq Frame, Frames' = (Frames \ {Top1}) \cup X, Apart(stack)',
         \A f \in X : /\ f.cmd = Top1.cmd
                      /\ f.kind = "hooks" => Top1.kind = "hooks"
                      /\ f.kind = "regs" =>
                           /\ phase = "pending"
                           /\ f.cmd # Root => cmds[f.cmd].decl \in Decls
                           /\ IsInjective(f.regs) /\ Range(f.regs) \subseteq Range(Nest(f.cmd))
                           /\ \A d \in Range(f.regs) : Open(d),
         Top1.kind = "regs" => Top1.regs = <<>>,
         Top1.kind = "hooks" =>
           \/ cmds[Top1.cmd].decl = NoDecl
           \/ \E f \in X : f.kind = "hooks"
           \/ \E f \in X : f.kind = "regs" /\ f.regs = Kids[cmds[Top1.cmd].decl]
  PROVE  (Parts /\ Phases)'
<1> USE DEF Frames
<1>1. /\ Top1 \in Frames /\ Top1 \in Frame
      /\ \A f \in X : f \in Frame
  BY TopFrame
<1>2. Root' = Root /\ \A d : Open(d)' <=> Open(d)
  BY DEF Open, Root
<1>3. FramesListed'
  BY <1>1, <1>2 DEF DeclInv, FramesListed
<1>4. \A c : Nest(c)' = Nest(c)
  BY <1>2 DEF Nest
<1>5. RegsOpen'
  BY <1>1, <1>2, <1>4 DEF DeclInv, RegsOpen
<1>6. \A e \in Decls : Starting(e)' => Starting(e)
  BY <1>1 DEF Starting
<1>7. KidsOpen'
  BY <1>2, <1>6 DEF DeclInv, KidsOpen
<1>8. DeclOnce' /\ DeclPlaced'
  <2>1. \A f \in X : f.kind \in {"hooks", "regs"}
    BY DEF Frame
  <2>2. \A c : Placed(c) => Placed(c)'
    BY <1>1, <1>2, <2>1 DEF Placed, Nested
  <2>3. DeclPlaced'
    BY <2>2 DEF DeclInv, DeclPlaced
  <2> QED
    BY <2>3 DEF DeclInv, DeclOnce
<1>9. ASSUME phase = "pending", NEW d \in Decls, Open(d), Located(d)
      PROVE  Located(d)'
  <2>1. Top1.kind = "regs" => d \notin Range(Top1.regs)
    BY DEF Range
  <2>2. \A f \in Frames : f.kind \in {"hooks", "regs"} /\ (f.kind = "hooks" => f.cmd # Root)
    BY DeclFacts DEF Frame
  <2>3. d \in Range(Top) => \E f \in Frames' : f.cmd = Root /\ d \in Range(f.regs)
    <3> SUFFICES ASSUME d \in Range(Top)
                 PROVE  \E f \in Frames' : f.cmd = Root /\ d \in Range(f.regs)
      OBVIOUS
    <3>1. PICK f \in Frames : f.cmd = Root /\ d \in Range(f.regs)
      BY <1>9 DEF Located
    <3>2. f # Top1
      BY <2>1, <2>2, <3>1
    <3> QED
      BY <3>1, <3>2
  <2>4. ASSUME NEW e \in Nested(d)
        PROVE  \/ e \in errs \/ Open(e) \/ Starting(e)'
               \/ \E f \in Frames' : /\ f.kind = "regs" /\ f.cmd # Root
                                     /\ cmds[f.cmd].decl = e /\ d \in Range(f.regs)
    <3>0. e \in Decls /\ d \in Range(Kids[e]) /\ e # NoDecl
      BY ForestFacts, DeclFacts
    <3>1. CASE Starting(e)
      <4>1. PICK f \in Frames : f.kind = "hooks" /\ cmds[f.cmd].decl = e
        BY <3>1 DEF Starting
      <4>2. CASE f # Top1
        BY <4>1, <4>2 DEF Starting
      <4>3. CASE f = Top1 /\ \E g \in X : g.kind = "hooks"
        BY <4>1, <4>3 DEF Starting
      <4>4. CASE f = Top1 /\ \E g \in X : g.kind = "regs" /\ g.regs = Kids[e]
        BY <2>2, <3>0, <4>1, <4>4
      <4> QED
        BY <3>0, <4>1, <4>2, <4>3, <4>4
    <3>2. CASE \E f \in Frames : /\ f.kind = "regs" /\ f.cmd # Root
                                 /\ cmds[f.cmd].decl = e /\ d \in Range(f.regs)
      BY <2>1, <3>2
    <3> QED
      BY <1>9, <3>1, <3>2 DEF Located
  <2> QED
    BY <1>2, <2>3, <2>4 DEF Located
<1>10. Phases'
  BY <1>1, <1>2, <1>9 DEF DeclInv, Phases, Frame
<1> QED
  BY <1>3, <1>5, <1>7, <1>8, <1>10 DEF Parts

\* What user code registers is no declaration.
LEMMA CommandDecl ==
  ASSUME DeclInv, NEW p \in All, NEW n \in Names, NEW g \in Groups \cup {NoGroup},
         NEW h \in 0..1, Join(p, n, g, NoDecl, h, stack)
  PROVE  (Parts /\ Phases)'
<1> DEFINE c == Len(cmds) + 1
           H == HooksFrame(c, h)
           new == [parent |-> p, name |-> n, group |-> g, decl |-> NoDecl,
                   known |-> NoDecl = NoDecl \/ h > 0]
<1>1. /\ cmds' = Append(cmds, new) /\ listed' = listed \cup {c}
      /\ stack' = Append(stack, H) /\ UNCHANGED <<errs, phase>>
  BY DEF Join
<1>2. /\ new.decl = NoDecl
      /\ H.cmd = c /\ H.kind = "hooks"
  BY DEF HooksFrame
<1> HIDE DEF new
<1>3. cmds \in Seq({cmds[i] : i \in 1..Len(cmds)} \cup {new}) /\ Len(cmds) \in Nat
  BY DEF DeclInv, TreeInv, TypeOK
<1>4. /\ Len(cmds') = c /\ cmds'[c] = new
      /\ \A i \in 1..Len(cmds) : cmds'[i] = cmds[i] /\ i # c
  BY <1>1, <1>3
<1>5. 1..Len(cmds') = 1..Len(cmds) \cup {c} /\ Root \notin 1..Len(cmds) /\ c # Root
  BY <1>3, <1>4 DEF Root
<1>6. \A f \in Frames : f.cmd # c /\ (f.cmd # Root => f.cmd \in 1..Len(cmds))
  BY <1>3, DeclFacts DEF Frame, All, Root
<1> HIDE DEF c, H
<1>7. Frames' = Frames \cup {H} /\ Apart(stack)'
  <2> DEFINE G == Frame \cup {H}
  <2>1. stack \in Seq(G) /\ H \in G
    BY DeclFacts
  <2> HIDE DEF G
  <2> QED
    BY <1>1, <1>2, <1>6, <2>1, PushSet DEF DeclInv, Frames
<1>8. \A d \in Decls : Open(d)' <=> Open(d)
  BY <1>1, <1>2, <1>4, <1>5, DeclFacts DEF Open
<1>9. \A e \in Decls : Starting(e)' <=> Starting(e)
  <2>1. \A f \in Frames : f.kind = "hooks" => cmds'[f.cmd] = cmds[f.cmd]
    BY <1>4, DeclFacts
  <2> QED
    BY <1>2, <1>4, <1>7, <2>1, DeclFacts DEF Starting
<1>10. FramesListed'
  BY <1>1, <1>2, <1>7 DEF DeclInv, FramesListed, Root
<1>11. RegsOpen'
  <2>1. \A f \in Frames : Nest(f.cmd)' = Nest(f.cmd)
    BY <1>4, <1>6 DEF Nest, Root
  <2>2. \A f \in Frames : f.kind = "regs" => Range(f.regs) \subseteq Decls
    BY DeclFacts DEF Frame, Range
  <2> QED
    BY <1>2, <1>4, <1>6, <1>7, <1>8, <2>1, <2>2 DEF DeclInv, RegsOpen, Root
<1>12. KidsOpen'
  BY <1>8, <1>9, ForestFacts DEF DeclInv, KidsOpen
<1>13. DeclOnce'
  BY <1>2, <1>4, <1>5, DeclFacts DEF DeclInv, DeclOnce
<1>14. DeclPlaced'
  <2>1. \A b \in 1..Len(cmds) : Placed(b) => Placed(b)'
    <3> SUFFICES ASSUME NEW b \in 1..Len(cmds), Placed(b)
                 PROVE  Placed(b)'
      OBVIOUS
    <3>1. cmds'[b] = cmds[b] /\ b \in listed'
      BY <1>1, <1>4 DEF Placed
    <3>2. CASE Nested(cmds[b].decl) = {}
      BY <3>1, <3>2 DEF Placed, Root
    <3>3. CASE Nested(cmds[b].decl) # {}
      <4> DEFINE q == cmds[b].parent
      <4>1. /\ q \in listed /\ cmds[q].decl \in Nested(cmds[b].decl)
            /\ \A f \in Frames : f.cmd = q => f.kind = "regs"
        BY <3>3 DEF Placed
      <4>2. q \in 1..Len(cmds)
        BY <4>1, DeclFacts
      <4>3. \A f \in Frames' : f.cmd = q => f.kind = "regs"
        BY <1>2, <1>4, <1>7, <4>1, <4>2
      <4> QED
        BY <1>1, <1>4, <3>1, <3>3, <4>1, <4>2, <4>3 DEF Placed
    <3> QED
      BY <3>2, <3>3
  <2>2. \A b \in listed' : cmds'[b].decl \notin errs'
    BY <1>1, <1>2, <1>4, DeclFacts DEF DeclInv, DeclPlaced
  <2>3. \A b \in 1..Len(cmds') : cmds'[b].decl \in Decls => cmds'[b].decl \in errs' \/ Placed(b)'
    BY <1>1, <1>2, <1>4, <1>5, <2>1, DeclFacts DEF DeclInv, DeclPlaced
  <2> QED
    BY <2>2, <2>3 DEF DeclPlaced
<1>15. \A d \in Decls : Located(d) => Located(d)'
  <2> SUFFICES ASSUME NEW d \in Decls, Located(d)
               PROVE  Located(d)'
    OBVIOUS
  <2>1. \A f \in Frames : f \in Frames' /\ (f.cmd # Root => cmds'[f.cmd] = cmds[f.cmd])
    BY <1>4, <1>6, <1>7
  <2>2. d \in Range(Top) => \E f \in Frames' : f.cmd = Root /\ d \in Range(f.regs)
    BY <2>1 DEF Located
  <2>3. ASSUME NEW e \in Nested(d)
        PROVE  \/ e \in errs' \/ Open(e)' \/ Starting(e)'
               \/ \E f \in Frames' : /\ f.kind = "regs" /\ f.cmd # Root
                                     /\ cmds'[f.cmd].decl = e /\ d \in Range(f.regs)
    <3>1. e \in Decls
      BY ForestFacts
    <3>2. CASE e \in errs \/ Open(e) \/ Starting(e)
      BY <1>1, <1>8, <1>9, <3>1, <3>2
    <3>3. CASE \E f \in Frames : /\ f.kind = "regs" /\ f.cmd # Root
                                 /\ cmds[f.cmd].decl = e /\ d \in Range(f.regs)
      BY <2>1, <3>3
    <3> QED
      BY <3>2, <3>3 DEF Located
  <2> QED
    BY <2>2, <2>3 DEF Located, Root
<1>16. Phases'
  <2>1. ASSUME phase # "pending", NEW f \in Frames'
        PROVE  f.kind = "hooks" /\ cmds'[f.cmd].decl = NoDecl
    <3>1. CASE f = H
      BY <1>2, <1>4, <3>1
    <3>2. CASE f \in Frames
      BY <1>4, <2>1, <3>2, DeclFacts DEF DeclInv
    <3> QED
      BY <1>7, <3>1, <3>2
  <2> QED
    BY <1>1, <1>8, <1>15, <2>1 DEF DeclInv, Phases
<1> QED
  BY <1>7, <1>10, <1>11, <1>12, <1>13, <1>14, <1>16 DEF Parts

\* The declaration that is next, and the frame without it.
NextDecl == Head(Top1.regs)
RestTop == RegsFrame(Top1.cmd, Tail(Top1.regs))

LEMMA TakeReg ==
  ASSUME DeclInv, Registering
  PROVE  /\ phase = "pending" /\ stack # <<>> /\ Top1 \in Frames /\ Top1.kind = "regs"
         /\ Top1.cmd \in All
         /\ NextDecl \in Decls /\ Open(NextDecl) /\ NextDecl \in Range(Nest(Top1.cmd))
         /\ RestTop \in Frame /\ RestTop.cmd = Top1.cmd /\ RestTop.kind = "regs"
         /\ Range(RestTop.regs) = Range(Top1.regs) \ {NextDecl} /\ IsInjective(RestTop.regs)
         /\ \A f \in Frames \ {Top1} : f.kind = "regs" => NextDecl \notin Range(f.regs)
         /\ \A e \in Decls : Open(e) \/ Starting(e) => NextDecl \notin Range(Kids[e])
         /\ RestOfRegs \in Seq(Frame) /\ Apart(RestOfRegs)
         /\ Range(RestOfRegs) = (Frames \ {Top1}) \cup {RestTop}
<1>1. /\ phase = "pending" /\ stack # <<>> /\ Top1.kind = "regs" /\ Top1.regs # <<>>
      /\ Top1 \in Frames /\ Top1 \in Frame
  BY TopFrame DEF Registering
<1>2. Top1.regs \in Seq(Decls) /\ Top1.cmd \in All
  BY <1>1 DEF Frame
<1>3. IsInjective(Top1.regs) /\ Range(Top1.regs) \subseteq Range(Nest(Top1.cmd))
      /\ \A d \in Range(Top1.regs) : Open(d)
  BY <1>1 DEF DeclInv, RegsOpen
<1>4. /\ NextDecl \in Decls /\ NextDecl \in Range(Top1.regs)
      /\ Tail(Top1.regs) \in Seq(Decls)
      /\ Range(Tail(Top1.regs)) = Range(Top1.regs) \ {NextDecl}
      /\ IsInjective(Tail(Top1.regs))
  <2> DEFINE s == Top1.regs
             t == Tail(s)
  <2>1. /\ Len(s) \in Nat \ {0} /\ DOMAIN s = 1..Len(s) /\ NextDecl = s[1]
        /\ t \in Seq(Decls) /\ Len(t) = Len(s) - 1 /\ DOMAIN t = 1..(Len(s) - 1)
        /\ \A i \in 1..(Len(s) - 1) : t[i] = s[i + 1] /\ i + 1 \in 1..Len(s)
        /\ \A i \in 1..Len(s) : s[i] \in Decls
    BY <1>1, <1>2 DEF NextDecl
  <2> HIDE DEF t
  <2>2. \A i, j \in 1..Len(s) : s[i] = s[j] => i = j
    BY <1>3, <2>1 DEF IsInjective
  <2>3. IsInjective(t)
    BY <2>1, <2>2 DEF IsInjective
  <2>4. NextDecl \in Range(s) /\ NextDecl \in Decls
    BY <2>1 DEF Range
  <2>5. Range(t) \subseteq Range(s) \ {NextDecl}
    <3> SUFFICES ASSUME NEW i \in 1..(Len(s) - 1)
                 PROVE  t[i] \in Range(s) /\ t[i] # NextDecl
      BY <2>1 DEF Range
    <3>1. t[i] = s[i + 1] /\ i + 1 \in 1..Len(s) /\ i + 1 # 1 /\ 1 \in 1..Len(s)
      BY <2>1
    <3> QED
      BY <2>1, <2>2, <3>1 DEF Range
  <2>6. Range(s) \ {NextDecl} \subseteq Range(t)
    <3> SUFFICES ASSUME NEW i \in 1..Len(s), s[i] # NextDecl
                 PROVE  s[i] \in Range(t)
      BY <2>1 DEF Range
    <3>1. i - 1 \in 1..(Len(s) - 1) /\ (i - 1) + 1 = i
      BY <2>1
    <3>2. t[i - 1] = s[i]
      BY <2>1, <3>1
    <3> QED
      BY <2>1, <3>1, <3>2 DEF Range
  <2> QED
    BY <2>1, <2>3, <2>4, <2>5, <2>6 DEF t
<1>5. /\ RestTop \in Frame /\ RestTop.cmd = Top1.cmd /\ RestTop.kind = "regs"
      /\ RestTop.regs = Tail(Top1.regs)
  BY <1>2, <1>4 DEF RestTop, RegsFrame, Frame
<1>6. \A f \in Frames \ {Top1} : f.kind = "regs" => NextDecl \notin Range(f.regs)
  BY <1>1, <1>4, RegsApart
<1>7. Open(NextDecl) /\ NextDecl \in Range(Nest(Top1.cmd))
  BY <1>3, <1>4
<1>8. ASSUME NEW e \in Decls, Open(e) \/ Starting(e), NextDecl \in Range(Kids[e])
      PROVE  FALSE
  <2>1. e \in Nested(NextDecl)
    BY <1>4, <1>8, ForestFacts
  <2>2. Top1.cmd # Root
    BY <1>4, <1>7, <2>1, ForestFacts DEF Nest
  <2>3. Top1.cmd \in listed /\ cmds[Top1.cmd].decl \in Decls
    BY <1>1, <2>2 DEF DeclInv, FramesListed, RegsOpen
  <2>4. cmds[Top1.cmd].decl = e
    BY <1>4, <1>7, <2>1, <2>2, <2>3, ForestFacts DEF Nest
  <2>5. Top1.cmd \in 1..Len(cmds)
    BY <2>3, DeclFacts
  <2>6. Starting(e)
    BY <1>8, <2>4, <2>5 DEF Open
  <2>7. PICK f \in Frames : f.kind = "hooks" /\ cmds[f.cmd].decl = e
    BY <2>6 DEF Starting
  <2>8. f.cmd = Top1.cmd
    BY <2>4, <2>5, <2>7, DeclFacts DEF DeclInv, DeclOnce
  <2> QED
    BY <1>1, <2>7, <2>8, DeclFacts
<1>9. /\ RestOfRegs \in Seq(Frame) /\ Apart(RestOfRegs)
      /\ Range(RestOfRegs) = (Frames \ {Top1}) \cup {RestTop}
  BY <1>1, <1>5, NewTop DEF RestOfRegs, RestTop
<1> QED
  BY <1>1, <1>2, <1>4, <1>5, <1>6, <1>7, <1>8, <1>9

\* A declaration is refused.
LEMMA PendingRefusedDecl ==
  ASSUME DeclInv, Registering, UNCHANGED <<cmds, listed, phase>>,
         errs' = errs \cup {NextDecl}, stack' = RestOfRegs
  PROVE  (Parts /\ Phases)'
<1>1. Frames' = (Frames \ {Top1}) \cup {RestTop} /\ Apart(stack)'
  BY TakeReg DEF Frames
<1>2. Root' = Root /\ \A d : Open(d)' <=> Open(d) /\ d # NextDecl
  BY DEF Open, Root
<1>3. FramesListed'
  BY <1>1, <1>2, TakeReg DEF DeclInv, FramesListed
<1>4. RegsOpen'
  <2>1. \A c : Nest(c)' = Nest(c)
    BY <1>2 DEF Nest
  <2> QED
    BY <1>1, <1>2, <2>1, TakeReg DEF DeclInv, RegsOpen
<1>5. \A e \in Decls : Starting(e)' <=> Starting(e)
  BY <1>1, TakeReg DEF Starting
<1>6. KidsOpen'
  BY <1>2, <1>5, TakeReg DEF DeclInv, KidsOpen
<1>7. DeclPlaced'
  <2>1. \A c : Placed(c) => Placed(c)'
    BY <1>1, <1>2, TakeReg DEF Placed, Nested
  <2>2. \A c \in listed : cmds[c].decl # NextDecl
    BY TakeReg, DeclFacts DEF Open
  <2> QED
    BY <2>1, <2>2 DEF DeclInv, DeclPlaced
<1>8. ASSUME NEW d \in Decls, Open(d), d # NextDecl, Located(d)
      PROVE  Located(d)'
  <2>1. d \in Range(Top) => \E f \in Frames' : f.cmd = Root /\ d \in Range(f.regs)
    BY <1>1, <1>8, TakeReg DEF Located
  <2>2. ASSUME NEW e \in Nested(d)
        PROVE  \/ e \in errs' \/ Open(e)' \/ Starting(e)'
               \/ \E f \in Frames' : /\ f.kind = "regs" /\ f.cmd # Root
                                     /\ cmds[f.cmd].decl = e /\ d \in Range(f.regs)
    <3>1. e \in Decls
      BY ForestFacts
    <3>2. CASE e \in errs \/ Open(e) \/ Starting(e)
      BY <1>2, <1>5, <3>1, <3>2
    <3>3. CASE \E f \in Frames : /\ f.kind = "regs" /\ f.cmd # Root
                                 /\ cmds[f.cmd].decl = e /\ d \in Range(f.regs)
      BY <1>1, <1>8, <3>3, TakeReg
    <3> QED
      BY <1>8, <3>2, <3>3 DEF Located
  <2> QED
    BY <2>1, <2>2 DEF Located, Root
<1>9. Phases'
  BY <1>2, <1>8, TakeReg DEF DeclInv, Phases
<1> QED
  BY <1>1, <1>3, <1>4, <1>6, <1>7, <1>9 DEF Parts, DeclInv, DeclOnce

\* A declaration gets its command, and the command's hooks are next.
LEMMA PendingDecl ==
  ASSUME DeclInv, Registering, NEW n \in Names, NEW g \in Groups \cup {NoGroup},
         NEW h \in 0..1, Join(Top1.cmd, n, g, NextDecl, h, RestOfRegs)
  PROVE  (Parts /\ Phases)'
<1>0. PICK c : c = Len(cmds) + 1
  OBVIOUS
<1> DEFINE H == HooksFrame(c, h)
           new == [parent |-> Top1.cmd, name |-> n, group |-> g, decl |-> NextDecl,
                   known |-> NextDecl = NoDecl \/ h > 0]
<1>1. /\ cmds' = Append(cmds, new) /\ listed' = listed \cup {c}
      /\ stack' = Append(RestOfRegs, H) /\ UNCHANGED <<errs, phase>>
  BY <1>0 DEF Join
<1>2. /\ new.decl = NextDecl /\ new.parent = Top1.cmd
      /\ H.cmd = c /\ H.kind = "hooks"
  BY DEF HooksFrame
<1> HIDE DEF new
<1>3. cmds \in Seq(Cmd \cup {new}) /\ Len(cmds) \in Nat
  <2>1. cmds \in Seq(Cmd)
    BY DEF DeclInv, TreeInv, TypeOK, Cmd
  <2> QED
    BY <2>1
<1>4. /\ Len(cmds') = c /\ cmds'[c] = new
      /\ \A i \in 1..Len(cmds) : cmds'[i] = cmds[i] /\ i # c
  BY <1>0, <1>1, <1>3
<1>5. 1..Len(cmds') = 1..Len(cmds) \cup {c} /\ Root \notin 1..Len(cmds) /\ c # Root
  BY <1>0, <1>3, <1>4 DEF Root
<1> DEFINE Rest == (Frames \ {Top1}) \cup {RestTop}
<1>6. /\ \A f \in Frames \cup Rest : f.cmd # c /\ (f.cmd # Root => f.cmd \in 1..Len(cmds))
      /\ \A f \in Rest : f.kind = "hooks" => f \in Frames
      /\ \A f \in Frames : f.kind = "hooks" => f \in Rest
  BY <1>0, <1>3, DeclFacts, TakeReg DEF Frame, All, Root
<1> HIDE DEF H
<1>7. Frames' = Rest \cup {H} /\ Apart(stack)'
  <2> DEFINE G == Frame \cup {H}
  <2>1. RestOfRegs \in Seq(G) /\ H \in G
    BY TakeReg
  <2> HIDE DEF G
  <2> QED
    BY <1>1, <1>2, <1>6, <2>1, PushSet, TakeReg DEF Frames
<1>8. \A d \in Decls : Open(d)' <=> Open(d) /\ d # NextDecl
  BY <1>1, <1>2, <1>4, <1>5, DeclFacts DEF Open
<1>9. \A e \in Decls : Starting(e)' <=> Starting(e) \/ e = NextDecl
  <2>1. \A f \in Frames : f.kind = "hooks" => cmds'[f.cmd] = cmds[f.cmd]
    BY <1>4, DeclFacts
  <2> QED
    BY <1>2, <1>4, <1>6, <1>7, <2>1 DEF Starting
<1>10. FramesListed'
  BY <1>1, <1>2, <1>7, TakeReg DEF DeclInv, FramesListed, Root
<1>11. RegsOpen'
  <2>1. \A f \in Rest : Nest(f.cmd)' = Nest(f.cmd)
    BY <1>4, <1>6 DEF Nest, Root
  <2>2. ASSUME NEW f \in Rest, f.kind = "regs"
        PROVE  /\ f.cmd # Root => cmds[f.cmd].decl \in Decls
               /\ IsInjective(f.regs) /\ Range(f.regs) \subseteq Range(Nest(f.cmd))
               /\ \A d \in Range(f.regs) : d \in Decls /\ Open(d) /\ d # NextDecl
    <3>1. Range(f.regs) \subseteq Decls
      BY DeclFacts, TakeReg DEF Frame, Range
    <3> QED
      BY <2>2, <3>1, TakeReg DEF DeclInv, RegsOpen
  <2> QED
    BY <1>2, <1>4, <1>6, <1>7, <1>8, <2>1, <2>2 DEF RegsOpen, Root
<1>12. KidsOpen'
  <2>1. NextDecl \notin Range(Kids[NextDecl])
    BY TakeReg
  <2> QED
    BY <1>8, <1>9, <2>1, ForestFacts, TakeReg DEF DeclInv, KidsOpen
<1>13. DeclOnce'
  BY <1>2, <1>4, <1>5, DeclFacts, TakeReg DEF DeclInv, DeclOnce, Open
<1>14. DeclPlaced'
  <2>1. \A b \in 1..Len(cmds) : Placed(b) => Placed(b)'
    <3> SUFFICES ASSUME NEW b \in 1..Len(cmds), Placed(b)
                 PROVE  Placed(b)'
      OBVIOUS
    <3>1. cmds'[b] = cmds[b] /\ b \in listed'
      BY <1>1, <1>4 DEF Placed
    <3>2. CASE Nested(cmds[b].decl) = {}
      BY <3>1, <3>2 DEF Placed, Root
    <3>3. CASE Nested(cmds[b].decl) # {}
      <4> DEFINE q == cmds[b].parent
      <4>1. /\ q \in listed /\ cmds[q].decl \in Nested(cmds[b].decl)
            /\ \A f \in Frames : f.cmd = q => f.kind = "regs"
        BY <3>3 DEF Placed
      <4>2. q \in 1..Len(cmds)
        BY <4>1, DeclFacts
      <4>3. \A f \in Frames' : f.cmd = q => f.kind = "regs"
        BY <1>2, <1>4, <1>7, <4>1, <4>2, TakeReg
      <4> QED
        BY <1>1, <1>4, <3>1, <3>3, <4>1, <4>2, <4>3 DEF Placed
    <3> QED
      BY <3>2, <3>3
  <2>2. Placed(c)'
    <3> DEFINE q == Top1.cmd
    <3>1. c \in listed' /\ cmds'[c].decl = NextDecl /\ cmds'[c].parent = q
      BY <1>1, <1>2, <1>4
    <3>2. CASE q = Root
      <4>1. Nested(NextDecl) = {}
        BY <3>2, ForestFacts, TakeReg DEF Nest
      <4> QED
        BY <3>1, <3>2, <4>1 DEF Placed, Root
    <3>3. CASE q # Root
      <4>1. q \in listed /\ cmds[q].decl \in Decls /\ q \in 1..Len(cmds)
        BY <3>3, TakeReg, DeclFacts DEF DeclInv, FramesListed, RegsOpen
      <4>2. cmds[q].decl \in Nested(NextDecl)
        BY <3>3, <4>1, ForestFacts, TakeReg DEF Nest
      <4>3. \A f \in Frames' : f.cmd = q => f.kind = "regs"
        BY <1>2, <1>4, <1>7, <4>1, DeclFacts, TakeReg
      <4> QED
        BY <1>1, <1>4, <3>1, <4>1, <4>2, <4>3 DEF Placed
    <3> QED
      BY <3>2, <3>3
  <2>3. \A b \in listed' : cmds'[b].decl \notin errs'
    BY <1>1, <1>2, <1>4, DeclFacts, TakeReg DEF DeclInv, DeclPlaced, Open
  <2>4. \A b \in 1..Len(cmds') : cmds'[b].decl \in Decls => cmds'[b].decl \in errs' \/ Placed(b)'
    BY <1>1, <1>4, <1>5, <2>1, <2>2 DEF DeclInv, DeclPlaced
  <2> QED
    BY <2>3, <2>4 DEF DeclPlaced
<1>15. ASSUME NEW d \in Decls, Located(d), d # NextDecl
       PROVE  Located(d)'
  <2>1. \A f \in Frames : d \in Range(f.regs) =>
          \E r \in Frames' : r.cmd = f.cmd /\ d \in Range(r.regs) /\ (f.kind = "regs" => r.kind = "regs")
    BY <1>7, <1>15, TakeReg
  <2>2. \A f \in Frames : f.cmd # Root => cmds'[f.cmd] = cmds[f.cmd]
    BY <1>4, <1>6
  <2>3. d \in Range(Top) => \E f \in Frames' : f.cmd = Root /\ d \in Range(f.regs)
    BY <1>15, <2>1 DEF Located
  <2>4. ASSUME NEW e \in Nested(d)
        PROVE  \/ e \in errs' \/ Open(e)' \/ Starting(e)'
               \/ \E f \in Frames' : /\ f.kind = "regs" /\ f.cmd # Root
                                     /\ cmds'[f.cmd].decl = e /\ d \in Range(f.regs)
    <3>1. e \in Decls
      BY ForestFacts
    <3>2. CASE e \in errs \/ Open(e) \/ Starting(e)
      BY <1>1, <1>8, <1>9, <3>1, <3>2
    <3>3. CASE \E f \in Frames : /\ f.kind = "regs" /\ f.cmd # Root
                                 /\ cmds[f.cmd].decl = e /\ d \in Range(f.regs)
      BY <2>1, <2>2, <3>3
    <3> QED
      BY <1>15, <3>2, <3>3 DEF Located
  <2> QED
    BY <2>3, <2>4 DEF Located, Root
<1>16. Phases'
  BY <1>1, <1>8, <1>15, TakeReg DEF DeclInv, Phases
<1> QED
  BY <1>7, <1>10, <1>11, <1>12, <1>13, <1>14, <1>16 DEF Parts

\* A command is rolled back: it was the last, and nothing is under it yet
\* that was declared.
LEMMA HookFailsDecl ==
  ASSUME DeclInv, HookFails
  PROVE  (Parts /\ Phases)'
<1>1. /\ stack # <<>> /\ Top1.kind = "hooks" /\ Top1 \in Frames
      /\ stack' = Below /\ UNCHANGED <<cmds, phase>>
      /\ listed' = listed \ {Top1.cmd}
      /\ errs' = IF cmds[Top1.cmd].decl = NoDecl THEN errs ELSE errs \cup {cmds[Top1.cmd].decl}
  BY TopFrame DEF HookFails, InHook, rollbackCommand
<1>2. PICK c \in 1..Len(cmds) : c = Top1.cmd
  BY <1>1, DeclFacts
<1>3. PICK d0 \in Decls \cup {NoDecl} : d0 = cmds[c].decl
  BY DeclFacts
<1>4. /\ Frames' = Frames \ {Top1} /\ Apart(stack)'
      /\ \A f \in Frames' : f.cmd # c
  BY <1>1, <1>2, TopFrame DEF Frames
<1>5. Root' = Root /\ \A d \in Decls : Open(d)' <=> Open(d)
  BY <1>1, <1>2, <1>3 DEF Open, Root
<1>6. FramesListed'
  BY <1>1, <1>2, <1>4, <1>5 DEF DeclInv, FramesListed
<1>7. RegsOpen'
  <2>1. \A b : Nest(b)' = Nest(b)
    BY <1>1, <1>5 DEF Nest
  <2>2. \A f \in Frames : f.kind = "regs" => Range(f.regs) \subseteq Decls
    BY DeclFacts DEF Frame, Range
  <2> QED
    BY <1>1, <1>4, <1>5, <2>1, <2>2 DEF DeclInv, RegsOpen
<1>8. /\ \A e \in Decls : Starting(e)' => Starting(e)
      /\ \A e \in Decls : Starting(e) => Starting(e)' \/ e \in errs'
  BY <1>1, <1>2, <1>4, DeclFacts DEF Starting
<1>9. KidsOpen'
  <2>1. \A e \in Decls : Range(Kids[e]) \subseteq Decls
    BY ForestFacts
  <2>2. \A e \in Decls : Open(e)' \/ Starting(e)' => \A d \in Range(Kids[e]) : Open(d)
    BY <1>5, <1>8 DEF DeclInv, KidsOpen
  <2> QED
    BY <1>5, <2>1, <2>2 DEF KidsOpen
<1>10. DeclPlaced'
  <2>1. \A b \in 1..Len(cmds) : Placed(b) /\ b # c => Placed(b)'
    <3> SUFFICES ASSUME NEW b \in 1..Len(cmds), Placed(b), b # c
                 PROVE  Placed(b)'
      OBVIOUS
    <3>1. CASE Nested(cmds[b].decl) = {}
      BY <1>1, <1>2, <3>1 DEF Placed, Root
    <3>2. CASE Nested(cmds[b].decl) # {}
      <4>1. cmds[b].parent # c
        BY <1>1, <1>2, <3>2 DEF Placed
      <4> QED
        BY <1>1, <1>2, <1>4, <3>2, <4>1 DEF Placed, Nested
    <3> QED
      BY <3>1, <3>2
  <2>2. \A b \in listed' : cmds[b].decl \notin errs'
    BY <1>1, <1>2, <1>3, DeclFacts DEF DeclInv, DeclPlaced, DeclOnce
  <2>3. \A b \in 1..Len(cmds) : cmds[b].decl \in Decls => cmds[b].decl \in errs' \/ Placed(b)'
    BY <1>1, <1>2, <2>1, DeclFacts DEF DeclInv, DeclPlaced
  <2> QED
    BY <1>1, <2>2, <2>3 DEF DeclPlaced
<1>11. \A d \in Decls : Located(d) => Located(d)'
  <2> SUFFICES ASSUME NEW d \in Decls, Located(d)
               PROVE  Located(d)'
    OBVIOUS
  <2>1. d \in Range(Top) => \E f \in Frames' : f.cmd = Root /\ d \in Range(f.regs)
    <3>1. Top1.cmd # Root
      BY <1>2, DeclFacts
    <3> QED
      BY <1>4, <3>1 DEF Located
  <2>2. ASSUME NEW e \in Nested(d)
        PROVE  \/ e \in errs' \/ Open(e)' \/ Starting(e)'
               \/ \E f \in Frames' : /\ f.kind = "regs" /\ f.cmd # Root
                                     /\ cmds'[f.cmd].decl = e /\ d \in Range(f.regs)
    <3>1. e \in Decls /\ errs \subseteq errs'
      BY <1>1, ForestFacts
    <3>2. CASE e \in errs \/ Open(e) \/ Starting(e)
      BY <1>5, <1>8, <3>1, <3>2
    <3>3. CASE \E f \in Frames : /\ f.kind = "regs" /\ f.cmd # Root
                                 /\ cmds[f.cmd].decl = e /\ d \in Range(f.regs)
      BY <1>1, <1>4, <3>3
    <3> QED
      BY <3>2, <3>3 DEF Located
  <2> QED
    BY <2>1, <2>2 DEF Located, Root
<1>12. Phases'
  <2>1. phase # "pending" => errs' = errs
    BY <1>1 DEF DeclInv
  <2> QED
    BY <1>1, <1>4, <1>5, <1>11, <2>1 DEF DeclInv, Phases
<1> QED
  BY <1>1, <1>4, <1>6, <1>7, <1>9, <1>10, <1>12 DEF Parts, DeclInv, DeclOnce

\* In a set of declarations one is nested least deep.
LEMMA LeastDeep ==
  ASSUME NEW depth \in [Decls -> Nat], NEW S, S \subseteq Decls, S # {}
  PROVE  \E d \in S : \A e \in S : ~(depth[e] < depth[d])
<1> DEFINE T == {depth[d] : d \in S}
<1>1. T \subseteq Nat /\ T # {}
  OBVIOUS
<1>2. PICK x \in T : \A y \in T : ~(<<y, x>> \in OpToRel(<, Nat))
  <2> HIDE DEF T
  <2> QED
    BY <1>1, NatLessThanWellFounded, WFMin
<1>3. PICK d \in S : depth[d] = x
  OBVIOUS
<1>4. ASSUME NEW e \in S, depth[e] < depth[d]
      PROVE  FALSE
  <2>1. <<depth[e], depth[d]>> \in OpToRel(<, Nat)
    BY <1>4 DEF OpToRel
  <2> QED
    BY <1>2, <1>3, <2>1
<1> QED
  BY <1>4

\* The depth of a declaration.
LEMMA DepthOf ==
  \E depth \in [Decls -> Nat] : \A d \in Decls :
    depth[d] <= Cardinality(Decls) /\ \A e \in Nested(d) : depth[e] < depth[d]
<1>1. PICK depth \in [Decls -> 0..Cardinality(Decls)] :
        \A e \in Decls : \A d \in Range(Kids[e]) : depth[e] < depth[d]
  BY ForestAssumption
<1>2. Cardinality(Decls) \in Nat
  BY ForestAssumption, FS_CardinalityType
<1>3. depth \in [Decls -> Nat] /\ \A d \in Decls : depth[d] <= Cardinality(Decls)
  BY <1>2
<1>4. \A d \in Decls : \A e \in Nested(d) : depth[e] < depth[d]
  BY <1>1 DEF Nested
<1> QED
  BY <1>3, <1>4

\* An open declaration, when nothing is left to register, is nested in one
\* that is open or has failed.
LEMMA OpenUnder ==
  ASSUME DeclInv, phase = "pending", stack = <<>>, NEW d \in Decls, Open(d)
  PROVE  \E e \in Nested(d) : e \in errs \/ Open(e)
<1>1. Frames = {}
  BY DEF Frames, Range
<1>2. d \notin Range(Top) /\ \A e \in Nested(d) : e \in errs \/ Open(e)
  BY <1>1 DEF DeclInv, Located, Starting
<1> QED
  BY <1>2, ForestFacts

-----------------------------------------------------------------------------
(* The invariant.                                                          *)

LEMMA InitDecl == Init => DeclInv
<1> SUFFICES ASSUME Init
             PROVE  DeclInv
  OBVIOUS
<1>1. TreeInv
  BY InitTree
<1>2. Frames = {} /\ Len(cmds) = 0 /\ Len(stack) = 0
  BY DEF Init, Frames, Range
<1> QED
  BY <1>1, <1>2 DEF Init, DeclInv, Apart, FramesListed, RegsOpen, KidsOpen, DeclOnce,
                    DeclPlaced, Open

LEMMA NextDecls == DeclInv /\ [Next]_vars => DeclInv'
<1> SUFFICES ASSUME DeclInv, [Next]_vars
             PROVE  (Parts /\ Phases)'
  BY NextTree DEF DeclInv, Parts, Phases
<1>1. ASSUME NEW p \in All, NEW n \in Names, NEW g \in Groups \cup {NoGroup},
             NEW h \in 0..1, Command(p, n, g, h)
      PROVE  (Parts /\ Phases)'
  BY <1>1, CommandDecl DEF Command
<1>2. CASE UNCHANGED <<cmds, listed, errs, phase, stack>>
  <2>1. Frames' = Frames /\ Root' = Root
    BY <1>2 DEF Frames, Root
  <2>2. \A d : (Open(d)' <=> Open(d)) /\ (Starting(d)' <=> Starting(d)) /\ Nest(d)' = Nest(d)
    BY <1>2, <2>1 DEF Open, Starting, Nest
  <2>3. \A d : Located(d) => Located(d)'
    BY <1>2, <2>1, <2>2 DEF Located, Nested
  <2>4. \A c : Placed(c) => Placed(c)'
    BY <1>2, <2>1 DEF Placed, Nested
  <2>5. (Apart(stack) /\ FramesListed /\ DeclOnce)'
    BY <1>2, <2>1 DEF DeclInv, Apart, FramesListed, DeclOnce
  <2>6. RegsOpen' /\ KidsOpen' /\ DeclPlaced'
    BY <1>2, <2>1, <2>2, <2>4 DEF DeclInv, RegsOpen, KidsOpen, DeclPlaced
  <2>7. Phases'
    BY <1>2, <2>1, <2>2, <2>3 DEF DeclInv, Phases
  <2> QED
    BY <2>5, <2>6, <2>7 DEF Parts
<1>3. CASE HookOk
  <2>0. PICK f : f = HooksFrame(Top1.cmd, Top1.hooks - 1)
    OBVIOUS
  <2>1. /\ stack # <<>> /\ Top1.kind = "hooks" /\ Top1.hooks > 0
        /\ stack' = Append(Below, f) /\ UNCHANGED <<cmds, listed, errs, phase>>
    BY <1>3, <2>0 DEF HookOk, InHook, tree
  <2>2. Top1 \in Frame
    BY <2>1, TopFrame
  <2>3. f \in Frame /\ f.cmd = Top1.cmd /\ f.kind = "hooks"
    BY <2>0, <2>1, <2>2 DEF HooksFrame, Frame
  <2>4. PICK X : X = {f}
    OBVIOUS
  <2>5. Frames' = (Frames \ {Top1}) \cup X /\ Apart(stack)'
    BY <2>1, <2>3, <2>4, NewTop DEF Frames
  <2>6. X \subseteq Frame /\ \A x \in X : x = f
    BY <2>3, <2>4
  <2> QED
    BY <2>1, <2>3, <2>4, <2>5, <2>6, TopStep
<1>4. CASE HookFails
  BY <1>4, HookFailsDecl
<1>5. CASE Joined
  <2>1. /\ stack # <<>> /\ Top1.kind = "hooks" /\ Top1 \in Frames
        /\ UNCHANGED <<cmds, listed, errs, phase>>
    BY <1>5, TopFrame DEF Joined, tree
  <2>2. Top1.cmd \in 1..Len(cmds) /\ Top1.cmd # Root /\ Top1.cmd \in All
    BY <2>1, DeclFacts DEF Frame
  <2>3. CASE cmds[Top1.cmd].decl = NoDecl
    <3>1. stack' = Below
      BY <1>5, <2>3 DEF Joined
    <3>2. PICK X : X = {}
      OBVIOUS
    <3>3. Frames' = (Frames \ {Top1}) \cup X /\ Apart(stack)'
      BY <2>1, <3>1, <3>2, TopFrame DEF Frames
    <3>4. X \subseteq Frame /\ \A x \in X : FALSE
      BY <3>2
    <3> QED
      BY <2>1, <2>3, <3>3, <3>4, TopStep
  <2>4. CASE cmds[Top1.cmd].decl # NoDecl
    <3>0. PICK e, f : e = cmds[Top1.cmd].decl /\ f = RegsFrame(Top1.cmd, Kids[e])
      OBVIOUS
    <3>1. e \in Decls /\ Kids[e] \in Seq(Decls)
      BY <2>2, <2>4, <3>0, DeclFacts, TreeAssumption
    <3>2. f \in Frame /\ f.cmd = Top1.cmd /\ f.kind = "regs" /\ f.regs = Kids[e]
      BY <2>2, <3>0, <3>1 DEF RegsFrame, Frame
    <3>3. stack' = Append(Below, f)
      BY <1>5, <2>4, <3>0 DEF Joined
    <3>4. phase = "pending"
      BY <2>1, <2>4 DEF DeclInv
    <3>5. IsInjective(Kids[e]) /\ Range(Kids[e]) = Range(Nest(Top1.cmd))
      BY <2>2, <3>0, <3>1, ForestAssumption DEF Nest
    <3>6. \A d \in Range(Kids[e]) : Open(d)
      BY <2>1, <3>0, <3>1 DEF DeclInv, KidsOpen, Starting
    <3>7. PICK X : X = {f}
      OBVIOUS
    <3>8. Frames' = (Frames \ {Top1}) \cup X /\ Apart(stack)'
      BY <2>1, <3>2, <3>3, <3>7, NewTop DEF Frames
    <3>9. X \subseteq Frame /\ f \in X /\ \A x \in X : x = f
      BY <3>2, <3>7
    <3> QED
      BY <2>1, <3>0, <3>1, <3>2, <3>4, <3>5, <3>6, <3>8, <3>9, TopStep
  <2> QED
    BY <2>3, <2>4
<1>6. CASE StartPending
  <2> DEFINE f == RegsFrame(Root, Top)
  <2>1. /\ phase = "init" /\ phase' = "pending" /\ stack = <<>> /\ stack' = <<f>>
        /\ UNCHANGED <<cmds, listed, errs>>
    BY <1>6 DEF StartPending, tree
  <2>2. f.cmd = Root /\ f.kind = "regs" /\ f.regs = Top
    BY DEF RegsFrame
  <2> HIDE DEF f
  <2>3. Frames = {} /\ Frames' = {f} /\ Apart(stack)'
    BY <2>1 DEF Frames, Range, Apart
  <2>4. /\ errs = {} /\ \A d \in Decls : Open(d)' /\ Open(d)
    BY <2>1 DEF DeclInv, Open
  <2>5. FramesListed' /\ RegsOpen'
    BY <2>2, <2>3, <2>4, ForestFacts, ForestAssumption DEF FramesListed, RegsOpen, Nest, Root
  <2>6. KidsOpen'
    BY <2>4, ForestFacts DEF KidsOpen
  <2>7. DeclOnce' /\ DeclPlaced'
    BY <2>1, <2>3, <2>4, DeclFacts DEF DeclInv, DeclOnce, DeclPlaced, Open
  <2>8. \A d \in Decls : Located(d)'
    BY <2>2, <2>3, <2>4, ForestFacts DEF Located, Root
  <2> QED
    BY <2>1, <2>3, <2>5, <2>6, <2>7, <2>8 DEF Parts, Phases
<1>7. ASSUME NEW n \in Names, NEW g \in Groups \cup {NoGroup}, NEW h \in 0..1,
             Pending(n, g, h)
      PROVE  (Parts /\ Phases)'
  BY <1>7, PendingDecl DEF Pending, NextDecl
<1>8. ASSUME NEW g, PendingRefused(g)
      PROVE  (Parts /\ Phases)'
  BY <1>8, PendingRefusedDecl DEF PendingRefused, RefuseEarly, RefuseLate, tree, NextDecl
<1>9. CASE PendingDone
  <2>1. /\ stack # <<>> /\ Top1.kind = "regs" /\ Top1.regs = <<>>
        /\ stack' = Below /\ UNCHANGED <<cmds, listed, errs, phase>>
    BY <1>9 DEF PendingDone, tree
  <2>2. PICK X : X = {}
    OBVIOUS
  <2>3. Frames' = (Frames \ {Top1}) \cup X /\ Apart(stack)'
    BY <2>1, <2>2, TopFrame DEF Frames
  <2>4. X \subseteq Frame /\ \A x \in X : FALSE
    BY <2>2
  <2> QED
    BY <2>1, <2>3, <2>4, TopStep
<1>10. CASE InitFails \/ FinishNew \/ Run
  <2>1. /\ stack = <<>> /\ UNCHANGED <<cmds, listed, errs, stack>>
        /\ phase' \in {"failed", "built", "run"}
        /\ phase' = "built" => phase = "pending" /\ errs = {}
    BY <1>10 DEF InitFails, FinishNew, Run, tree
  <2>2. Frames = {} /\ Frames' = {}
    BY <2>1 DEF Frames, Range
  <2>3. Parts'
    <3>1. Parts
      BY DeclParts
    <3> QED
      BY <2>1, <2>2, <3>1 DEF Parts, Apart, FramesListed, RegsOpen, KidsOpen, DeclOnce,
           DeclPlaced, Placed, Open, Starting, Root
  <2>4. ASSUME phase = "pending", errs = {}
        PROVE  \A d \in Decls : ~Open(d)
    <3>1. PICK depth \in [Decls -> Nat] : \A d \in Decls : \A e \in Nested(d) : depth[e] < depth[d]
      BY DepthOf
    <3> DEFINE S == {d \in Decls : Open(d)}
    <3> SUFFICES ASSUME S # {}
                 PROVE  FALSE
      OBVIOUS
    <3>2. PICK d \in S : \A e \in S : ~(depth[e] < depth[d])
      BY LeastDeep
    <3>3. PICK e \in Nested(d) : Open(e)
      BY <2>1, <2>4, OpenUnder
    <3> QED
      BY <3>1, <3>2, <3>3, ForestFacts
  <2>5. Phases'
    BY <2>1, <2>2, <2>4 DEF Phases, Open
  <2> QED
    BY <2>3, <2>5
<1> QED
  BY <1>1, <1>2, <1>3, <1>4, <1>5, <1>6, <1>7, <1>8, <1>9, <1>10
     DEF Next, CommandRefused, RefuseLate, vars, tree

LEMMA DeclInvariant == Spec => []DeclInv
  BY InitDecl, NextDecls, PTL DEF Spec

-----------------------------------------------------------------------------
(* What the invariant says of the declarations.                            *)

\* A declaration that is neither open nor failed has its one command in the
\* tree: the listed commands that were declared lead to the root.
LEMMA DeclRegistered ==
  ASSUME DeclInv, NEW d \in Decls, ~Open(d), d \notin errs
  PROVE  Registered(d)
<1>1. PICK c \in 1..Len(cmds) : cmds[c].decl = d
  BY DEF Open
<1> DEFINE L == {b \in listed : cmds[b].decl \in Decls}
           S == {Root} \cup L
<1>2. \A b \in L : b \in 1..Len(cmds) /\ Placed(b)
  BY DeclFacts DEF DeclInv, DeclPlaced
<1>3. S \in SUBSET All
  BY <1>2, DeclFacts DEF All, Root
<1>4. ASSUME NEW b \in S \ {Root}
      PROVE  b \in listed /\ cmds[b].parent \in S
  <2>1. b \in L /\ Placed(b) /\ cmds[b].decl \in Decls
    BY <1>2
  <2>2. Nested(cmds[b].decl) \subseteq Decls
    BY <2>1, ForestFacts
  <2> QED
    BY <2>1, <2>2 DEF Placed
<1>5. S \subseteq InTree
  BY <1>3, <1>4 DEF InTree
<1>6. Placed(c)
  BY <1>1 DEF DeclInv, DeclPlaced
<1>7. c \in InTree \ {Root}
  BY <1>1, <1>5, <1>6, DeclFacts DEF Placed
<1>8. Declared(d) = {c}
  <2>1. InTree \subseteq {Root} \cup 1..Len(cmds)
    BY InTreeListed, DeclFacts
  <2> QED
    BY <1>1, <1>7, <2>1 DEF Declared, DeclInv, DeclOnce
<1> QED
  BY <1>1, <1>6, <1>8, FS_Singleton DEF Registered, Placed

\* Reported is what its recursive definition says, which the least set of
\* levels and declarations closed under it solves.
LEMMA ReportedOf ==
  \E rep : /\ \A n \in 0..Cardinality(Decls) :
               rep[n] = errs \cup {e \in Decls : n > 0 /\ Nested(e) \cap rep[n - 1] # {}}
           /\ \A d : Reported(d) <=> d \in rep[Cardinality(Decls)]
<1>1. PICK N \in Nat : N = Cardinality(Decls)
  BY ForestAssumption, FS_CardinalityType
<1> DEFINE P == (0..N) \X (Decls \cup errs)
           F(r) == [n \in 0..N |-> errs \cup {e \in Decls : n > 0 /\ Nested(e) \cap r[n - 1] # {}}]
           Holds(n, e, C) == e \in errs \/ (e \in Decls /\ n > 0 /\ \E f \in Nested(e) : <<n - 1, f>> \in C)
           Closed(C) == \A n \in 0..N, e \in Decls \cup errs : Holds(n, e, C) => <<n, e>> \in C
           L == {q \in P : \A C \in SUBSET P : Closed(C) => q \in C}
           least == [n \in 0..N |-> {e \in Decls \cup errs : <<n, e>> \in L}]
           rep == CHOOSE r : r = F(r)
<1>2. Closed(L)
  OBVIOUS
<1>3. ASSUME NEW n \in 0..N, NEW e \in Decls \cup errs, <<n, e>> \in L
      PROVE  Holds(n, e, L)
  <2> SUFFICES ASSUME ~Holds(n, e, L)
               PROVE  FALSE
    OBVIOUS
  <2> DEFINE C == L \ {<<n, e>>}
  <2>1. C \in SUBSET P
    OBVIOUS
  <2>2. Closed(C)
    BY <1>2
  <2> QED
    BY <1>3, <2>1, <2>2
<1>4. least = F(least)
  <2> SUFFICES ASSUME NEW n \in 0..N
               PROVE  least[n] = errs \cup {e \in Decls : n > 0 /\ Nested(e) \cap least[n - 1] # {}}
    OBVIOUS
  <2>1. \A e \in Decls \cup errs : e \in least[n] <=> Holds(n, e, L)
    <3> HIDE DEF Holds, Closed, L
    <3> QED
      BY <1>2, <1>3 DEF Closed
  <2>2. ASSUME n > 0, NEW e \in Decls
        PROVE  Nested(e) \cap least[n - 1] # {} <=> \E f \in Nested(e) : <<n - 1, f>> \in L
    <3>1. n - 1 \in 0..N /\ Nested(e) \subseteq Decls
      BY <2>2, ForestFacts
    <3> HIDE DEF L
    <3> QED
      BY <3>1
  <2>3. least[n] \subseteq Decls \cup errs
    OBVIOUS
  <2> HIDE DEF L, least
  <2> QED
    BY <2>1, <2>2, <2>3
<1>5. rep = F(rep)
  <2> HIDE DEF F, least
  <2> QED
    BY <1>4
<1>6. \A d : Reported(d) <=> d \in rep[N]
  BY <1>1 DEF Reported
<1>7. \A n \in 0..N : rep[n] = errs \cup {e \in Decls : n > 0 /\ Nested(e) \cap rep[n - 1] # {}}
  <2> HIDE DEF rep
  <2> QED
    BY <1>5
<1> HIDE DEF rep
<1> QED
  BY <1>1, <1>6, <1>7

\* What is still open when nothing is left to register is reported.
LEMMA OpenReported ==
  ASSUME DeclInv, phase = "pending", stack = <<>>, NEW d \in Decls, Open(d)
  PROVE  Reported(d)
<1>1. PICK N \in Nat : N = Cardinality(Decls)
  BY ForestAssumption, FS_CardinalityType
<1>2. PICK rep : /\ \A n \in 0..N :
                      rep[n] = errs \cup {e \in Decls : n > 0 /\ Nested(e) \cap rep[n - 1] # {}}
                 /\ \A e : Reported(e) <=> e \in rep[N]
  BY <1>1, ReportedOf
<1>3. PICK depth \in [Decls -> Nat] : \A e \in Decls :
        depth[e] <= N /\ \A f \in Nested(e) : depth[f] < depth[e]
  BY <1>1, DepthOf
<1> DEFINE S == {e \in Decls : Open(e) /\ \E n \in depth[e]..N : e \notin rep[n]}
<1>4. S = {}
  <2> SUFFICES ASSUME S # {}
               PROVE  FALSE
    OBVIOUS
  <2>1. PICK e \in S : \A f \in S : ~(depth[f] < depth[e])
    BY LeastDeep
  <2>2. PICK n \in depth[e]..N : e \notin rep[n]
    OBVIOUS
  <2>3. PICK f \in Nested(e) : f \in errs \/ Open(f)
    BY OpenUnder
  <2>4. f \in Decls /\ depth[f] < depth[e]
    BY <1>3, <2>3, ForestFacts
  <2>5. n \in 0..N /\ n > 0 /\ n - 1 \in 0..N /\ n - 1 \in depth[f]..N
    BY <1>3, <2>4
  <2>6. f \in rep[n - 1]
    <3>1. errs \subseteq rep[n - 1]
      BY <1>2, <2>5
    <3>2. f \notin S
      BY <2>1, <2>4
    <3> QED
      BY <2>3, <2>4, <2>5, <3>1, <3>2
  <2> QED
    BY <1>2, <2>2, <2>5, <2>6
<1>5. N \in depth[d]..N
  BY <1>3
<1> QED
  BY <1>2, <1>4, <1>5

\* When New has registered what was declared, each declaration has its one
\* command in its place or New reports an error that accounts for it, and an
\* App it returns has them all (registerPendingUnder, app.go).
THEOREM TreeDeclarationsAccounted == Spec => []DeclarationsAccounted
<1>1. DeclInv => DeclarationsAccounted
  <2> SUFFICES ASSUME DeclInv
               PROVE  DeclarationsAccounted
    OBVIOUS
  <2>1. ASSUME phase = "pending", stack = <<>>, NEW d \in Decls
        PROVE  Registered(d) \/ Reported(d)
    <3>1. CASE Open(d)
      BY <2>1, <3>1, OpenReported
    <3>2. CASE d \in errs
      <4>1. PICK N \in Nat : N = Cardinality(Decls)
        BY ForestAssumption, FS_CardinalityType
      <4> QED
        BY <3>2, <4>1, ReportedOf
    <3> QED
      BY <3>1, <3>2, DeclRegistered
  <2>2. ASSUME phase = "built", NEW d \in Decls
        PROVE  Registered(d)
    BY <2>2, DeclRegistered DEF DeclInv
  <2> QED
    BY <2>1, <2>2 DEF DeclarationsAccounted
<1> QED
  BY <1>1, DeclInvariant, PTL
=============================================================================
