------------------------ MODULE ScreenPeers_proofs -------------------------
(***************************************************************************)
(* Proofs about ScreenPeers, for any users, contexts and limits: no thread *)
(* uses a freed context, every context is in the table or being closed, a  *)
(* waiting frame is shown unless its peer is closed, and sound is pulled.  *)
(***************************************************************************)
EXTENDS ScreenPeers, TLAPS

Allocated == {c \in Contexts : owner[c] # None}

\* A context in the table is allocated, for the user it is filed under.
TableAgrees == \A p \in Peers : table[p] # None => owner[table[p]] = p

\* Only allocated contexts have a description, sinks or operations.
SetsAllocated ==
    /\ remote \subseteq Allocated /\ video \subseteq Allocated /\ audio \subseteq Allocated
    /\ \A o \in ops : o[2] \in Allocated

\* What the GUI thread knows at each of its steps.
GuiShape ==
    /\ gui.at # "idle" => gui.peer \in Peers
    /\ lockedBy = "gui" <=> gui.at = "create"
    /\ gui.at = "create" => table[gui.peer] = None
    /\ gui.at \in {"create", "call"} => gui.then \in {"offer", "setOffer", "setAnswer", "watch"}
    /\ gui.at = "call" => gui.then # "watch"
    /\ gui.at \in {"call", "close"} => gui.ctx \in Contexts /\ owner[gui.ctx] = gui.peer
    /\ gui.at = "close" => table[gui.peer] # gui.ctx
    /\ gui.at = "stop" => Allocated = {}

\* A callback runs only while its user still has an allocated context:
\* closing one waits for the callback.
SigShape ==
    /\ sig.at # "idle" => sig.peer \in Peers /\ \E c \in Contexts : owner[c] = sig.peer
    /\ sig.at = "raw" => sig.raw \in Contexts /\ owner[sig.raw] = sig.peer

\* A posted delivery is in the queue.
FramesMarked ==
    /\ frames \subseteq marked
    /\ \A p \in marked : dispatches[p] > 0

\* The inductive invariant.
IInv ==
    /\ TypeOK
    /\ TableAgrees
    /\ SetsAllocated
    /\ GuiShape
    /\ SigShape
    /\ EveryPeerIsKnown
    /\ FramesMarked
    /\ NoFrameOutlivesItsPeer
    /\ AttachedSoundIsPulled

\* Every step keeps the types.
LEMMA TypeOKStep == ASSUME IInv, [Next]_vars PROVE TypeOK'
<1> USE NoneAssumption, LimitAssumption
    DEF IInv, TypeOK, GuiSteps, GuiPlans, SigSteps, Operations, TableAgrees, SetsAllocated, GuiShape, SigShape, FramesMarked, Allocated, tableVars, linkVars, frameVars, GuiAt, GuiIdle, SigAt, SigIdle
<1>1. ASSUME NEW p \in Peers, NEW then \in {"offer", "setOffer", "setAnswer", "watch"}, gui.at \in {"idle", "next"}, EnsurePeer(p, then) PROVE TypeOK'
  BY <1>1 DEF EnsurePeer, LockFree
<1>2. CASE GuiCreate BY <1>2 DEF GuiCreate, Unallocated, LibraryFree
<1>3. CASE GuiCall BY <1>3 DEF GuiCall, LibraryFree
<1>4. ASSUME NEW p \in Peers, RemoteIce(p) PROVE TypeOK'
  BY <1>4 DEF RemoteIce, Idle, LockFree
<1>5. CASE GuiKeepIce BY <1>5 DEF GuiKeepIce, LockFree
<1>6. CASE GuiApplyIce BY <1>6 DEF GuiApplyIce
<1>7. ASSUME NEW p \in Peers, NEW then \in {"done", "watch", "all"}, gui.at \in {"idle", "next"}, Erase(p, then) PROVE TypeOK'
  BY <1>7 DEF Erase, LockFree
<1>8. CASE GuiClose BY <1>8 DEF GuiClose, LibraryFree
<1>9. CASE GuiForget BY <1>9 DEF GuiForget
<1>10. CASE GuiQuiet BY <1>10 DEF GuiQuiet, LockFree
<1>11. CASE GuiStop BY <1>11 DEF GuiStop
<1>12. ASSUME gui.at = "next", gui' = GuiIdle, UNCHANGED <<tableVars, linkVars, frameVars, ops, lockedBy, sig, playing>> PROVE TypeOK'
  BY <1>12
<1>13. ASSUME NEW op \in Operations, NEW c \in Contexts, Succeed(op, c) PROVE TypeOK'
  BY <1>13 DEF Succeed, LibraryFree
<1>14. ASSUME NEW op \in Operations, NEW c \in Contexts, Fail(op, c) PROVE TypeOK'
  BY <1>14 DEF Fail
<1>15. CASE SetLocal BY <1>15 DEF SetLocal
<1>16. CASE DescriptionReady BY <1>16 DEF DescriptionReady, AfterReady
<1>17. CASE Flush BY <1>17 DEF Flush, AfterReady
<1>18. CASE AnswerEnsure
  <2>0. sig.at = "answer" /\ sig.peer \in Peers /\ gui.at # "create"
       /\ UNCHANGED <<linkVars, frameVars, ops, lockedBy, gui, playing>>
    BY <1>18 DEF AnswerEnsure, LockFree
  <2>1. CASE table[sig.peer] # None
    <3>1. /\ UNCHANGED tableVars
          /\ sig' = [sig EXCEPT !.at = "raw", !.raw = table[sig.peer]]
      BY <1>18, <2>1 DEF AnswerEnsure
    <3>2. sig'.at = "raw" /\ sig'.peer = sig.peer /\ sig'.raw = table[sig.peer]
      BY <3>1
    <3>3. QED BY <2>0, <2>1, <3>1, <3>2
  <2>2. CASE table[sig.peer] = None
    <3>1. PICK c \in Unallocated :
            /\ owner' = [owner EXCEPT ![c] = sig.peer]
            /\ table' = [table EXCEPT ![sig.peer] = c]
            /\ sig' = [sig EXCEPT !.at = "raw", !.raw = c]
      BY <1>18, <2>2 DEF AnswerEnsure
    <3>2. c \in Contexts /\ owner[c] = None
      BY DEF Unallocated
    <3>3. /\ \A p \in Peers : table'[p] = IF p = sig.peer THEN c ELSE table[p]
          /\ \A d \in Contexts : owner'[d] = IF d = c THEN sig.peer ELSE owner[d]
          /\ sig'.at = "raw" /\ sig'.peer = sig.peer /\ sig'.raw = c
      BY <2>0, <3>1, <3>2
    <3>4. QED BY <2>0, <2>2, <3>1, <3>2, <3>3
  <2>3. QED BY <2>1, <2>2
<1>19. CASE CreateAnswer BY <1>19 DEF CreateAnswer
<1>20. ASSUME NEW c \in Contexts, NEW kind \in {"video", "audio"}, Track(c, kind) PROVE TypeOK'
  BY <1>20 DEF Track, LibraryFree
<1>21. CASE AttachVideo BY <1>21 DEF AttachVideo
<1>22. CASE AttachAudio BY <1>22 DEF AttachAudio
<1>23. CASE StartPlayout BY <1>23 DEF StartPlayout
<1>24. ASSUME NEW c \in Contexts, Frame(c) PROVE TypeOK'
  BY <1>24 DEF Frame
<1>25. ASSUME NEW p \in Peers, Deliver(p) PROVE TypeOK'
  BY <1>25 DEF Deliver, Idle
<1>26. CASE UNCHANGED vars BY <1>26 DEF vars
<1> QED BY <1>1, <1>2, <1>3, <1>4, <1>5, <1>6, <1>7, <1>8, <1>9, <1>10, <1>11, <1>12, <1>13, <1>14, <1>15, <1>16, <1>17, <1>18, <1>19, <1>20, <1>21, <1>22, <1>23, <1>24, <1>25, <1>26 DEF Next, Handle, ClosePeer, Idle, GuiGoesOn, GuiNext, SigGoesOn

\* Every step keeps the table and the contexts' owners in agreement.
LEMMA TableAgreesStep == ASSUME IInv, [Next]_vars PROVE TableAgrees'
<1> USE NoneAssumption, LimitAssumption
    DEF IInv, TypeOK, TableAgrees, GuiShape, SigShape, Allocated, tableVars, linkVars, frameVars, GuiAt, GuiIdle, SigAt, SigIdle
<1>1. ASSUME NEW p \in Peers, NEW then \in {"offer", "setOffer", "setAnswer", "watch"}, gui.at \in {"idle", "next"}, EnsurePeer(p, then) PROVE TableAgrees'
  BY <1>1 DEF EnsurePeer, LockFree
<1>2. CASE GuiCreate BY <1>2 DEF GuiCreate, Unallocated, LibraryFree
<1>3. CASE GuiCall BY <1>3 DEF GuiCall, LibraryFree
<1>4. ASSUME NEW p \in Peers, RemoteIce(p) PROVE TableAgrees'
  BY <1>4 DEF RemoteIce, Idle, LockFree
<1>5. CASE GuiKeepIce BY <1>5 DEF GuiKeepIce, LockFree
<1>6. CASE GuiApplyIce BY <1>6 DEF GuiApplyIce
<1>7. ASSUME NEW p \in Peers, NEW then \in {"done", "watch", "all"}, gui.at \in {"idle", "next"}, Erase(p, then) PROVE TableAgrees'
  BY <1>7 DEF Erase, LockFree
<1>8. CASE GuiClose BY <1>8 DEF GuiClose, LibraryFree
<1>9. CASE GuiForget BY <1>9 DEF GuiForget
<1>10. CASE GuiQuiet BY <1>10 DEF GuiQuiet, LockFree
<1>11. CASE GuiStop BY <1>11 DEF GuiStop
<1>12. ASSUME gui.at = "next", gui' = GuiIdle, UNCHANGED <<tableVars, linkVars, frameVars, ops, lockedBy, sig, playing>> PROVE TableAgrees'
  BY <1>12
<1>13. ASSUME NEW op \in Operations, NEW c \in Contexts, Succeed(op, c) PROVE TableAgrees'
  BY <1>13 DEF Succeed, LibraryFree
<1>14. ASSUME NEW op \in Operations, NEW c \in Contexts, Fail(op, c) PROVE TableAgrees'
  BY <1>14 DEF Fail
<1>15. CASE SetLocal BY <1>15 DEF SetLocal
<1>16. CASE DescriptionReady BY <1>16 DEF DescriptionReady, AfterReady
<1>17. CASE Flush BY <1>17 DEF Flush, AfterReady
<1>18. CASE AnswerEnsure
  <2>0. sig.at = "answer" /\ sig.peer \in Peers /\ gui.at # "create"
       /\ UNCHANGED <<linkVars, frameVars, ops, lockedBy, gui, playing>>
    BY <1>18 DEF AnswerEnsure, LockFree
  <2>1. CASE table[sig.peer] # None
    <3>1. /\ UNCHANGED tableVars
          /\ sig' = [sig EXCEPT !.at = "raw", !.raw = table[sig.peer]]
      BY <1>18, <2>1 DEF AnswerEnsure
    <3>2. sig'.at = "raw" /\ sig'.peer = sig.peer /\ sig'.raw = table[sig.peer]
      BY <3>1
    <3>3. QED BY <2>0, <2>1, <3>1, <3>2
  <2>2. CASE table[sig.peer] = None
    <3>1. PICK c \in Unallocated :
            /\ owner' = [owner EXCEPT ![c] = sig.peer]
            /\ table' = [table EXCEPT ![sig.peer] = c]
            /\ sig' = [sig EXCEPT !.at = "raw", !.raw = c]
      BY <1>18, <2>2 DEF AnswerEnsure
    <3>2. c \in Contexts /\ owner[c] = None
      BY DEF Unallocated
    <3>3. /\ \A p \in Peers : table'[p] = IF p = sig.peer THEN c ELSE table[p]
          /\ \A d \in Contexts : owner'[d] = IF d = c THEN sig.peer ELSE owner[d]
          /\ sig'.at = "raw" /\ sig'.peer = sig.peer /\ sig'.raw = c
      BY <2>0, <3>1, <3>2
    <3>4. QED BY <2>0, <2>2, <3>1, <3>2, <3>3
  <2>3. QED BY <2>1, <2>2
<1>19. CASE CreateAnswer BY <1>19 DEF CreateAnswer
<1>20. ASSUME NEW c \in Contexts, NEW kind \in {"video", "audio"}, Track(c, kind) PROVE TableAgrees'
  BY <1>20 DEF Track, LibraryFree
<1>21. CASE AttachVideo BY <1>21 DEF AttachVideo
<1>22. CASE AttachAudio BY <1>22 DEF AttachAudio
<1>23. CASE StartPlayout BY <1>23 DEF StartPlayout
<1>24. ASSUME NEW c \in Contexts, Frame(c) PROVE TableAgrees'
  BY <1>24 DEF Frame
<1>25. ASSUME NEW p \in Peers, Deliver(p) PROVE TableAgrees'
  BY <1>25 DEF Deliver, Idle
<1>26. CASE UNCHANGED vars BY <1>26 DEF vars
<1> QED BY <1>1, <1>2, <1>3, <1>4, <1>5, <1>6, <1>7, <1>8, <1>9, <1>10, <1>11, <1>12, <1>13, <1>14, <1>15, <1>16, <1>17, <1>18, <1>19, <1>20, <1>21, <1>22, <1>23, <1>24, <1>25, <1>26 DEF Next, Handle, ClosePeer, Idle, GuiGoesOn, GuiNext, SigGoesOn

\* No step gives a freed context a description, a sink or an operation.
LEMMA SetsAllocatedStep == ASSUME IInv, [Next]_vars PROVE SetsAllocated'
<1> USE NoneAssumption, LimitAssumption
    DEF IInv, TypeOK, SetsAllocated, GuiShape, SigShape, TableAgrees, Allocated, tableVars, linkVars, frameVars, GuiAt, GuiIdle, SigAt, SigIdle
<1>1. ASSUME NEW p \in Peers, NEW then \in {"offer", "setOffer", "setAnswer", "watch"}, gui.at \in {"idle", "next"}, EnsurePeer(p, then) PROVE SetsAllocated'
  BY <1>1 DEF EnsurePeer, LockFree
<1>2. CASE GuiCreate BY <1>2 DEF GuiCreate, Unallocated, LibraryFree
<1>3. CASE GuiCall BY <1>3 DEF GuiCall, LibraryFree
<1>4. ASSUME NEW p \in Peers, RemoteIce(p) PROVE SetsAllocated'
  BY <1>4 DEF RemoteIce, Idle, LockFree
<1>5. CASE GuiKeepIce BY <1>5 DEF GuiKeepIce, LockFree
<1>6. CASE GuiApplyIce BY <1>6 DEF GuiApplyIce
<1>7. ASSUME NEW p \in Peers, NEW then \in {"done", "watch", "all"}, gui.at \in {"idle", "next"}, Erase(p, then) PROVE SetsAllocated'
  BY <1>7 DEF Erase, LockFree
<1>8. CASE GuiClose BY <1>8 DEF GuiClose, LibraryFree
<1>9. CASE GuiForget BY <1>9 DEF GuiForget
<1>10. CASE GuiQuiet BY <1>10 DEF GuiQuiet, LockFree
<1>11. CASE GuiStop BY <1>11 DEF GuiStop
<1>12. ASSUME gui.at = "next", gui' = GuiIdle, UNCHANGED <<tableVars, linkVars, frameVars, ops, lockedBy, sig, playing>> PROVE SetsAllocated'
  BY <1>12
<1>13. ASSUME NEW op \in Operations, NEW c \in Contexts, Succeed(op, c) PROVE SetsAllocated'
  BY <1>13 DEF Succeed, LibraryFree
<1>14. ASSUME NEW op \in Operations, NEW c \in Contexts, Fail(op, c) PROVE SetsAllocated'
  BY <1>14 DEF Fail
<1>15. CASE SetLocal BY <1>15 DEF SetLocal
<1>16. CASE DescriptionReady BY <1>16 DEF DescriptionReady, AfterReady
<1>17. CASE Flush BY <1>17 DEF Flush, AfterReady
<1>18. CASE AnswerEnsure
  <2>0. sig.at = "answer" /\ sig.peer \in Peers /\ gui.at # "create"
       /\ UNCHANGED <<linkVars, frameVars, ops, lockedBy, gui, playing>>
    BY <1>18 DEF AnswerEnsure, LockFree
  <2>1. CASE table[sig.peer] # None
    <3>1. /\ UNCHANGED tableVars
          /\ sig' = [sig EXCEPT !.at = "raw", !.raw = table[sig.peer]]
      BY <1>18, <2>1 DEF AnswerEnsure
    <3>2. sig'.at = "raw" /\ sig'.peer = sig.peer /\ sig'.raw = table[sig.peer]
      BY <3>1
    <3>3. QED BY <2>0, <2>1, <3>1, <3>2
  <2>2. CASE table[sig.peer] = None
    <3>1. PICK c \in Unallocated :
            /\ owner' = [owner EXCEPT ![c] = sig.peer]
            /\ table' = [table EXCEPT ![sig.peer] = c]
            /\ sig' = [sig EXCEPT !.at = "raw", !.raw = c]
      BY <1>18, <2>2 DEF AnswerEnsure
    <3>2. c \in Contexts /\ owner[c] = None
      BY DEF Unallocated
    <3>3. /\ \A p \in Peers : table'[p] = IF p = sig.peer THEN c ELSE table[p]
          /\ \A d \in Contexts : owner'[d] = IF d = c THEN sig.peer ELSE owner[d]
          /\ sig'.at = "raw" /\ sig'.peer = sig.peer /\ sig'.raw = c
      BY <2>0, <3>1, <3>2
    <3>4. QED BY <2>0, <2>2, <3>1, <3>2, <3>3
  <2>3. QED BY <2>1, <2>2
<1>19. CASE CreateAnswer BY <1>19 DEF CreateAnswer
<1>20. ASSUME NEW c \in Contexts, NEW kind \in {"video", "audio"}, Track(c, kind) PROVE SetsAllocated'
  BY <1>20 DEF Track, LibraryFree
<1>21. CASE AttachVideo BY <1>21 DEF AttachVideo
<1>22. CASE AttachAudio BY <1>22 DEF AttachAudio
<1>23. CASE StartPlayout BY <1>23 DEF StartPlayout
<1>24. ASSUME NEW c \in Contexts, Frame(c) PROVE SetsAllocated'
  BY <1>24 DEF Frame
<1>25. ASSUME NEW p \in Peers, Deliver(p) PROVE SetsAllocated'
  BY <1>25 DEF Deliver, Idle
<1>26. CASE UNCHANGED vars BY <1>26 DEF vars
<1> QED BY <1>1, <1>2, <1>3, <1>4, <1>5, <1>6, <1>7, <1>8, <1>9, <1>10, <1>11, <1>12, <1>13, <1>14, <1>15, <1>16, <1>17, <1>18, <1>19, <1>20, <1>21, <1>22, <1>23, <1>24, <1>25, <1>26 DEF Next, Handle, ClosePeer, Idle, GuiGoesOn, GuiNext, SigGoesOn

\* What the GUI thread knows at a step is still so after any step.
LEMMA GuiShapeStep == ASSUME IInv, [Next]_vars PROVE GuiShape'
<1> USE NoneAssumption, LimitAssumption
    DEF IInv, TypeOK, TableAgrees, GuiShape, SigShape, EveryPeerIsKnown, SetsAllocated, Allocated, tableVars, linkVars, frameVars, GuiAt, GuiIdle, SigAt, SigIdle
<1>1. ASSUME NEW p \in Peers, NEW then \in {"offer", "setOffer", "setAnswer", "watch"}, gui.at \in {"idle", "next"}, EnsurePeer(p, then) PROVE GuiShape'
  BY <1>1 DEF EnsurePeer, LockFree
<1>2. CASE GuiCreate BY <1>2 DEF GuiCreate, Unallocated, LibraryFree
<1>3. CASE GuiCall BY <1>3 DEF GuiCall, LibraryFree
<1>4. ASSUME NEW p \in Peers, RemoteIce(p) PROVE GuiShape'
  BY <1>4 DEF RemoteIce, Idle, LockFree
<1>5. CASE GuiKeepIce BY <1>5 DEF GuiKeepIce, LockFree
<1>6. CASE GuiApplyIce BY <1>6 DEF GuiApplyIce
<1>7. ASSUME NEW p \in Peers, NEW then \in {"done", "watch", "all"}, gui.at \in {"idle", "next"}, Erase(p, then) PROVE GuiShape'
  BY <1>7 DEF Erase, LockFree
<1>8. CASE GuiClose BY <1>8 DEF GuiClose, LibraryFree
<1>9. CASE GuiForget BY <1>9 DEF GuiForget
<1>10. CASE GuiQuiet BY <1>10 DEF GuiQuiet, LockFree
<1>11. CASE GuiStop BY <1>11 DEF GuiStop
<1>12. ASSUME gui.at = "next", gui' = GuiIdle, UNCHANGED <<tableVars, linkVars, frameVars, ops, lockedBy, sig, playing>> PROVE GuiShape'
  BY <1>12
<1>13. ASSUME NEW op \in Operations, NEW c \in Contexts, Succeed(op, c) PROVE GuiShape'
  BY <1>13 DEF Succeed, LibraryFree
<1>14. ASSUME NEW op \in Operations, NEW c \in Contexts, Fail(op, c) PROVE GuiShape'
  BY <1>14 DEF Fail
<1>15. CASE SetLocal BY <1>15 DEF SetLocal
<1>16. CASE DescriptionReady BY <1>16 DEF DescriptionReady, AfterReady
<1>17. CASE Flush BY <1>17 DEF Flush, AfterReady
<1>18. CASE AnswerEnsure
  <2>0. sig.at = "answer" /\ sig.peer \in Peers /\ gui.at # "create"
       /\ UNCHANGED <<linkVars, frameVars, ops, lockedBy, gui, playing>>
    BY <1>18 DEF AnswerEnsure, LockFree
  <2>1. CASE table[sig.peer] # None
    <3>1. /\ UNCHANGED tableVars
          /\ sig' = [sig EXCEPT !.at = "raw", !.raw = table[sig.peer]]
      BY <1>18, <2>1 DEF AnswerEnsure
    <3>2. sig'.at = "raw" /\ sig'.peer = sig.peer /\ sig'.raw = table[sig.peer]
      BY <3>1
    <3>3. QED BY <2>0, <2>1, <3>1, <3>2
  <2>2. CASE table[sig.peer] = None
    <3>1. PICK c \in Unallocated :
            /\ owner' = [owner EXCEPT ![c] = sig.peer]
            /\ table' = [table EXCEPT ![sig.peer] = c]
            /\ sig' = [sig EXCEPT !.at = "raw", !.raw = c]
      BY <1>18, <2>2 DEF AnswerEnsure
    <3>2. c \in Contexts /\ owner[c] = None
      BY DEF Unallocated
    <3>3. /\ \A p \in Peers : table'[p] = IF p = sig.peer THEN c ELSE table[p]
          /\ \A d \in Contexts : owner'[d] = IF d = c THEN sig.peer ELSE owner[d]
          /\ sig'.at = "raw" /\ sig'.peer = sig.peer /\ sig'.raw = c
      BY <2>0, <3>1, <3>2
    <3>4. QED BY <2>0, <2>2, <3>1, <3>2, <3>3
  <2>3. QED BY <2>1, <2>2
<1>19. CASE CreateAnswer BY <1>19 DEF CreateAnswer
<1>20. ASSUME NEW c \in Contexts, NEW kind \in {"video", "audio"}, Track(c, kind) PROVE GuiShape'
  BY <1>20 DEF Track, LibraryFree
<1>21. CASE AttachVideo BY <1>21 DEF AttachVideo
<1>22. CASE AttachAudio BY <1>22 DEF AttachAudio
<1>23. CASE StartPlayout BY <1>23 DEF StartPlayout
<1>24. ASSUME NEW c \in Contexts, Frame(c) PROVE GuiShape'
  BY <1>24 DEF Frame
<1>25. ASSUME NEW p \in Peers, Deliver(p) PROVE GuiShape'
  BY <1>25 DEF Deliver, Idle
<1>26. CASE UNCHANGED vars BY <1>26 DEF vars
<1> QED BY <1>1, <1>2, <1>3, <1>4, <1>5, <1>6, <1>7, <1>8, <1>9, <1>10, <1>11, <1>12, <1>13, <1>14, <1>15, <1>16, <1>17, <1>18, <1>19, <1>20, <1>21, <1>22, <1>23, <1>24, <1>25, <1>26 DEF Next, Handle, ClosePeer, Idle, GuiGoesOn, GuiNext, SigGoesOn

\* A running callback keeps its user's context allocated.
LEMMA SigShapeStep == ASSUME IInv, [Next]_vars PROVE SigShape'
<1> USE NoneAssumption, LimitAssumption
    DEF IInv, TypeOK, SigShape, SetsAllocated, GuiShape, TableAgrees, Allocated, tableVars, linkVars, frameVars, GuiAt, GuiIdle, SigAt, SigIdle
<1>1. ASSUME NEW p \in Peers, NEW then \in {"offer", "setOffer", "setAnswer", "watch"}, gui.at \in {"idle", "next"}, EnsurePeer(p, then) PROVE SigShape'
  BY <1>1 DEF EnsurePeer, LockFree
<1>2. CASE GuiCreate BY <1>2 DEF GuiCreate, Unallocated, LibraryFree
<1>3. CASE GuiCall BY <1>3 DEF GuiCall, LibraryFree
<1>4. ASSUME NEW p \in Peers, RemoteIce(p) PROVE SigShape'
  BY <1>4 DEF RemoteIce, Idle, LockFree
<1>5. CASE GuiKeepIce BY <1>5 DEF GuiKeepIce, LockFree
<1>6. CASE GuiApplyIce BY <1>6 DEF GuiApplyIce
<1>7. ASSUME NEW p \in Peers, NEW then \in {"done", "watch", "all"}, gui.at \in {"idle", "next"}, Erase(p, then) PROVE SigShape'
  BY <1>7 DEF Erase, LockFree
<1>8. CASE GuiClose BY <1>8 DEF GuiClose, LibraryFree
<1>9. CASE GuiForget BY <1>9 DEF GuiForget
<1>10. CASE GuiQuiet BY <1>10 DEF GuiQuiet, LockFree
<1>11. CASE GuiStop BY <1>11 DEF GuiStop
<1>12. ASSUME gui.at = "next", gui' = GuiIdle, UNCHANGED <<tableVars, linkVars, frameVars, ops, lockedBy, sig, playing>> PROVE SigShape'
  BY <1>12
<1>13. ASSUME NEW op \in Operations, NEW c \in Contexts, Succeed(op, c) PROVE SigShape'
  BY <1>13 DEF Succeed, LibraryFree
<1>14. ASSUME NEW op \in Operations, NEW c \in Contexts, Fail(op, c) PROVE SigShape'
  BY <1>14 DEF Fail
<1>15. CASE SetLocal BY <1>15 DEF SetLocal
<1>16. CASE DescriptionReady BY <1>16 DEF DescriptionReady, AfterReady
<1>17. CASE Flush BY <1>17 DEF Flush, AfterReady
<1>18. CASE AnswerEnsure
  <2>0. sig.at = "answer" /\ sig.peer \in Peers /\ gui.at # "create"
       /\ UNCHANGED <<linkVars, frameVars, ops, lockedBy, gui, playing>>
    BY <1>18 DEF AnswerEnsure, LockFree
  <2>1. CASE table[sig.peer] # None
    <3>1. /\ UNCHANGED tableVars
          /\ sig' = [sig EXCEPT !.at = "raw", !.raw = table[sig.peer]]
      BY <1>18, <2>1 DEF AnswerEnsure
    <3>2. sig'.at = "raw" /\ sig'.peer = sig.peer /\ sig'.raw = table[sig.peer]
      BY <3>1
    <3>3. QED BY <2>0, <2>1, <3>1, <3>2
  <2>2. CASE table[sig.peer] = None
    <3>1. PICK c \in Unallocated :
            /\ owner' = [owner EXCEPT ![c] = sig.peer]
            /\ table' = [table EXCEPT ![sig.peer] = c]
            /\ sig' = [sig EXCEPT !.at = "raw", !.raw = c]
      BY <1>18, <2>2 DEF AnswerEnsure
    <3>2. c \in Contexts /\ owner[c] = None
      BY DEF Unallocated
    <3>3. /\ \A p \in Peers : table'[p] = IF p = sig.peer THEN c ELSE table[p]
          /\ \A d \in Contexts : owner'[d] = IF d = c THEN sig.peer ELSE owner[d]
          /\ sig'.at = "raw" /\ sig'.peer = sig.peer /\ sig'.raw = c
      BY <2>0, <3>1, <3>2
    <3>4. QED BY <2>0, <2>2, <3>1, <3>2, <3>3
  <2>3. QED BY <2>1, <2>2
<1>19. CASE CreateAnswer BY <1>19 DEF CreateAnswer
<1>20. ASSUME NEW c \in Contexts, NEW kind \in {"video", "audio"}, Track(c, kind) PROVE SigShape'
  BY <1>20 DEF Track, LibraryFree
<1>21. CASE AttachVideo BY <1>21 DEF AttachVideo
<1>22. CASE AttachAudio BY <1>22 DEF AttachAudio
<1>23. CASE StartPlayout BY <1>23 DEF StartPlayout
<1>24. ASSUME NEW c \in Contexts, Frame(c) PROVE SigShape'
  BY <1>24 DEF Frame
<1>25. ASSUME NEW p \in Peers, Deliver(p) PROVE SigShape'
  BY <1>25 DEF Deliver, Idle
<1>26. CASE UNCHANGED vars BY <1>26 DEF vars
<1> QED BY <1>1, <1>2, <1>3, <1>4, <1>5, <1>6, <1>7, <1>8, <1>9, <1>10, <1>11, <1>12, <1>13, <1>14, <1>15, <1>16, <1>17, <1>18, <1>19, <1>20, <1>21, <1>22, <1>23, <1>24, <1>25, <1>26 DEF Next, Handle, ClosePeer, Idle, GuiGoesOn, GuiNext, SigGoesOn

\* No step loses a context: a new one is filed, an erased one is being closed.
LEMMA EveryPeerIsKnownStep == ASSUME IInv, [Next]_vars PROVE EveryPeerIsKnown'
<1> USE NoneAssumption, LimitAssumption
    DEF IInv, TypeOK, EveryPeerIsKnown, GuiShape, TableAgrees, SigShape, Allocated, tableVars, linkVars, frameVars, GuiAt, GuiIdle, SigAt, SigIdle
<1>1. ASSUME NEW p \in Peers, NEW then \in {"offer", "setOffer", "setAnswer", "watch"}, gui.at \in {"idle", "next"}, EnsurePeer(p, then) PROVE EveryPeerIsKnown'
  BY <1>1 DEF EnsurePeer, LockFree
<1>2. CASE GuiCreate BY <1>2 DEF GuiCreate, Unallocated, LibraryFree
<1>3. CASE GuiCall BY <1>3 DEF GuiCall, LibraryFree
<1>4. ASSUME NEW p \in Peers, RemoteIce(p) PROVE EveryPeerIsKnown'
  BY <1>4 DEF RemoteIce, Idle, LockFree
<1>5. CASE GuiKeepIce BY <1>5 DEF GuiKeepIce, LockFree
<1>6. CASE GuiApplyIce BY <1>6 DEF GuiApplyIce
<1>7. ASSUME NEW p \in Peers, NEW then \in {"done", "watch", "all"}, gui.at \in {"idle", "next"}, Erase(p, then) PROVE EveryPeerIsKnown'
  BY <1>7 DEF Erase, LockFree
<1>8. CASE GuiClose BY <1>8 DEF GuiClose, LibraryFree
<1>9. CASE GuiForget BY <1>9 DEF GuiForget
<1>10. CASE GuiQuiet BY <1>10 DEF GuiQuiet, LockFree
<1>11. CASE GuiStop BY <1>11 DEF GuiStop
<1>12. ASSUME gui.at = "next", gui' = GuiIdle, UNCHANGED <<tableVars, linkVars, frameVars, ops, lockedBy, sig, playing>> PROVE EveryPeerIsKnown'
  BY <1>12
<1>13. ASSUME NEW op \in Operations, NEW c \in Contexts, Succeed(op, c) PROVE EveryPeerIsKnown'
  BY <1>13 DEF Succeed, LibraryFree
<1>14. ASSUME NEW op \in Operations, NEW c \in Contexts, Fail(op, c) PROVE EveryPeerIsKnown'
  BY <1>14 DEF Fail
<1>15. CASE SetLocal BY <1>15 DEF SetLocal
<1>16. CASE DescriptionReady BY <1>16 DEF DescriptionReady, AfterReady
<1>17. CASE Flush BY <1>17 DEF Flush, AfterReady
<1>18. CASE AnswerEnsure
  <2>0. sig.at = "answer" /\ sig.peer \in Peers /\ gui.at # "create"
       /\ UNCHANGED <<linkVars, frameVars, ops, lockedBy, gui, playing>>
    BY <1>18 DEF AnswerEnsure, LockFree
  <2>1. CASE table[sig.peer] # None
    <3>1. /\ UNCHANGED tableVars
          /\ sig' = [sig EXCEPT !.at = "raw", !.raw = table[sig.peer]]
      BY <1>18, <2>1 DEF AnswerEnsure
    <3>2. sig'.at = "raw" /\ sig'.peer = sig.peer /\ sig'.raw = table[sig.peer]
      BY <3>1
    <3>3. QED BY <2>0, <2>1, <3>1, <3>2
  <2>2. CASE table[sig.peer] = None
    <3>1. PICK c \in Unallocated :
            /\ owner' = [owner EXCEPT ![c] = sig.peer]
            /\ table' = [table EXCEPT ![sig.peer] = c]
            /\ sig' = [sig EXCEPT !.at = "raw", !.raw = c]
      BY <1>18, <2>2 DEF AnswerEnsure
    <3>2. c \in Contexts /\ owner[c] = None
      BY DEF Unallocated
    <3>3. /\ \A p \in Peers : table'[p] = IF p = sig.peer THEN c ELSE table[p]
          /\ \A d \in Contexts : owner'[d] = IF d = c THEN sig.peer ELSE owner[d]
          /\ sig'.at = "raw" /\ sig'.peer = sig.peer /\ sig'.raw = c
      BY <2>0, <3>1, <3>2
    <3>4. QED BY <2>0, <2>2, <3>1, <3>2, <3>3
  <2>3. QED BY <2>1, <2>2
<1>19. CASE CreateAnswer BY <1>19 DEF CreateAnswer
<1>20. ASSUME NEW c \in Contexts, NEW kind \in {"video", "audio"}, Track(c, kind) PROVE EveryPeerIsKnown'
  BY <1>20 DEF Track, LibraryFree
<1>21. CASE AttachVideo BY <1>21 DEF AttachVideo
<1>22. CASE AttachAudio BY <1>22 DEF AttachAudio
<1>23. CASE StartPlayout BY <1>23 DEF StartPlayout
<1>24. ASSUME NEW c \in Contexts, Frame(c) PROVE EveryPeerIsKnown'
  BY <1>24 DEF Frame
<1>25. ASSUME NEW p \in Peers, Deliver(p) PROVE EveryPeerIsKnown'
  BY <1>25 DEF Deliver, Idle
<1>26. CASE UNCHANGED vars BY <1>26 DEF vars
<1> QED BY <1>1, <1>2, <1>3, <1>4, <1>5, <1>6, <1>7, <1>8, <1>9, <1>10, <1>11, <1>12, <1>13, <1>14, <1>15, <1>16, <1>17, <1>18, <1>19, <1>20, <1>21, <1>22, <1>23, <1>24, <1>25, <1>26 DEF Next, Handle, ClosePeer, Idle, GuiGoesOn, GuiNext, SigGoesOn

\* A mark of a posted delivery goes when the delivery does.
LEMMA FramesMarkedStep == ASSUME IInv, [Next]_vars PROVE FramesMarked'
<1> USE NoneAssumption, LimitAssumption
    DEF IInv, GuiShape, TypeOK, FramesMarked, SetsAllocated, TableAgrees, SigShape, Allocated, tableVars, linkVars, frameVars, GuiAt, GuiIdle, SigAt, SigIdle
<1>1. ASSUME NEW p \in Peers, NEW then \in {"offer", "setOffer", "setAnswer", "watch"}, gui.at \in {"idle", "next"}, EnsurePeer(p, then) PROVE FramesMarked'
  BY <1>1 DEF EnsurePeer, LockFree
<1>2. CASE GuiCreate BY <1>2 DEF GuiCreate, Unallocated, LibraryFree
<1>3. CASE GuiCall BY <1>3 DEF GuiCall, LibraryFree
<1>4. ASSUME NEW p \in Peers, RemoteIce(p) PROVE FramesMarked'
  BY <1>4 DEF RemoteIce, Idle, LockFree
<1>5. CASE GuiKeepIce BY <1>5 DEF GuiKeepIce, LockFree
<1>6. CASE GuiApplyIce BY <1>6 DEF GuiApplyIce
<1>7. ASSUME NEW p \in Peers, NEW then \in {"done", "watch", "all"}, gui.at \in {"idle", "next"}, Erase(p, then) PROVE FramesMarked'
  BY <1>7 DEF Erase, LockFree
<1>8. CASE GuiClose BY <1>8 DEF GuiClose, LibraryFree
<1>9. CASE GuiForget BY <1>9 DEF GuiForget
<1>10. CASE GuiQuiet BY <1>10 DEF GuiQuiet, LockFree
<1>11. CASE GuiStop BY <1>11 DEF GuiStop
<1>12. ASSUME gui.at = "next", gui' = GuiIdle, UNCHANGED <<tableVars, linkVars, frameVars, ops, lockedBy, sig, playing>> PROVE FramesMarked'
  BY <1>12
<1>13. ASSUME NEW op \in Operations, NEW c \in Contexts, Succeed(op, c) PROVE FramesMarked'
  BY <1>13 DEF Succeed, LibraryFree
<1>14. ASSUME NEW op \in Operations, NEW c \in Contexts, Fail(op, c) PROVE FramesMarked'
  BY <1>14 DEF Fail
<1>15. CASE SetLocal BY <1>15 DEF SetLocal
<1>16. CASE DescriptionReady BY <1>16 DEF DescriptionReady, AfterReady
<1>17. CASE Flush BY <1>17 DEF Flush, AfterReady
<1>18. CASE AnswerEnsure
  <2>0. sig.at = "answer" /\ sig.peer \in Peers /\ gui.at # "create"
       /\ UNCHANGED <<linkVars, frameVars, ops, lockedBy, gui, playing>>
    BY <1>18 DEF AnswerEnsure, LockFree
  <2>1. CASE table[sig.peer] # None
    <3>1. /\ UNCHANGED tableVars
          /\ sig' = [sig EXCEPT !.at = "raw", !.raw = table[sig.peer]]
      BY <1>18, <2>1 DEF AnswerEnsure
    <3>2. sig'.at = "raw" /\ sig'.peer = sig.peer /\ sig'.raw = table[sig.peer]
      BY <3>1
    <3>3. QED BY <2>0, <2>1, <3>1, <3>2
  <2>2. CASE table[sig.peer] = None
    <3>1. PICK c \in Unallocated :
            /\ owner' = [owner EXCEPT ![c] = sig.peer]
            /\ table' = [table EXCEPT ![sig.peer] = c]
            /\ sig' = [sig EXCEPT !.at = "raw", !.raw = c]
      BY <1>18, <2>2 DEF AnswerEnsure
    <3>2. c \in Contexts /\ owner[c] = None
      BY DEF Unallocated
    <3>3. /\ \A p \in Peers : table'[p] = IF p = sig.peer THEN c ELSE table[p]
          /\ \A d \in Contexts : owner'[d] = IF d = c THEN sig.peer ELSE owner[d]
          /\ sig'.at = "raw" /\ sig'.peer = sig.peer /\ sig'.raw = c
      BY <2>0, <3>1, <3>2
    <3>4. QED BY <2>0, <2>2, <3>1, <3>2, <3>3
  <2>3. QED BY <2>1, <2>2
<1>19. CASE CreateAnswer BY <1>19 DEF CreateAnswer
<1>20. ASSUME NEW c \in Contexts, NEW kind \in {"video", "audio"}, Track(c, kind) PROVE FramesMarked'
  BY <1>20 DEF Track, LibraryFree
<1>21. CASE AttachVideo BY <1>21 DEF AttachVideo
<1>22. CASE AttachAudio BY <1>22 DEF AttachAudio
<1>23. CASE StartPlayout BY <1>23 DEF StartPlayout
<1>24. ASSUME NEW c \in Contexts, Frame(c) PROVE FramesMarked'
  BY <1>24 DEF Frame
<1>25. ASSUME NEW p \in Peers, Deliver(p) PROVE FramesMarked'
  BY <1>25 DEF Deliver, Idle
<1>26. CASE UNCHANGED vars BY <1>26 DEF vars
<1> QED BY <1>1, <1>2, <1>3, <1>4, <1>5, <1>6, <1>7, <1>8, <1>9, <1>10, <1>11, <1>12, <1>13, <1>14, <1>15, <1>16, <1>17, <1>18, <1>19, <1>20, <1>21, <1>22, <1>23, <1>24, <1>25, <1>26 DEF Next, Handle, ClosePeer, Idle, GuiGoesOn, GuiNext, SigGoesOn

\* Every step keeps the waiting frames within the peers that have a video.
LEMMA NoFrameOutlivesItsPeerStep == ASSUME IInv, [Next]_vars PROVE NoFrameOutlivesItsPeer'
<1> USE NoneAssumption, LimitAssumption
    DEF IInv, TypeOK, NoFrameOutlivesItsPeer, GuiShape, TableAgrees, SetsAllocated, EveryPeerIsKnown, SigShape, Allocated, tableVars, linkVars, frameVars, GuiAt, GuiIdle, SigAt, SigIdle
<1>1. ASSUME NEW p \in Peers, NEW then \in {"offer", "setOffer", "setAnswer", "watch"}, gui.at \in {"idle", "next"}, EnsurePeer(p, then) PROVE NoFrameOutlivesItsPeer'
  BY <1>1 DEF EnsurePeer, LockFree
<1>2. CASE GuiCreate BY <1>2 DEF GuiCreate, Unallocated, LibraryFree
<1>3. CASE GuiCall BY <1>3 DEF GuiCall, LibraryFree
<1>4. ASSUME NEW p \in Peers, RemoteIce(p) PROVE NoFrameOutlivesItsPeer'
  BY <1>4 DEF RemoteIce, Idle, LockFree
<1>5. CASE GuiKeepIce BY <1>5 DEF GuiKeepIce, LockFree
<1>6. CASE GuiApplyIce BY <1>6 DEF GuiApplyIce
<1>7. ASSUME NEW p \in Peers, NEW then \in {"done", "watch", "all"}, gui.at \in {"idle", "next"}, Erase(p, then) PROVE NoFrameOutlivesItsPeer'
  BY <1>7 DEF Erase, LockFree
<1>8. CASE GuiClose BY <1>8 DEF GuiClose, LibraryFree
<1>9. CASE GuiForget BY <1>9 DEF GuiForget
<1>10. CASE GuiQuiet BY <1>10 DEF GuiQuiet, LockFree
<1>11. CASE GuiStop BY <1>11 DEF GuiStop
<1>12. ASSUME gui.at = "next", gui' = GuiIdle, UNCHANGED <<tableVars, linkVars, frameVars, ops, lockedBy, sig, playing>> PROVE NoFrameOutlivesItsPeer'
  BY <1>12
<1>13. ASSUME NEW op \in Operations, NEW c \in Contexts, Succeed(op, c) PROVE NoFrameOutlivesItsPeer'
  BY <1>13 DEF Succeed, LibraryFree
<1>14. ASSUME NEW op \in Operations, NEW c \in Contexts, Fail(op, c) PROVE NoFrameOutlivesItsPeer'
  BY <1>14 DEF Fail
<1>15. CASE SetLocal BY <1>15 DEF SetLocal
<1>16. CASE DescriptionReady BY <1>16 DEF DescriptionReady, AfterReady
<1>17. CASE Flush BY <1>17 DEF Flush, AfterReady
<1>18. CASE AnswerEnsure
  <2>0. sig.at = "answer" /\ sig.peer \in Peers /\ gui.at # "create"
       /\ UNCHANGED <<linkVars, frameVars, ops, lockedBy, gui, playing>>
    BY <1>18 DEF AnswerEnsure, LockFree
  <2>1. CASE table[sig.peer] # None
    <3>1. /\ UNCHANGED tableVars
          /\ sig' = [sig EXCEPT !.at = "raw", !.raw = table[sig.peer]]
      BY <1>18, <2>1 DEF AnswerEnsure
    <3>2. sig'.at = "raw" /\ sig'.peer = sig.peer /\ sig'.raw = table[sig.peer]
      BY <3>1
    <3>3. QED BY <2>0, <2>1, <3>1, <3>2
  <2>2. CASE table[sig.peer] = None
    <3>1. PICK c \in Unallocated :
            /\ owner' = [owner EXCEPT ![c] = sig.peer]
            /\ table' = [table EXCEPT ![sig.peer] = c]
            /\ sig' = [sig EXCEPT !.at = "raw", !.raw = c]
      BY <1>18, <2>2 DEF AnswerEnsure
    <3>2. c \in Contexts /\ owner[c] = None
      BY DEF Unallocated
    <3>3. /\ \A p \in Peers : table'[p] = IF p = sig.peer THEN c ELSE table[p]
          /\ \A d \in Contexts : owner'[d] = IF d = c THEN sig.peer ELSE owner[d]
          /\ sig'.at = "raw" /\ sig'.peer = sig.peer /\ sig'.raw = c
      BY <2>0, <3>1, <3>2
    <3>4. QED BY <2>0, <2>2, <3>1, <3>2, <3>3
  <2>3. QED BY <2>1, <2>2
<1>19. CASE CreateAnswer BY <1>19 DEF CreateAnswer
<1>20. ASSUME NEW c \in Contexts, NEW kind \in {"video", "audio"}, Track(c, kind) PROVE NoFrameOutlivesItsPeer'
  BY <1>20 DEF Track, LibraryFree
<1>21. CASE AttachVideo BY <1>21 DEF AttachVideo
<1>22. CASE AttachAudio BY <1>22 DEF AttachAudio
<1>23. CASE StartPlayout BY <1>23 DEF StartPlayout
<1>24. ASSUME NEW c \in Contexts, Frame(c) PROVE NoFrameOutlivesItsPeer'
  BY <1>24 DEF Frame
<1>25. ASSUME NEW p \in Peers, Deliver(p) PROVE NoFrameOutlivesItsPeer'
  BY <1>25 DEF Deliver, Idle
<1>26. CASE UNCHANGED vars BY <1>26 DEF vars
<1> QED BY <1>1, <1>2, <1>3, <1>4, <1>5, <1>6, <1>7, <1>8, <1>9, <1>10, <1>11, <1>12, <1>13, <1>14, <1>15, <1>16, <1>17, <1>18, <1>19, <1>20, <1>21, <1>22, <1>23, <1>24, <1>25, <1>26 DEF Next, Handle, ClosePeer, Idle, GuiGoesOn, GuiNext, SigGoesOn

\* Only a peer's own callback may have yet to start the device.
LEMMA AttachedSoundIsPulledStep == ASSUME IInv, [Next]_vars PROVE AttachedSoundIsPulled'
<1> USE NoneAssumption, LimitAssumption
    DEF IInv, TypeOK, AttachedSoundIsPulled, TableAgrees, SetsAllocated, GuiShape, SigShape, Allocated, tableVars, linkVars, frameVars, GuiAt, GuiIdle, SigAt, SigIdle
<1>1. ASSUME NEW p \in Peers, NEW then \in {"offer", "setOffer", "setAnswer", "watch"}, gui.at \in {"idle", "next"}, EnsurePeer(p, then) PROVE AttachedSoundIsPulled'
  BY <1>1 DEF EnsurePeer, LockFree
<1>2. CASE GuiCreate BY <1>2 DEF GuiCreate, Unallocated, LibraryFree
<1>3. CASE GuiCall BY <1>3 DEF GuiCall, LibraryFree
<1>4. ASSUME NEW p \in Peers, RemoteIce(p) PROVE AttachedSoundIsPulled'
  BY <1>4 DEF RemoteIce, Idle, LockFree
<1>5. CASE GuiKeepIce BY <1>5 DEF GuiKeepIce, LockFree
<1>6. CASE GuiApplyIce BY <1>6 DEF GuiApplyIce
<1>7. ASSUME NEW p \in Peers, NEW then \in {"done", "watch", "all"}, gui.at \in {"idle", "next"}, Erase(p, then) PROVE AttachedSoundIsPulled'
  BY <1>7 DEF Erase, LockFree
<1>8. CASE GuiClose BY <1>8 DEF GuiClose, LibraryFree
<1>9. CASE GuiForget BY <1>9 DEF GuiForget
<1>10. CASE GuiQuiet BY <1>10 DEF GuiQuiet, LockFree
<1>11. CASE GuiStop BY <1>11 DEF GuiStop
<1>12. ASSUME gui.at = "next", gui' = GuiIdle, UNCHANGED <<tableVars, linkVars, frameVars, ops, lockedBy, sig, playing>> PROVE AttachedSoundIsPulled'
  BY <1>12
<1>13. ASSUME NEW op \in Operations, NEW c \in Contexts, Succeed(op, c) PROVE AttachedSoundIsPulled'
  BY <1>13 DEF Succeed, LibraryFree
<1>14. ASSUME NEW op \in Operations, NEW c \in Contexts, Fail(op, c) PROVE AttachedSoundIsPulled'
  BY <1>14 DEF Fail
<1>15. CASE SetLocal BY <1>15 DEF SetLocal
<1>16. CASE DescriptionReady BY <1>16 DEF DescriptionReady, AfterReady
<1>17. CASE Flush BY <1>17 DEF Flush, AfterReady
<1>18. CASE AnswerEnsure
  <2>0. sig.at = "answer" /\ sig.peer \in Peers /\ gui.at # "create"
       /\ UNCHANGED <<linkVars, frameVars, ops, lockedBy, gui, playing>>
    BY <1>18 DEF AnswerEnsure, LockFree
  <2>1. CASE table[sig.peer] # None
    <3>1. /\ UNCHANGED tableVars
          /\ sig' = [sig EXCEPT !.at = "raw", !.raw = table[sig.peer]]
      BY <1>18, <2>1 DEF AnswerEnsure
    <3>2. sig'.at = "raw" /\ sig'.peer = sig.peer /\ sig'.raw = table[sig.peer]
      BY <3>1
    <3>3. QED BY <2>0, <2>1, <3>1, <3>2
  <2>2. CASE table[sig.peer] = None
    <3>1. PICK c \in Unallocated :
            /\ owner' = [owner EXCEPT ![c] = sig.peer]
            /\ table' = [table EXCEPT ![sig.peer] = c]
            /\ sig' = [sig EXCEPT !.at = "raw", !.raw = c]
      BY <1>18, <2>2 DEF AnswerEnsure
    <3>2. c \in Contexts /\ owner[c] = None
      BY DEF Unallocated
    <3>3. /\ \A p \in Peers : table'[p] = IF p = sig.peer THEN c ELSE table[p]
          /\ \A d \in Contexts : owner'[d] = IF d = c THEN sig.peer ELSE owner[d]
          /\ sig'.at = "raw" /\ sig'.peer = sig.peer /\ sig'.raw = c
      BY <2>0, <3>1, <3>2
    <3>4. QED BY <2>0, <2>2, <3>1, <3>2, <3>3
  <2>3. QED BY <2>1, <2>2
<1>19. CASE CreateAnswer BY <1>19 DEF CreateAnswer
<1>20. ASSUME NEW c \in Contexts, NEW kind \in {"video", "audio"}, Track(c, kind) PROVE AttachedSoundIsPulled'
  BY <1>20 DEF Track, LibraryFree
<1>21. CASE AttachVideo BY <1>21 DEF AttachVideo
<1>22. CASE AttachAudio BY <1>22 DEF AttachAudio
<1>23. CASE StartPlayout BY <1>23 DEF StartPlayout
<1>24. ASSUME NEW c \in Contexts, Frame(c) PROVE AttachedSoundIsPulled'
  BY <1>24 DEF Frame
<1>25. ASSUME NEW p \in Peers, Deliver(p) PROVE AttachedSoundIsPulled'
  BY <1>25 DEF Deliver, Idle
<1>26. CASE UNCHANGED vars BY <1>26 DEF vars
<1> QED BY <1>1, <1>2, <1>3, <1>4, <1>5, <1>6, <1>7, <1>8, <1>9, <1>10, <1>11, <1>12, <1>13, <1>14, <1>15, <1>16, <1>17, <1>18, <1>19, <1>20, <1>21, <1>22, <1>23, <1>24, <1>25, <1>26 DEF Next, Handle, ClosePeer, Idle, GuiGoesOn, GuiNext, SigGoesOn

\* The invariant holds in every reachable state.
THEOREM Inductive == Init /\ [][Next]_vars => []IInv
<1>1. Init => IInv
  <2> SUFFICES ASSUME Init PROVE IInv
    OBVIOUS
  <2> USE NoneAssumption, LimitAssumption DEF Init, GuiAt, GuiIdle, SigAt, SigIdle
  <2>1. TypeOK
    <3>1. table \in [Peers -> Contexts \cup {None}] /\ owner \in [Contexts -> Peers \cup {None}]
      OBVIOUS
    <3>2. waiting \in [Contexts -> 0..MaxPending]
      OBVIOUS
    <3>3. dispatches \in [Peers -> 0..MaxDispatches]
      OBVIOUS
    <3>4. gui \in [at : GuiSteps, peer : Peers \cup {None}, ctx : Contexts \cup {None}, then : GuiPlans]
      BY DEF GuiSteps, GuiPlans
    <3>5. sig \in [at : SigSteps, peer : Peers \cup {None}, op : Operations, raw : Contexts \cup {None}]
      BY DEF SigSteps, Operations
    <3>6. /\ remote \subseteq Contexts /\ ready \subseteq Contexts
          /\ video \subseteq Contexts /\ audio \subseteq Contexts
          /\ ops \subseteq Operations \X Contexts
          /\ frames \subseteq Peers /\ marked \subseteq Peers
      OBVIOUS
    <3>7. lockedBy \in {"nobody", "gui"} /\ playing \in BOOLEAN
      OBVIOUS
    <3>8. QED BY <3>1, <3>2, <3>3, <3>4, <3>5, <3>6, <3>7 DEF TypeOK
  <2>2. TableAgrees BY DEF TableAgrees
  <2>3. SetsAllocated BY DEF SetsAllocated
  <2>4. GuiShape BY DEF GuiShape
  <2>5. SigShape BY DEF SigShape
  <2>6. EveryPeerIsKnown BY DEF EveryPeerIsKnown
  <2>7. FramesMarked BY DEF FramesMarked
  <2>8. NoFrameOutlivesItsPeer BY DEF NoFrameOutlivesItsPeer
  <2>9. AttachedSoundIsPulled BY DEF AttachedSoundIsPulled
  <2>10. QED BY <2>1, <2>2, <2>3, <2>4, <2>5, <2>6, <2>7, <2>8, <2>9 DEF IInv
<1>2. IInv /\ [Next]_vars => IInv'
  BY TypeOKStep, TableAgreesStep, SetsAllocatedStep, GuiShapeStep, SigShapeStep,
     EveryPeerIsKnownStep, FramesMarkedStep, NoFrameOutlivesItsPeerStep,
     AttachedSoundIsPulledStep DEF IInv
<1>3. QED BY <1>1, <1>2, PTL

\* Nothing the mailbox knows of changes while the table and the frames stay
\* and no closing begins or ends.
LEMMA NothingSeen ==
    ASSUME UNCHANGED <<table, frames>>,
           gui' = gui \/ (/\ gui.at \notin {"close", "forget"}
                          /\ gui'.at \notin {"close", "forget"})
    PROVE  UNCHANGED <<Connected, frames>>
  BY DEF Connected

\* Every step is a step of the mailbox or leaves it alone.
LEMMA MailboxStep == ASSUME IInv, [Next]_vars PROVE [Mailbox!Next]_<<Connected, frames>>
<1> USE DEF GuiAt, GuiIdle
<1>1. ASSUME NEW p \in Peers, NEW then \in {"offer", "setOffer", "setAnswer", "watch"},
             gui.at \in {"idle", "next"}, EnsurePeer(p, then)
      PROVE  UNCHANGED <<Connected, frames>>
  <2>1. UNCHANGED <<table, frames>> /\ gui'.at \notin {"close", "forget"}
    BY <1>1 DEF EnsurePeer, tableVars, frameVars
  <2>2. QED BY <1>1, <2>1, NothingSeen
<1>2. ASSUME GuiCreate PROVE Mailbox!Next
  <2>1. PICK c \in Contexts : table' = [table EXCEPT ![gui.peer] = c]
    BY <1>2 DEF GuiCreate, Unallocated
  <2>2. gui.at = "create" /\ gui'.at \notin {"close", "forget"} /\ frames' = frames
    BY <1>2 DEF GuiCreate, frameVars
  <2>3. gui.peer \in Peers /\ table[gui.peer] = None /\ gui.peer \notin frames
    BY <2>2 DEF IInv, GuiShape, NoFrameOutlivesItsPeer
  <2>4. \A p \in Peers : table'[p] = IF p = gui.peer THEN c ELSE table[p]
    BY <2>1 DEF IInv, TypeOK
  <2>5. Connected' = Connected \cup {gui.peer} /\ gui.peer \notin Connected
    BY <2>2, <2>3, <2>4, NoneAssumption DEF Connected
  <2>6. Mailbox!Open(gui.peer)
    BY <2>2, <2>5 DEF Mailbox!Open
  <2>7. QED BY <2>3, <2>6 DEF Mailbox!Next
<1>3. CASE GuiCall \/ GuiKeepIce \/ GuiApplyIce \/ GuiQuiet \/ GuiStop
  <2>1. UNCHANGED <<table, frames>> /\ gui.at \notin {"close", "forget"}
       /\ gui'.at \notin {"close", "forget"}
    BY <1>3 DEF GuiCall, GuiKeepIce, GuiApplyIce, GuiQuiet, GuiStop, tableVars, frameVars,
                IInv, TypeOK
  <2>2. QED BY <2>1, NothingSeen
<1>4. ASSUME NEW p \in Peers, RemoteIce(p) PROVE UNCHANGED <<Connected, frames>>
  <2>1. UNCHANGED <<table, frames>> /\ gui.at \notin {"close", "forget"}
       /\ gui'.at \notin {"close", "forget"}
    BY <1>4 DEF RemoteIce, Idle, tableVars, frameVars
  <2>2. QED BY <2>1, NothingSeen
<1>5. ASSUME NEW p \in Peers, NEW then \in {"done", "watch", "all"},
             gui.at \in {"idle", "next"}, Erase(p, then)
      PROVE  UNCHANGED <<Connected, frames>>
  <2>1. /\ frames' = frames
        /\ table' = [table EXCEPT ![p] = None]
        /\ gui' = GuiAt(IF table[p] = None THEN "forget" ELSE "close", p, table[p], then)
    BY <1>5 DEF Erase, frameVars
  <2>2. \A q \in Peers : table'[q] = IF q = p THEN None ELSE table[q]
    BY <2>1 DEF IInv, TypeOK
  <2>3. /\ gui'.peer = p /\ (gui'.at = "close" <=> table[p] # None)
        /\ gui'.at = "forget" => p \notin frames
    BY <1>5, <2>1 DEF IInv, NoFrameOutlivesItsPeer
  <2>4. \A q \in Peers : q \in Connected <=> table[q] # None
    BY <1>5 DEF Connected
  <2>5. \A q \in Peers : q \in Connected' <=> (table[q] # None)
    BY <2>1, <2>2, <2>3 DEF Connected
  <2>6. Connected' = Connected
    BY <2>4, <2>5 DEF Connected
  <2>7. QED BY <2>1, <2>6
<1>6. ASSUME GuiClose PROVE [Mailbox!Next]_<<Connected, frames>>
  <2>1. /\ UNCHANGED <<table, frames>> /\ gui.at = "close" /\ gui'.at = "forget"
        /\ gui'.peer = gui.peer
    BY <1>6 DEF GuiClose, frameVars
  <2>2. gui.peer \in Peers /\ gui.peer \in Connected
    BY <2>1 DEF IInv, GuiShape, Connected
  <2>3. CASE table[gui.peer] # None \/ gui.peer \in frames
    BY <2>1, <2>2, <2>3 DEF Connected
  <2>4. CASE table[gui.peer] = None /\ gui.peer \notin frames
    <3>1. Connected' = Connected \ {gui.peer} /\ frames' = frames \ {gui.peer}
      BY <2>1, <2>2, <2>4 DEF Connected
    <3>2. Mailbox!Close(gui.peer)
      BY <2>2, <3>1 DEF Mailbox!Close
    <3>3. QED BY <2>2, <3>2 DEF Mailbox!Next
  <2>5. QED BY <2>3, <2>4
<1>7. ASSUME GuiForget PROVE [Mailbox!Next]_<<Connected, frames>>
  <2>1. /\ table' = table /\ frames' = frames \ {gui.peer}
        /\ gui.at = "forget" /\ gui'.at = "quiet" /\ gui'.peer = gui.peer
    BY <1>7 DEF GuiForget, tableVars, IInv, TypeOK
  <2>2. gui.peer \in Peers
    BY <2>1 DEF IInv, GuiShape
  <2>3. CASE gui.peer \notin frames
    BY <2>1, <2>3 DEF Connected
  <2>4. CASE gui.peer \in frames /\ table[gui.peer] = None
    <3>1. gui.peer \in Connected /\ Connected' = Connected \ {gui.peer}
      BY <2>1, <2>2, <2>4 DEF Connected
    <3>2. Mailbox!Close(gui.peer)
      BY <2>1, <3>1 DEF Mailbox!Close
    <3>3. QED BY <2>2, <3>2 DEF Mailbox!Next
  <2>5. CASE gui.peer \in frames /\ table[gui.peer] # None
    <3>1. gui.peer \in Connected /\ Connected' = Connected
      BY <2>1, <2>2, <2>5 DEF Connected
    <3>2. Mailbox!Renew(gui.peer)
      BY <2>1, <3>1 DEF Mailbox!Renew
    <3>3. QED BY <2>2, <3>2 DEF Mailbox!Next
  <2>6. QED BY <2>3, <2>4, <2>5
<1>8. ASSUME gui.at = "next", gui' = GuiIdle,
             UNCHANGED <<tableVars, linkVars, frameVars, ops, lockedBy, sig, playing>>
      PROVE  UNCHANGED <<Connected, frames>>
  <2>1. UNCHANGED <<table, frames>> /\ gui'.at \notin {"close", "forget"}
    BY <1>8 DEF tableVars, frameVars
  <2>2. QED BY <1>8, <2>1, NothingSeen
<1>9. ASSUME NEW op \in Operations, NEW c \in Contexts, Succeed(op, c) \/ Fail(op, c)
      PROVE  UNCHANGED <<Connected, frames>>
  <2>1. UNCHANGED <<table, frames, gui>>
    BY <1>9 DEF Succeed, Fail, tableVars, frameVars
  <2>2. QED BY <2>1, NothingSeen
<1>10. CASE SetLocal \/ DescriptionReady \/ Flush \/ CreateAnswer \/ AttachVideo \/ AttachAudio
            \/ StartPlayout
  <2>1. UNCHANGED <<table, frames, gui>>
    BY <1>10 DEF SetLocal, DescriptionReady, Flush, CreateAnswer, AttachVideo, AttachAudio,
                 StartPlayout, tableVars, frameVars
  <2>2. QED BY <2>1, NothingSeen
<1>11. ASSUME AnswerEnsure PROVE [Mailbox!Next]_<<Connected, frames>>
  <2>0. sig.peer \in Peers /\ frames' = frames /\ gui' = gui
    BY <1>11 DEF AnswerEnsure, IInv, SigShape, frameVars
  <2>1. CASE table' = table
    BY <2>0, <2>1, NothingSeen
  <2>2. ASSUME NEW c \in Contexts, table[sig.peer] = None,
               table' = [table EXCEPT ![sig.peer] = c]
        PROVE  [Mailbox!Next]_<<Connected, frames>>
    <3>1. \A p \in Peers : table'[p] = IF p = sig.peer THEN c ELSE table[p]
      BY <2>2 DEF IInv, TypeOK
    <3>2. Connected' = Connected \cup {sig.peer}
      BY <2>0, <2>2, <3>1, NoneAssumption DEF Connected
    <3>3. CASE sig.peer \in Connected
      BY <2>0, <3>2, <3>3
    <3>4. CASE sig.peer \notin Connected
      <4>1. Mailbox!Open(sig.peer)
        BY <2>0, <3>2, <3>4 DEF Mailbox!Open
      <4>2. QED BY <2>0, <4>1 DEF Mailbox!Next
    <3>5. QED BY <3>3, <3>4
  <2>3. table' = table \/ (table[sig.peer] = None
          /\ \E c \in Contexts : table' = [table EXCEPT ![sig.peer] = c])
    BY <1>11 DEF AnswerEnsure, Unallocated, tableVars
  <2>4. QED BY <2>1, <2>2, <2>3
<1>12. ASSUME NEW c \in Contexts, NEW kind \in {"video", "audio"}, Track(c, kind)
       PROVE  UNCHANGED <<Connected, frames>>
  <2>1. UNCHANGED <<table, frames, gui>>
    BY <1>12 DEF Track, tableVars, frameVars
  <2>2. QED BY <2>1, NothingSeen
<1>13. ASSUME NEW c \in Contexts, Frame(c) PROVE Mailbox!Next
  <2>1. /\ c \in video /\ frames' = frames \cup {owner[c]}
        /\ UNCHANGED <<table, gui>>
    BY <1>13 DEF Frame, tableVars
  <2>2. owner[c] \in Peers
    BY <2>1 DEF IInv, SetsAllocated, Allocated, TypeOK
  <2>3. table[owner[c]] = c \/ (gui.at = "close" /\ gui.ctx = c)
    BY <2>2, NoneAssumption DEF IInv, EveryPeerIsKnown
  <2>4. gui.at = "close" /\ gui.ctx = c => gui.peer = owner[c]
    BY DEF IInv, GuiShape
  <2>5. owner[c] \in Connected
    BY <2>2, <2>3, <2>4, NoneAssumption DEF Connected
  <2>6. Connected' = Connected
    BY <2>1, <2>5 DEF Connected
  <2>7. Mailbox!Put(owner[c])
    BY <2>1, <2>5, <2>6 DEF Mailbox!Put
  <2>8. QED BY <2>2, <2>7 DEF Mailbox!Next
<1>14. ASSUME NEW p \in Peers, Deliver(p) PROVE [Mailbox!Next]_<<Connected, frames>>
  <2>1. gui.at = "idle" /\ frames' = frames \ {p} /\ UNCHANGED <<table, gui>>
    BY <1>14 DEF Deliver, Idle, tableVars
  <2>2. CASE p \notin frames
    <3>1. frames' = frames BY <2>1, <2>2
    <3>2. QED BY <2>1, <3>1, NothingSeen
  <2>3. CASE p \in frames
    <3>1. table[p] # None
      BY <2>1, <2>3 DEF IInv, NoFrameOutlivesItsPeer
    <3>2. Connected' = Connected
      BY <2>1, <3>1 DEF Connected
    <3>3. Mailbox!Take(p)
      BY <2>1, <2>3, <3>2 DEF Mailbox!Take
    <3>4. QED BY <3>3 DEF Mailbox!Next
  <2>4. QED BY <2>2, <2>3
<1>15. CASE UNCHANGED vars
  <2>1. UNCHANGED <<table, frames, gui>> BY <1>15 DEF vars
  <2>2. QED BY <2>1, NothingSeen
<1>16. CASE GuiNext
  <2>1. CASE gui.then = "watch" /\ EnsurePeer(gui.peer, "watch")
    <3>1. gui.at = "next" /\ gui.peer \in Peers
      BY <1>16 DEF GuiNext, IInv, GuiShape
    <3>2. UNCHANGED <<Connected, frames>>
      BY <1>1, <2>1, <3>1
    <3>3. QED BY <3>2
  <2>2. ASSUME NEW p \in Peers, Erase(p, "all") PROVE UNCHANGED <<Connected, frames>>
    <3>1. gui.at = "next" BY <1>16 DEF GuiNext
    <3>2. QED BY <1>5, <2>2, <3>1
  <2>3. CASE gui' = GuiIdle
             /\ UNCHANGED <<tableVars, linkVars, frameVars, ops, lockedBy, sig, playing>>
    <3>1. gui.at = "next" BY <1>16 DEF GuiNext
    <3>2. QED BY <1>8, <2>3, <3>1
  <2>4. QED BY <1>16, <2>1, <2>2, <2>3 DEF GuiNext
<1>17. ASSUME NEW p \in Peers, NEW plan \in {"offer", "setOffer", "setAnswer", "watch"},
              Handle(p, plan)
       PROVE  UNCHANGED <<Connected, frames>>
  BY <1>1, <1>17 DEF Handle, Idle
<1>18. ASSUME NEW p \in Peers, NEW plan \in {"done", "watch", "all"}, ClosePeer(p, plan)
       PROVE  UNCHANGED <<Connected, frames>>
  BY <1>5, <1>18 DEF ClosePeer, Idle
<1>19. CASE GuiGoesOn
  BY <1>2, <1>3, <1>6, <1>7, <1>16, <1>19 DEF GuiGoesOn
<1>20. CASE SigGoesOn
  BY <1>10, <1>11, <1>20 DEF SigGoesOn
<1>21. QED
  BY <1>4, <1>9, <1>12, <1>13, <1>14, <1>15, <1>17, <1>18, <1>19, <1>20 DEF Next

\* The threads implement an atomic table of peers with one mailbox each.
THEOREM Implements == Spec => IsMailbox
<1>1. Init => Mailbox!Init
  BY DEF Init, Mailbox!Init, Connected, GuiIdle, GuiAt
<1>2. IInv /\ [Next]_vars => [Mailbox!Next]_<<Connected, frames>>
  BY MailboxStep
<1>3. QED BY <1>1, <1>2, Inductive, PTL DEF Spec, IsMailbox, Mailbox!Spec

\* The state of the peers and of the threads keeps its type.
THEOREM TypeCorrect == Spec => []TypeOK
<1>1. IInv => TypeOK BY DEF IInv
<1>2. QED BY <1>1, Inductive, PTL DEF Spec

\* No thread uses the address of a context that was freed.
THEOREM ContextsOutliveTheirUse == Spec => []NoFreedContextIsUsed
<1>1. IInv => NoFreedContextIsUsed BY DEF IInv, GuiShape, SigShape, NoFreedContextIsUsed
<1>2. QED BY <1>1, Inductive, PTL DEF Spec

\* Every context is in the table under its user or being closed.
THEOREM NoPeerIsForgotten == Spec => []EveryPeerIsKnown
<1>1. IInv => EveryPeerIsKnown BY DEF IInv
<1>2. QED BY <1>1, Inductive, PTL DEF Spec

\* A frame that waits has a delivery in the GUI's queue.
THEOREM FramesAreDelivered == Spec => []WaitingFrameIsPosted
<1>1. IInv => WaitingFrameIsPosted BY DEF IInv, FramesMarked, WaitingFrameIsPosted
<1>2. QED BY <1>1, Inductive, PTL DEF Spec

\* No frame of a closed screen waits once its closing is over.
THEOREM FramesEndWithTheirPeer == Spec => []NoFrameOutlivesItsPeer
<1>1. IInv => NoFrameOutlivesItsPeer BY DEF IInv
<1>2. QED BY <1>1, Inductive, PTL DEF Spec

\* The device pulls the sound of every peer that has some.
THEOREM SoundIsPulled == Spec => []AttachedSoundIsPulled
<1>1. IInv => AttachedSoundIsPulled BY DEF IInv
<1>2. QED BY <1>1, Inductive, PTL DEF Spec

============================================================================
