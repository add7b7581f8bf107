--------------------------- MODULE HeadlessProofs ---------------------------
(***************************************************************************)
(* Theorems about Headless, for any launches, worlds, accounts and limit.  *)
(***************************************************************************)
EXTENDS Headless, FiniteSetTheorems, TLAPS

\* A launch that began is for a world; only auto-starts deal with the slot.
AllNamed == \A l \in Launches :
    /\ at[l] # "new" => world[l] \in Worlds
    /\ at[l] \in {"queued", "cleared", "joined", "cooling"} => l \notin Direct

\* Every variable has its type in every reachable state.
THEOREM TypeCorrect == Spec => [](TypeOK /\ AllNamed)
<1>1. Init => TypeOK /\ AllNamed
  BY DEF Init, TypeOK, AllNamed, Owning
<1>2. TypeOK /\ AllNamed /\ [Next]_vars => TypeOK' /\ AllNamed'
  <2> DEFINE Typed == TypeOK' /\ AllNamed'
  <2> SUFFICES ASSUME TypeOK, AllNamed, [Next]_vars
               PROVE  Typed
    OBVIOUS
  <2> USE DEF TypeOK, AllNamed, Owning, WithTab, lockVars, callVars, tabVars, slotVars
  <2>1. ASSUME NEW l \in Launches, NEW w \in Worlds, IsLaunching(l, w) PROVE Typed
    BY <2>1 DEF IsLaunching, Goes
  <2>2. ASSUME NEW l \in Launches, NEW w \in Worlds, CheckCooldown(l, w) PROVE Typed
    BY <2>2 DEF CheckCooldown
  <2>3. ASSUME NEW l \in Launches, NEW w \in Worlds, DirectStart(l, w) PROVE Typed
    BY <2>3 DEF DirectStart, Goes
  <2>4. ASSUME NEW l \in Launches, WaitForLaunch(l) PROVE Typed
    BY <2>4 DEF WaitForLaunch, Joins
  <2>5. ASSUME NEW l \in Launches, TryRegisterLaunch(l) PROVE Typed
    BY <2>5 DEF TryRegisterLaunch, Joins
  <2>6. ASSUME NEW l \in Launches, Released(l) PROVE Typed
    BY <2>6 DEF Released, Moves, Goes
  <2>7. ASSUME NEW l \in Launches, GivesUp(l) PROVE Typed
    BY <2>7 DEF GivesUp, Moves, Goes
  <2>8. ASSUME NEW l \in Launches, Unprepared(l) PROVE Typed
    BY <2>8 DEF Unprepared, Moves, Goes
  <2>9. ASSUME NEW l \in Launches, CompleteLaunch(l) PROVE Typed
    BY <2>9 DEF CompleteLaunch, Goes, Resolve
  <2>10. ASSUME NEW l \in Launches, FailLaunch(l) PROVE Typed
    BY <2>10 DEF FailLaunch, Goes, Resolve
  <2>11. ASSUME NEW l \in Launches, StartCooldown(l) PROVE Typed
    BY <2>11 DEF StartCooldown, Goes
  <2>12. ASSUME NEW l \in Launches, Answers(l) PROVE Typed
    BY <2>12 DEF Answers, Moves, Goes
  <2>13. ASSUME NEW l \in Launches, LockToSweep(l) PROVE Typed
    BY <2>13 DEF LockToSweep, Goes
  <2>14. ASSUME NEW l \in Launches, Sweep(l) PROVE Typed
    BY <2>14 DEF Sweep
  <2>15. ASSUME NEW l \in Launches, PassGlobalCap(l) PROVE Typed
    BY <2>15 DEF PassGlobalCap, Moves, Goes
  <2>16. ASSUME NEW l \in Launches, HitGlobalCap(l) PROVE Typed
    BY <2>16 DEF HitGlobalCap, Moves, Goes
  <2>17. ASSUME NEW l \in Launches, OpenTab(l) PROVE Typed
    BY <2>17 DEF OpenTab, Goes
  <2>18. ASSUME NEW l \in Launches, NoTab(l) PROVE Typed
    BY <2>18 DEF NoTab, Moves, Goes
  <2>19. ASSUME NEW l \in Launches, LogIn(l) PROVE Typed
    BY <2>19 DEF LogIn, Goes
  <2>20. ASSUME NEW l \in Launches, BrowsingFails(l) PROVE Typed
    BY <2>20 DEF BrowsingFails, Goes
  <2>21. ASSUME NEW l \in Launches, AddPending(l) PROVE Typed
    BY <2>21 DEF AddPending, Goes
  <2>22. ASSUME NEW l \in Launches, Establish(l) PROVE Typed
    BY <2>22 DEF Establish, Goes
  <2>23. ASSUME NEW l \in Launches, RegisterInRedis(l) PROVE Typed
    BY <2>23 DEF RegisterInRedis, Goes
  <2>24. ASSUME NEW l \in Launches, PollTimesOut(l) PROVE Typed
    BY <2>24 DEF PollTimesOut, Goes
  <2>25. ASSUME NEW l \in Launches, NEW w \in Worlds, Found(l, w) PROVE Typed
    BY <2>25 DEF Found, Goes
  <2>26. ASSUME NEW l \in Launches, EndSession(l) PROVE Typed
    BY <2>26 DEF EndSession
  <2>27. ASSUME NEW l \in Launches, EndCancels(l) PROVE Typed
    BY <2>27 DEF EndCancels
  <2>28. ASSUME NEW l \in Launches, EndRemovesClient(l) PROVE Typed
    BY <2>28 DEF EndRemovesClient
  <2>29. ASSUME NEW l \in Launches, EndForgets(l) PROVE Typed
    BY <2>29 DEF EndForgets
  <2>30. ASSUME NEW l \in Launches, EndPending(l) PROVE Typed
    BY <2>30 DEF EndPending
  <2>31. ASSUME NEW w \in Worlds, Connects(w) PROVE Typed
    BY <2>31 DEF Connects
  <2>32. ASSUME NEW w \in Worlds, Disconnects(w) PROVE Typed
    BY <2>32 DEF Disconnects
  <2>33. ASSUME NEW w \in Worlds, CooldownEnds(w) PROVE Typed
    BY <2>33 DEF CooldownEnds
  <2>34. CASE OnClientDisconnected
    BY <2>34 DEF OnClientDisconnected
  <2>35. CASE UNCHANGED vars
    BY <2>35 DEF vars
  <2> HIDE DEF Typed
  <2>36. QED BY <2>1, <2>2, <2>3, <2>4, <2>5, <2>6, <2>7, <2>8, <2>9, <2>10, <2>11,
              <2>12, <2>13, <2>14, <2>15, <2>16, <2>17, <2>18, <2>19, <2>20, <2>21,
              <2>22, <2>23, <2>24, <2>25, <2>26, <2>27, <2>28, <2>29, <2>30, <2>31,
              <2>32, <2>33, <2>34, <2>35 DEF Next, SlotStep, LaunchStep, EndStep
<1>3. QED BY <1>1, <1>2, PTL DEF Spec

----------------------------------------------------------------------------
(* What one step can do to the slots, to a launch and to a tab.  The       *)
(* invariants follow from these effects.                                   *)

\* An auto-start becomes the owner of a free slot, and stops being one only when it
\* resolves its launch queue and frees the slot.
OwnerEffect(l) ==
    /\ at[l] # "new" => at'[l] # "new" /\ (l \notin Direct => world'[l] = world[l])
    /\ at[l] \in Owning /\ at'[l] \notin Owning /\ l \notin Direct =>
          result'[l] # "open" /\ launchQueues'[world[l]] = None
    /\ at[l] \notin Owning /\ at'[l] \in Owning /\ l \notin Direct =>
          at[l] = "cleared" /\ launchQueues[world[l]] = None /\ launchQueues'[world[l]] = l
    /\ result[l] # "open" => result'[l] # "open"

\* A call joins the owner of the slot, and waits for it only.
JoinEffect(l) ==
    at'[l] = "joined" =>
        \/ at[l] = "joined" /\ awaits'[l] = awaits[l]
        \/ /\ at[l] \in {"queued", "cleared"}
           /\ launchQueues[world[l]] # None
           /\ awaits'[l] = launchQueues[world[l]]

\* A slot is taken when it is free, and freed by an owner that resolves.
SlotEffect(w) ==
    \/ launchQueues'[w] = launchQueues[w]
    \/ \E l \in Launches \ Direct :
          /\ at[l] = "cleared" /\ at'[l] = "owner" /\ world[l] = w
          /\ launchQueues[w] = None /\ launchQueues'[w] = l
    \/ \E l \in Launches \ Direct :
          /\ at[l] \in Owning /\ at'[l] \notin Owning /\ world[l] = w
          /\ launchQueues'[w] = None

\* A tab is opened by a launch, which closes it or hands it to its session; whoever
\* takes the session out closes it, EndSession one step later.
TabEffect(l) ==
    tab'[l] = "open" =>
        /\ tab[l] = "open" \/ at'[l] \in WithTab
        /\ at[l] \in WithTab => at'[l] \in WithTab \/ sessions'[l] # None
        /\ sessions[l] # None => sessions'[l] # None \/ ending'[l] = "taken"
        /\ ending[l] = "taken" => ending'[l] = "taken"

Effects ==
    /\ \A l \in Launches : OwnerEffect(l) /\ JoinEffect(l) /\ TabEffect(l)
    /\ \A w \in Worlds : SlotEffect(w)

\* Every step has these effects, looked at action by action.
LEMMA StepEffects == ASSUME TypeOK, AllNamed, Next PROVE Effects
<1> USE LaunchesAssumption DEF TypeOK, AllNamed, Effects, OwnerEffect, JoinEffect, SlotEffect,
        TabEffect, Owning, WithTab, lockVars, callVars, tabVars, slotVars
<1>1. ASSUME NEW l \in Launches, NEW w \in Worlds, IsLaunching(l, w) PROVE Effects
  BY <1>1 DEF IsLaunching, Goes
<1>2. ASSUME NEW l \in Launches, NEW w \in Worlds, CheckCooldown(l, w) PROVE Effects
  BY <1>2 DEF CheckCooldown
<1>3. ASSUME NEW l \in Launches, NEW w \in Worlds, DirectStart(l, w) PROVE Effects
  BY <1>3 DEF DirectStart, Goes
<1>4. ASSUME NEW l \in Launches, WaitForLaunch(l) PROVE Effects
  BY <1>4 DEF WaitForLaunch, Joins
<1>5. ASSUME NEW l \in Launches, TryRegisterLaunch(l) PROVE Effects
  BY <1>5 DEF TryRegisterLaunch, Joins
<1>6. ASSUME NEW l \in Launches, Released(l) PROVE Effects
  BY <1>6 DEF Released, Moves, Goes
<1>7. ASSUME NEW l \in Launches, GivesUp(l) PROVE Effects
  BY <1>7 DEF GivesUp, Moves, Goes
<1>8. ASSUME NEW l \in Launches, Unprepared(l) PROVE Effects
  BY <1>8 DEF Unprepared, Moves, Goes
<1>9. ASSUME NEW l \in Launches, CompleteLaunch(l) PROVE Effects
  BY <1>9 DEF CompleteLaunch, Goes, Resolve
<1>10. ASSUME NEW l \in Launches, FailLaunch(l) PROVE Effects
  BY <1>10 DEF FailLaunch, Goes, Resolve
<1>11. ASSUME NEW l \in Launches, StartCooldown(l) PROVE Effects
  BY <1>11 DEF StartCooldown, Goes
<1>12. ASSUME NEW l \in Launches, Answers(l) PROVE Effects
  BY <1>12 DEF Answers, Moves, Goes
<1>13. ASSUME NEW l \in Launches, LockToSweep(l) PROVE Effects
  BY <1>13 DEF LockToSweep, Goes
<1>14. ASSUME NEW l \in Launches, Sweep(l) PROVE Effects
  BY <1>14 DEF Sweep
<1>15. ASSUME NEW l \in Launches, PassGlobalCap(l) PROVE Effects
  BY <1>15 DEF PassGlobalCap, Moves, Goes
<1>16. ASSUME NEW l \in Launches, HitGlobalCap(l) PROVE Effects
  BY <1>16 DEF HitGlobalCap, Moves, Goes
<1>17. ASSUME NEW l \in Launches, OpenTab(l) PROVE Effects
  BY <1>17 DEF OpenTab, Goes
<1>18. ASSUME NEW l \in Launches, NoTab(l) PROVE Effects
  BY <1>18 DEF NoTab, Moves, Goes
<1>19. ASSUME NEW l \in Launches, LogIn(l) PROVE Effects
  BY <1>19 DEF LogIn, Goes
<1>20. ASSUME NEW l \in Launches, BrowsingFails(l) PROVE Effects
  BY <1>20 DEF BrowsingFails, Goes
<1>21. ASSUME NEW l \in Launches, AddPending(l) PROVE Effects
  BY <1>21 DEF AddPending, Goes
<1>22. ASSUME NEW l \in Launches, Establish(l) PROVE Effects
  BY <1>22 DEF Establish, Goes
<1>23. ASSUME NEW l \in Launches, RegisterInRedis(l) PROVE Effects
  BY <1>23 DEF RegisterInRedis, Goes
<1>24. ASSUME NEW l \in Launches, PollTimesOut(l) PROVE Effects
  BY <1>24 DEF PollTimesOut, Goes
<1>25. ASSUME NEW l \in Launches, NEW w \in Worlds, Found(l, w) PROVE Effects
  BY <1>25 DEF Found, Goes
<1>26. ASSUME NEW l \in Launches, EndSession(l) PROVE Effects
  BY <1>26 DEF EndSession
<1>27. ASSUME NEW l \in Launches, EndCancels(l) PROVE Effects
  BY <1>27 DEF EndCancels
<1>28. ASSUME NEW l \in Launches, EndRemovesClient(l) PROVE Effects
  BY <1>28 DEF EndRemovesClient
<1>29. ASSUME NEW l \in Launches, EndForgets(l) PROVE Effects
  BY <1>29 DEF EndForgets
<1>30. ASSUME NEW l \in Launches, EndPending(l) PROVE Effects
  BY <1>30 DEF EndPending
<1>31. ASSUME NEW w \in Worlds, Connects(w) PROVE Effects
  BY <1>31 DEF Connects
<1>32. ASSUME NEW w \in Worlds, Disconnects(w) PROVE Effects
  BY <1>32 DEF Disconnects
<1>33. ASSUME NEW w \in Worlds, CooldownEnds(w) PROVE Effects
  BY <1>33 DEF CooldownEnds
<1>34. CASE OnClientDisconnected
  BY <1>34 DEF OnClientDisconnected
<1>35. QED BY <1>1, <1>2, <1>3, <1>4, <1>5, <1>6, <1>7, <1>8, <1>9, <1>10, <1>11,
            <1>12, <1>13, <1>14, <1>15, <1>16, <1>17, <1>18, <1>19, <1>20, <1>21,
            <1>22, <1>23, <1>24, <1>25, <1>26, <1>27, <1>28, <1>29, <1>30, <1>31,
            <1>32, <1>33, <1>34 DEF Next, SlotStep, LaunchStep, EndStep

----------------------------------------------------------------------------
(* The slots.                                                              *)

\* An auto-start that has not resolved owns the slot of its world, and a slot is
\* owned by such a launch.
Owns(l) == l \notin Direct /\ at[l] \in Owning => launchQueues[world[l]] = l

HeldByOwner(w) ==
    launchQueues[w] # None =>
        \E l \in Launches \ Direct : launchQueues[w] = l /\ at[l] \in Owning /\ world[l] = w

\* Who joined waits for a launch queue that is closed, or whose owner is running.
JoinedToOwner(l) ==
    at[l] = "joined" =>
        \E m \in Launches \ Direct :
            /\ awaits[l] = m
            /\ result[m] # "open" \/ (at[m] \in Owning /\ world[m] = world[l])

SlotsSound ==
    /\ \A l \in Launches : Owns(l) /\ JoinedToOwner(l)
    /\ \A w \in Worlds : HeldByOwner(w)

\* A step with these effects keeps the slots in order.
LEMMA SlotsStay ==
    ASSUME TypeOK, AllNamed, SlotsSound, Effects
    PROVE  SlotsSound'
<1> USE LaunchesAssumption
<1>0. /\ \A l \in Launches : at[l] \in Owning => at[l] # "new" /\ world[l] \in Worlds
      /\ \A l \in Launches : at[l] \in {"cleared", "joined", "queued"} =>
            at[l] \notin Owning /\ at[l] # "new" /\ world[l] \in Worlds /\ l \notin Direct
  BY DEF AllNamed, Owning, WithTab
<1>1. ASSUME NEW l \in Launches PROVE Owns(l)'
  <2> SUFFICES ASSUME l \notin Direct, at'[l] \in Owning
               PROVE  launchQueues'[world'[l]] = l
    BY DEF Owns
  <2>1. CASE at[l] \in Owning
    <3>1. launchQueues[world[l]] = l /\ world'[l] = world[l] /\ world[l] \in Worlds
      BY <1>0, <1>1, <2>1 DEF SlotsSound, Owns, Effects, OwnerEffect
    <3>2. ASSUME NEW m \in Launches \ Direct, at[m] \in Owning, world[m] = world[l]
          PROVE  m = l
      BY <3>1, <3>2 DEF SlotsSound, Owns
    <3>3. launchQueues'[world[l]] = launchQueues[world[l]]
      BY <2>1, <3>1, <3>2 DEF Effects, SlotEffect
    <3>4. QED BY <3>1, <3>3
  <2>2. CASE at[l] \notin Owning
    BY <1>0, <1>1, <2>2 DEF Effects, OwnerEffect
  <2>3. QED BY <2>1, <2>2
<1>2. ASSUME NEW w \in Worlds PROVE HeldByOwner(w)'
  <2> SUFFICES ASSUME launchQueues'[w] # None
               PROVE  \E l \in Launches \ Direct :
                        launchQueues'[w] = l /\ at'[l] \in Owning /\ world'[l] = w
    BY DEF HeldByOwner
  <2>1. CASE launchQueues'[w] = launchQueues[w]
    <3>1. PICK l \in Launches \ Direct : launchQueues[w] = l /\ at[l] \in Owning /\ world[l] = w
      BY <1>2, <2>1 DEF SlotsSound, HeldByOwner
    <3>2. world'[l] = w
      BY <1>0, <3>1 DEF Effects, OwnerEffect
    <3>3. at'[l] \in Owning
      BY <2>1, <3>1 DEF Effects, OwnerEffect
    <3>4. QED BY <2>1, <3>1, <3>2, <3>3
  <2>2. CASE launchQueues'[w] # launchQueues[w]
    <3>1. PICK l \in Launches \ Direct : /\ at[l] = "cleared" /\ at'[l] = "owner"
                                         /\ world[l] = w /\ launchQueues'[w] = l
      BY <1>2, <2>2 DEF Effects, SlotEffect
    <3>2. world'[l] = w /\ at'[l] \in Owning
      BY <1>0, <3>1 DEF Effects, OwnerEffect, Owning
    <3>3. QED BY <3>1, <3>2
  <2>3. QED BY <2>1, <2>2
<1>3. ASSUME NEW l \in Launches PROVE JoinedToOwner(l)'
  <2> SUFFICES ASSUME at'[l] = "joined"
               PROVE  \E m \in Launches \ Direct :
                        /\ awaits'[l] = m
                        /\ result'[m] # "open" \/ (at'[m] \in Owning /\ world'[m] = world'[l])
    BY DEF JoinedToOwner
  <2>1. at[l] \in {"joined", "queued", "cleared"}
    BY <1>3 DEF Effects, JoinEffect
  <2>2. world'[l] = world[l] /\ world[l] \in Worlds
    BY <1>0, <1>3, <2>1 DEF Effects, OwnerEffect
  <2>3. PICK m \in Launches \ Direct :
          /\ awaits'[l] = m
          /\ result[m] # "open" \/ (at[m] \in Owning /\ world[m] = world[l])
    <3>1. CASE at[l] = "joined" /\ awaits'[l] = awaits[l]
      BY <1>3, <3>1 DEF SlotsSound, JoinedToOwner
    <3>2. CASE launchQueues[world[l]] # None /\ awaits'[l] = launchQueues[world[l]]
      BY <2>2, <3>2 DEF SlotsSound, HeldByOwner
    <3>3. QED BY <1>3, <3>1, <3>2 DEF Effects, JoinEffect
  <2>4. result[m] # "open" => result'[m] # "open"
    BY DEF Effects, OwnerEffect
  <2>5. at[m] \in Owning => world'[m] = world[m] /\ (at'[m] \in Owning \/ result'[m] # "open")
    BY <1>0 DEF Effects, OwnerEffect
  <2>6. QED BY <2>2, <2>3, <2>4, <2>5
<1>4. QED BY <1>1, <1>2, <1>3 DEF SlotsSound

\* The slots of the launch queue are in order, whichever steps of the calls for one
\* world come in between.
THEOREM SlotsAreSound == Spec => []SlotsSound
<1>1. Init => SlotsSound
  BY DEF Init, SlotsSound, Owns, JoinedToOwner, HeldByOwner, Owning, WithTab
<1>2. TypeOK /\ AllNamed /\ SlotsSound /\ [Next]_vars => SlotsSound'
  <2>1. TypeOK /\ AllNamed /\ SlotsSound /\ Next => SlotsSound'
    BY StepEffects, SlotsStay
  <2>2. SlotsSound /\ UNCHANGED vars => SlotsSound'
    BY DEF SlotsSound, Owns, JoinedToOwner, HeldByOwner, vars, callVars, slotVars
  <2>3. QED BY <2>1, <2>2
<1>3. QED BY <1>1, <1>2, TypeCorrect, PTL DEF Spec

\* Two auto-starts of one world never run at once.
THEOREM LaunchesAreExclusive == Spec => []OneLaunchPerWorld
<1>1. SlotsSound => OneLaunchPerWorld
  BY DEF SlotsSound, Owns, OneLaunchPerWorld
<1>2. QED BY <1>1, SlotsAreSound, PTL

\* A call that joined a launch is never left waiting for a queue that nobody closes.
THEOREM NobodyIsStranded == Spec => []JoinedIsNotStranded
<1>1. SlotsSound => JoinedIsNotStranded
  BY DEF SlotsSound, Owns, JoinedToOwner, JoinedIsNotStranded
<1>2. QED BY <1>1, SlotsAreSound, PTL

----------------------------------------------------------------------------
(* The tabs.                                                               *)

\* No tab is open that nobody will close.
THEOREM NoTabIsLeaked == Spec => []TabsAreAccountedFor
<1>1. Init => TabsAreAccountedFor
  BY DEF Init, TabsAreAccountedFor
<1>2. TypeOK /\ AllNamed /\ TabsAreAccountedFor /\ [Next]_vars => TabsAreAccountedFor'
  <2>1. Effects /\ TabsAreAccountedFor => TabsAreAccountedFor'
    BY DEF Effects, TabEffect, TabsAreAccountedFor
  <2>2. TabsAreAccountedFor /\ UNCHANGED vars => TabsAreAccountedFor'
    BY DEF TabsAreAccountedFor, vars, callVars, tabVars
  <2>3. QED BY <2>1, <2>2, StepEffects
<1>3. QED BY <1>1, <1>2, TypeCorrect, PTL DEF Spec

----------------------------------------------------------------------------
(* The limit of an account.                                                *)

\* The stages of a launch that counted the sessions and has not stored its own, and
\* those of one that has stored it or never will.
Passing == {"checked", "opening"} \cup WithTab

Late == {"established", "succeeding", "done"}

Stored == {l \in Launches : sessions[l] # None}

\* The sessions in the map that a launch counted: the limit was not reached by them.
CountedStored(l) == counted[l] \cap SessionsOf(KeyOf[world[l]])

Below(S) == IsFiniteSet(S) /\ Cardinality(S) < MaxSessions

\* Of any two of these launches, one had its session stored when the other counted.
InTurn(T) == \A l, m \in T : l = m \/ l \in counted[m] \/ m \in counted[l]

CountsAreLate ==
    /\ \A l \in Launches : sessions[l] # None => at[l] \in Late
    /\ \A l \in Launches : \A m \in counted[l] : at[m] \in Late

PassedBelow(l) == at[l] \in Passing => Below(CountedStored(l))

\* However sessions end, launches that took turns stay within the limit.
TurnsFit(k) ==
    \A T \in SUBSET SessionsOf(k) :
        InTurn(T) => IsFiniteSet(T) /\ Cardinality(T) <= MaxSessions

LimitSound ==
    /\ CountsAreLate
    /\ IsFiniteSet(Stored)
    /\ MaxSessions > 0 => /\ \A l \in Launches : PassedBelow(l)
                          /\ \A k \in Keys : TurnsFit(k)

\* A step that neither counts nor stores: sessions may end, and a launch may go on,
\* or find its world, which is of the account it was launched for.
Quiet(l) ==
    /\ sessions'[l] \in {sessions[l], None}
    /\ counted'[l] = counted[l]
    /\ at[l] \in Late => at'[l] \in Late /\ world'[l] = world[l]
    /\ at'[l] \in Passing => at[l] \in Passing /\ KeyOf[world'[l]] = KeyOf[world[l]]

AllQuiet == \A l \in Launches : Quiet(l)

\* Every other action is quiet.
LEMMA QuietSteps ==
    ASSUME TypeOK, AllNamed, Next
    PROVE  AllQuiet \/ \E l \in Launches : Sweep(l) \/ Establish(l)
<1> USE DEF TypeOK, AllNamed, AllQuiet, Quiet, Passing, Late, WithTab, lockVars, callVars,
        tabVars, slotVars
<1>1. ASSUME NEW l \in Launches, NEW w \in Worlds, IsLaunching(l, w) PROVE AllQuiet
  BY <1>1 DEF IsLaunching, Goes
<1>2. ASSUME NEW l \in Launches, NEW w \in Worlds, CheckCooldown(l, w) PROVE AllQuiet
  BY <1>2 DEF CheckCooldown
<1>3. ASSUME NEW l \in Launches, NEW w \in Worlds, DirectStart(l, w) PROVE AllQuiet
  BY <1>3 DEF DirectStart, Goes
<1>4. ASSUME NEW l \in Launches, WaitForLaunch(l) PROVE AllQuiet
  BY <1>4 DEF WaitForLaunch, Joins
<1>5. ASSUME NEW l \in Launches, TryRegisterLaunch(l) PROVE AllQuiet
  BY <1>5 DEF TryRegisterLaunch, Joins
<1>6. ASSUME NEW l \in Launches, Released(l) PROVE AllQuiet
  BY <1>6 DEF Released, Moves, Goes
<1>7. ASSUME NEW l \in Launches, GivesUp(l) PROVE AllQuiet
  BY <1>7 DEF GivesUp, Moves, Goes
<1>8. ASSUME NEW l \in Launches, Unprepared(l) PROVE AllQuiet
  BY <1>8 DEF Unprepared, Moves, Goes
<1>9. ASSUME NEW l \in Launches, CompleteLaunch(l) PROVE AllQuiet
  BY <1>9 DEF CompleteLaunch, Goes, Resolve
<1>10. ASSUME NEW l \in Launches, FailLaunch(l) PROVE AllQuiet
  BY <1>10 DEF FailLaunch, Goes, Resolve
<1>11. ASSUME NEW l \in Launches, StartCooldown(l) PROVE AllQuiet
  BY <1>11 DEF StartCooldown, Goes
<1>12. ASSUME NEW l \in Launches, Answers(l) PROVE AllQuiet
  BY <1>12 DEF Answers, Moves, Goes
<1>13. ASSUME NEW l \in Launches, LockToSweep(l) PROVE AllQuiet
  BY <1>13 DEF LockToSweep, Goes
<1>14. ASSUME NEW l \in Launches, PassGlobalCap(l) PROVE AllQuiet
  BY <1>14 DEF PassGlobalCap, Moves, Goes
<1>15. ASSUME NEW l \in Launches, HitGlobalCap(l) PROVE AllQuiet
  BY <1>15 DEF HitGlobalCap, Moves, Goes
<1>16. ASSUME NEW l \in Launches, OpenTab(l) PROVE AllQuiet
  BY <1>16 DEF OpenTab, Goes
<1>17. ASSUME NEW l \in Launches, NoTab(l) PROVE AllQuiet
  BY <1>17 DEF NoTab, Moves, Goes
<1>18. ASSUME NEW l \in Launches, LogIn(l) PROVE AllQuiet
  BY <1>18 DEF LogIn, Goes
<1>19. ASSUME NEW l \in Launches, BrowsingFails(l) PROVE AllQuiet
  BY <1>19 DEF BrowsingFails, Goes
<1>20. ASSUME NEW l \in Launches, AddPending(l) PROVE AllQuiet
  BY <1>20 DEF AddPending, Goes
<1>21. ASSUME NEW l \in Launches, RegisterInRedis(l) PROVE AllQuiet
  BY <1>21 DEF RegisterInRedis, Goes
<1>22. ASSUME NEW l \in Launches, PollTimesOut(l) PROVE AllQuiet
  BY <1>22 DEF PollTimesOut, Goes
<1>23. ASSUME NEW l \in Launches, NEW w \in Worlds, Found(l, w) PROVE AllQuiet
  BY <1>23 DEF Found, Goes
<1>24. ASSUME NEW l \in Launches, EndSession(l) PROVE AllQuiet
  BY <1>24 DEF EndSession
<1>25. ASSUME NEW l \in Launches, EndCancels(l) PROVE AllQuiet
  BY <1>25 DEF EndCancels
<1>26. ASSUME NEW l \in Launches, EndRemovesClient(l) PROVE AllQuiet
  BY <1>26 DEF EndRemovesClient
<1>27. ASSUME NEW l \in Launches, EndForgets(l) PROVE AllQuiet
  BY <1>27 DEF EndForgets
<1>28. ASSUME NEW l \in Launches, EndPending(l) PROVE AllQuiet
  BY <1>28 DEF EndPending
<1>29. ASSUME NEW w \in Worlds, Connects(w) PROVE AllQuiet
  BY <1>29 DEF Connects
<1>30. ASSUME NEW w \in Worlds, Disconnects(w) PROVE AllQuiet
  BY <1>30 DEF Disconnects
<1>31. ASSUME NEW w \in Worlds, CooldownEnds(w) PROVE AllQuiet
  BY <1>31 DEF CooldownEnds
<1>32. CASE OnClientDisconnected
  BY <1>32 DEF OnClientDisconnected
<1> HIDE DEF AllQuiet
<1>33. QED BY <1>1, <1>2, <1>3, <1>4, <1>5, <1>6, <1>7, <1>8, <1>9, <1>10, <1>11, <1>12,
            <1>13, <1>14, <1>15, <1>16, <1>17, <1>18, <1>19, <1>20, <1>21, <1>22, <1>23,
            <1>24, <1>25, <1>26, <1>27, <1>28, <1>29, <1>30, <1>31, <1>32 DEF Next,
            SlotStep, LaunchStep, EndStep

LEMMA SmallerIsBelow ==
    ASSUME NEW S, NEW T, T \subseteq S, Below(S)
    PROVE  Below(T)
<1>1. IsFiniteSet(T) /\ Cardinality(T) <= Cardinality(S)
  BY FS_Subset DEF Below
<1>2. Cardinality(T) \in Nat /\ Cardinality(S) \in Nat
  BY <1>1, FS_CardinalityType DEF Below
<1>3. QED BY <1>1, <1>2, MaxSessionsAssumption DEF Below

\* A launch is counted only after it stored its session, or when it never will.
LEMMA QuietKeeps == ASSUME TypeOK, LimitSound, AllQuiet PROVE LimitSound'
<1>1. /\ \A l \in Launches : sessions'[l] # None =>
             sessions[l] # None /\ at[l] \in Late /\ at'[l] \in Late /\ world'[l] = world[l]
      /\ \A l \in Launches : counted'[l] = counted[l] /\ counted[l] \subseteq Launches
      /\ \A l \in Launches : at[l] \in Late => at'[l] \in Late
  BY DEF TypeOK, LimitSound, CountsAreLate, AllQuiet, Quiet
<1>2. CountsAreLate'
  BY <1>1 DEF LimitSound, CountsAreLate
<1>3. Stored' \subseteq Stored
  BY <1>1 DEF Stored
<1>4. IsFiniteSet(Stored')
  BY <1>3, FS_Subset DEF LimitSound
<1>5. ASSUME NEW k \in Keys PROVE SessionsOf(k)' \subseteq SessionsOf(k)
  BY <1>1 DEF SessionsOf
<1>6. ASSUME MaxSessions > 0, NEW l \in Launches PROVE PassedBelow(l)'
  <2> SUFFICES ASSUME at'[l] \in Passing PROVE Below(CountedStored(l)')
    BY DEF PassedBelow, Below
  <2>1. at[l] \in Passing /\ KeyOf[world'[l]] = KeyOf[world[l]]
    BY DEF AllQuiet, Quiet
  <2>2. CountedStored(l)' \subseteq CountedStored(l)
    BY <1>1, <2>1 DEF CountedStored, SessionsOf
  <2>3. Below(CountedStored(l))
    BY <1>6, <2>1 DEF LimitSound, PassedBelow
  <2>4. QED BY <2>2, <2>3, SmallerIsBelow
<1>7. ASSUME MaxSessions > 0, NEW k \in Keys PROVE TurnsFit(k)'
  <2> SUFFICES ASSUME NEW T \in SUBSET SessionsOf(k)', InTurn(T)'
               PROVE  IsFiniteSet(T) /\ Cardinality(T) <= MaxSessions
    BY DEF TurnsFit
  <2>1. T \subseteq SessionsOf(k) /\ T \subseteq Launches
    BY <1>5 DEF SessionsOf
  <2>2. InTurn(T)
    BY <1>1, <2>1 DEF InTurn
  <2>3. QED BY <1>7, <2>1, <2>2 DEF LimitSound, TurnsFit
<1>8. QED BY <1>2, <1>4, <1>6, <1>7 DEF LimitSound

\* A sweep that does not fail has just seen that the sessions it kept are below the
\* limit; nobody it counts can store a session later.
LEMMA SweepKeeps ==
    ASSUME TypeOK, AllNamed, LimitSound, NEW l \in Launches, Sweep(l)
    PROVE  LimitSound'
<1> DEFINE k == KeyOf[world[l]]
           C == {m \in Launches : sessions[m] # None \/ at[m] \in Late}
<1>1. /\ at[l] = "sweeping" /\ world' = world
      /\ \A m \in Launches : sessions'[m] = IF m \in Kept THEN sessions[m] ELSE None
      /\ counted' = [counted EXCEPT ![l] = C]
      /\ at' = [at EXCEPT ![l] = IF TooMany(Kept \cap SessionsOf(k)) THEN "failing" ELSE "checked"]
  BY DEF Sweep, Late
<1>2. /\ \A m \in Launches : m # l => at'[m] = at[m] /\ counted'[m] = counted[m]
      /\ counted'[l] = C
      /\ at'[l] = IF TooMany(Kept \cap SessionsOf(k)) THEN "failing" ELSE "checked"
  BY <1>1 DEF TypeOK
<1> HIDE DEF C
<1>3. /\ at[l] \notin Late /\ at[l] \notin Passing /\ k \in Keys
      /\ sessions[l] = None
      /\ \A m \in Launches : l \notin counted[m]
  <2>1. at[l] \notin Late /\ at[l] \notin Passing /\ world[l] \in Worlds
    BY <1>1 DEF Late, Passing, WithTab, AllNamed
  <2>2. QED BY <2>1, KeyOfAssumption DEF LimitSound, CountsAreLate
<1>4. \A m \in Launches : at[m] \in Late => at'[m] \in Late
  BY <1>2, <1>3
<1>5. \A m \in Launches : sessions'[m] # None => m \in Kept /\ sessions[m] # None
  BY <1>1
<1>6. CountsAreLate'
  <2>1. \A m \in C : m \in Launches /\ at[m] \in Late
    BY DEF C, LimitSound, CountsAreLate
  <2>2. \A m \in Launches : counted[m] \subseteq Launches
    BY DEF TypeOK
  <2>3. ASSUME NEW m \in Launches, NEW n \in counted'[m] PROVE at'[n] \in Late
    BY <1>2, <1>4, <2>1, <2>2, <2>3 DEF LimitSound, CountsAreLate
  <2>4. QED BY <1>4, <1>5, <2>3 DEF LimitSound, CountsAreLate
<1>7. IsFiniteSet(Stored')
  <2>1. Stored' \subseteq Stored
    BY <1>5 DEF Stored
  <2>2. QED BY <2>1, FS_Subset DEF LimitSound
<1>8. ASSUME NEW j \in Keys PROVE SessionsOf(j)' \subseteq Kept \cap SessionsOf(j)
  BY <1>1, <1>5 DEF SessionsOf
<1>9. ASSUME MaxSessions > 0, NEW m \in Launches PROVE PassedBelow(m)'
  <2> SUFFICES ASSUME at'[m] \in Passing PROVE Below(CountedStored(m)')
    BY DEF PassedBelow, Below
  <2>1. CASE m # l
    <3>1. at[m] \in Passing /\ counted'[m] = counted[m]
      BY <1>2, <2>1
    <3>2. CountedStored(m)' \subseteq CountedStored(m)
      BY <1>1, <1>5, <3>1 DEF CountedStored, SessionsOf
    <3>3. Below(CountedStored(m))
      BY <1>9, <3>1 DEF LimitSound, PassedBelow
    <3>4. QED BY <3>2, <3>3, SmallerIsBelow
  <2>2. CASE m = l
    <3> DEFINE S == Kept \cap SessionsOf(k)
    <3>1. ~TooMany(S)
      BY <1>2, <2>2 DEF Passing, WithTab
    <3>2. CountedStored(m)' \subseteq S
      BY <1>1, <1>3, <1>8, <2>2 DEF CountedStored
    <3>3. S \subseteq Stored
      BY DEF SessionsOf, Stored
    <3>4. IsFiniteSet(S) /\ Cardinality(S) \in Nat
      BY <3>3, FS_Subset, FS_CardinalityType DEF LimitSound
    <3>5. Below(S)
      BY <1>9, <3>1, <3>4, MaxSessionsAssumption DEF TooMany, Below
    <3>6. QED BY <3>2, <3>5, SmallerIsBelow
  <2>3. QED BY <2>1, <2>2
<1>10. ASSUME MaxSessions > 0, NEW j \in Keys PROVE TurnsFit(j)'
  <2> SUFFICES ASSUME NEW T \in SUBSET SessionsOf(j)', InTurn(T)'
               PROVE  IsFiniteSet(T) /\ Cardinality(T) <= MaxSessions
    BY DEF TurnsFit
  <2>1. T \subseteq SessionsOf(j) /\ T \subseteq Launches /\ l \notin T
    BY <1>3, <1>8 DEF SessionsOf
  <2>2. InTurn(T)
    BY <1>2, <2>1 DEF InTurn
  <2>3. QED BY <1>10, <2>1, <2>2 DEF LimitSound, TurnsFit
<1>11. QED BY <1>6, <1>7, <1>9, <1>10 DEF LimitSound

\* A stored session was counted by no launch that is under way; so whoever took turns
\* with its launch was counted by it, and they were below the limit.
LEMMA EstablishKeeps ==
    ASSUME TypeOK, AllNamed, LimitSound, NEW l \in Launches, Establish(l)
    PROVE  LimitSound'
<1> DEFINE k == KeyOf[world[l]]
<1>1. /\ at[l] = "found" /\ at'[l] = "established" /\ world' = world /\ counted' = counted
      /\ \A m \in Launches : m # l => at'[m] = at[m] /\ sessions'[m] = sessions[m]
      /\ world[l] \in Worlds /\ k \in Keys
  BY KeyOfAssumption DEF Establish, Goes, TypeOK, AllNamed
<1>2. at[l] \notin Late /\ at'[l] \in Late /\ at[l] \in Passing /\ at'[l] \notin Passing
  BY <1>1 DEF Late, Passing, WithTab
<1>3. sessions[l] = None /\ \A m \in Launches : l \notin counted[m]
  BY <1>2 DEF LimitSound, CountsAreLate
<1>4. \A m \in Launches : counted[m] \subseteq Launches
  BY DEF TypeOK
<1>5. CountsAreLate'
  BY <1>1, <1>2, <1>4 DEF LimitSound, CountsAreLate
<1>6. IsFiniteSet(Stored')
  <2>1. Stored' \subseteq Stored \cup {l}
    BY <1>1 DEF Stored
  <2>2. IsFiniteSet(Stored \cup {l})
    BY FS_AddElement DEF LimitSound
  <2>3. QED BY <2>1, <2>2, FS_Subset
<1>7. ASSUME NEW j \in Keys PROVE SessionsOf(j)' \subseteq SessionsOf(j) \cup {l}
  BY <1>1 DEF SessionsOf
<1>8. ASSUME MaxSessions > 0, NEW m \in Launches PROVE PassedBelow(m)'
  <2> SUFFICES ASSUME at'[m] \in Passing PROVE Below(CountedStored(m)')
    BY DEF PassedBelow, Below
  <2>1. m # l /\ at[m] \in Passing
    BY <1>1, <1>2
  <2>2. CountedStored(m)' \subseteq CountedStored(m)
    BY <1>1, <1>3, <1>4 DEF CountedStored, SessionsOf
  <2>3. Below(CountedStored(m))
    BY <1>8, <2>1 DEF LimitSound, PassedBelow
  <2>4. QED BY <2>2, <2>3, SmallerIsBelow
<1>9. ASSUME MaxSessions > 0, NEW j \in Keys PROVE TurnsFit(j)'
  <2> SUFFICES ASSUME NEW T \in SUBSET SessionsOf(j)', InTurn(T)'
               PROVE  IsFiniteSet(T) /\ Cardinality(T) <= MaxSessions
    BY DEF TurnsFit
  <2>1. T \subseteq SessionsOf(j) \cup {l} /\ T \subseteq Launches
    BY <1>7 DEF SessionsOf
  <2>2. InTurn(T)
    BY <1>1 DEF InTurn
  <2>3. CASE l \notin T
    BY <1>9, <2>1, <2>2, <2>3 DEF LimitSound, TurnsFit
  <2>4. CASE l \in T
    <3> DEFINE R == T \ {l}
    <3>1. j = k
      BY <1>1, <2>4 DEF SessionsOf
    <3>2. R \subseteq CountedStored(l)
      BY <1>3, <2>1, <2>2, <2>4, <3>1 DEF InTurn, CountedStored
    <3>3. Below(CountedStored(l))
      BY <1>2, <1>9 DEF LimitSound, PassedBelow
    <3>4. Below(R)
      BY <3>2, <3>3, SmallerIsBelow
    <3>5. T = R \cup {l} /\ l \notin R
      BY <2>4
    <3> HIDE DEF R
    <3>6. IsFiniteSet(R \cup {l}) /\ Cardinality(R \cup {l}) = Cardinality(R) + 1
      BY <3>4, <3>5, FS_AddElement DEF Below
    <3>7. Cardinality(R) \in Nat /\ Cardinality(R) < MaxSessions
      BY <3>4, FS_CardinalityType DEF Below
    <3>8. QED BY <3>5, <3>6, <3>7, MaxSessionsAssumption
  <2>5. QED BY <2>3, <2>4
<1>10. QED BY <1>5, <1>6, <1>8, <1>9 DEF LimitSound

\* Launches that counted one another stay within the limit of their account.
THEOREM LimitIsSound == Spec => []LimitSound
<1>1. Init => LimitSound
  <2> SUFFICES ASSUME Init PROVE LimitSound
    OBVIOUS
  <2>1. CountsAreLate /\ \A l \in Launches : PassedBelow(l)
    BY DEF Init, CountsAreLate, PassedBelow, Passing, WithTab
  <2>2. Stored = {} /\ \A k \in Keys : SessionsOf(k) = {}
    BY DEF Init, Stored, SessionsOf
  <2>3. IsFiniteSet({}) /\ Cardinality({}) = 0
    BY FS_EmptySet
  <2>4. ASSUME NEW k \in Keys PROVE TurnsFit(k)
    BY <2>2, <2>3, MaxSessionsAssumption DEF TurnsFit
  <2>5. QED BY <2>1, <2>2, <2>3, <2>4 DEF LimitSound
<1>2. TypeOK /\ AllNamed /\ LimitSound /\ [Next]_vars => LimitSound'
  <2>1. TypeOK /\ AllNamed /\ LimitSound /\ Next => LimitSound'
    BY QuietSteps, QuietKeeps, SweepKeeps, EstablishKeeps
  <2>2. UNCHANGED vars => AllQuiet
    BY DEF vars, callVars, tabVars, AllQuiet, Quiet
  <2>3. QED BY <2>1, <2>2, QuietKeeps
<1>3. QED BY <1>1, <1>2, TypeCorrect, PTL DEF Spec

\* The limit of an account is exceeded only by launches that overlapped, neither of
\* which had its session stored when the other counted.
THEOREM OnlyOverlapExceedsTheLimit == Spec => []OverLimitOnlyByOverlap
<1>1. LimitSound => OverLimitOnlyByOverlap
  <2> SUFFICES ASSUME LimitSound, NEW k \in Keys,
                      MaxSessions > 0, Cardinality(SessionsOf(k)) > MaxSessions,
                      InTurn(SessionsOf(k))
               PROVE  FALSE
    BY DEF OverLimitOnlyByOverlap, InTurn
  <2>1. IsFiniteSet(SessionsOf(k)) /\ Cardinality(SessionsOf(k)) <= MaxSessions
    BY DEF LimitSound, TurnsFit
  <2>2. Cardinality(SessionsOf(k)) \in Nat
    BY <2>1, FS_CardinalityType
  <2>3. QED BY <2>1, <2>2, MaxSessionsAssumption
<1>2. QED BY <1>1, LimitIsSound, PTL
=============================================================================
