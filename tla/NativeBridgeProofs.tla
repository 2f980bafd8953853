---- MODULE NativeBridgeProofs ----
(***************************************************************************)
(* The native library for any number of generations, places, serial        *)
(* numbers and devices: its references live exactly as long as it is in    *)
(* use, and it ends the process only where the device lacks something, a   *)
(* serial number has come round, or references are deleted again.          *)
(***************************************************************************)
EXTENDS NativeBridge, SequenceTheorems, TLAPS

USE BoundsAssumption, SerialsAssumption, PlatformsAssumption, HoldersAssumption

\* Serial numbers tell the first Serials uses of a place apart.
LEMMA SerialsDiffer ==
  ASSUME NEW k \in 1..Serials, NEW l \in 1..Serials, k % Serials = l % Serials
  PROVE  k = l
<1>1. \A j \in 1..Serials : j % Serials = IF j = Serials THEN 0 ELSE j
  OBVIOUS
<1> QED
  BY <1>1

----
\* The library's part of the state is typed.
LEMMA InstallTyped ==
  ASSUME TypeOK, NEW p \in Places, InstallJniHelper(p)
  PROVE  /\ holder' \in [Slots -> Generations \cup {Nobody, Others}]
         /\ uses' \in [Slots -> 0..MaxUses]
         /\ refs'[gen] \in [Names -> References]
         /\ refs' = [refs EXCEPT ![gen] = refs'[gen]]
<1> USE DEF TypeOK, InstallJniHelper
<1>1. \A n \in Names : p[n] \in Free
  BY DEF Places
<1>2. \A n \in Names : FindClass(p[n]) \in References
  BY <1>1 DEF FindClass, References, Free
<1> QED
  BY <1>1, <1>2 DEF Free

LEMMA UninstallTyped ==
  ASSUME TypeOK, NEW g \in Generations, UninstallJniHelper(g)
  PROVE  holder' \in [Slots -> Generations \cup {Nobody, Others}] /\ uses' = uses
BY DEF TypeOK, UninstallJniHelper

LEMMA LibraryTyped == TypeOK /\ [LibraryNext]_vars => TypeOK'
<1> SUFFICES ASSUME TypeOK, [LibraryNext]_vars PROVE TypeOK'
  OBVIOUS
<1> USE DEF TypeOK, process, table, Die, Become, Alive, Ready, Generations
<1>1. ASSUME Load PROVE TypeOK'
  <2>1. CASE Die("libart")
    BY <2>1
  <2>2. CASE ~Die("libart")
    <3>1. PICK p \in Places : InstallJniHelper(p)
      BY <1>1, <2>2 DEF Load
    <3>2. functions' = [functions EXCEPT ![gen] = Find] /\ Become("linked")
          /\ UNCHANGED <<process, gen, gJvmti, crash>>
      BY <1>1, <2>2 DEF Load
    <3>3. Find \subseteq Symbols
      BY DEF Find
    <3>4. /\ holder' \in [Slots -> Generations \cup {Nobody, Others}]
          /\ uses' \in [Slots -> 0..MaxUses]
          /\ refs'[gen] \in [Names -> References]
          /\ refs' = [refs EXCEPT ![gen] = refs'[gen]]
      BY <3>1, InstallTyped
    <3>5. \A g \in Generations \ {gen} : refs'[g] = refs[g] /\ image'[g] = image[g]
      BY <3>2, <3>4
    <3>6. refs' \in [Generations -> [Names -> References] \cup {<<>>}]
      BY <3>4
    <3>7. functions' \in [Generations -> SUBSET Symbols]
      BY <3>2, <3>3
    <3>8. /\ image'[gen] = "linked"
          /\ image' \in [Generations ->
               {"absent", "missing", "linked", "ready", "refused", "cleaned", "unloaded"}]
      BY <3>2
    <3>9. \A g \in Generations :
            image'[g] \notin {"absent", "missing"} => refs'[g] \in [Names -> References]
      BY <3>4, <3>5
    <3>10. /\ \A g \in Generations : g < gen <=> image'[g] \in {"cleaned", "unloaded"}
           /\ \A g \in Generations : g > gen => image'[g] = "absent"
      BY <1>1, <2>2, <3>5, <3>8 DEF Load
    <3> QED
      BY <3>2, <3>4, <3>6, <3>7, <3>8, <3>9, <3>10
  <2> QED
    BY <2>1, <2>2
<1>2. ASSUME LoadFails PROVE TypeOK'
  BY <1>2 DEF LoadFails
<1>3. ASSUME Init PROVE TypeOK'
  <2>1. CASE \E cause \in {"staleReference", "missingFunction"} : Die(cause)
    BY <2>1
  <2>2. CASE /\ image' = [image EXCEPT ![gen] =
                  IF platform.jvmti = "noEnv" THEN "refused" ELSE "ready"]
             /\ gJvmti' = [gJvmti EXCEPT ![gen] = platform.jvmti = "loads"]
             /\ UNCHANGED <<process, gen, functions, refs, table, crash>>
    <3>1. (platform.jvmti = "loads") \in BOOLEAN
      OBVIOUS
    <3>2. gJvmti' \in [Generations -> BOOLEAN]
      BY <2>2, <3>1, Zenon
    <3> HIDE <3>1
    <3>3. image[gen] = "linked" /\ image'[gen] \in {"refused", "ready"}
      BY <1>3, <2>2 DEF Init
    <3>4. \A g \in Generations \ {gen} : image'[g] = image[g]
      BY <2>2
    <3>5. image' \in [Generations ->
            {"absent", "missing", "linked", "ready", "refused", "cleaned", "unloaded"}]
      BY <2>2
    <3> QED
      BY <2>2, <3>2, <3>3, <3>4, <3>5
  <2> QED
    BY <1>3, <2>1, <2>2 DEF Init
<1>4. ASSUME Cleanup, ~Die("deletedTwice") PROVE TypeOK'
  <2>1. /\ UninstallJniHelper(gen) /\ Become("cleaned") /\ gen' = gen + 1
        /\ image[gen] = "ready" /\ gen' \in Generations
        /\ UNCHANGED <<process, functions, refs, gJvmti, crash>>
    BY <1>4, BoundsAssumption DEF Cleanup
  <2>2. holder' \in [Slots -> Generations \cup {Nobody, Others}] /\ uses' = uses
    BY <2>1, UninstallTyped
  <2>3. image'[gen] = "cleaned" /\ \A g \in Generations \ {gen} : image'[g] = image[g]
    BY <2>1
  <2>4. image' \in [Generations ->
          {"absent", "missing", "linked", "ready", "refused", "cleaned", "unloaded"}]
    BY <2>1
  <2>5. /\ \A g \in Generations : g < gen' <=> image'[g] \in {"cleaned", "unloaded"}
        /\ \A g \in Generations : g > gen' => image'[g] = "absent"
    BY <2>1, <2>3
  <2> QED
    BY <2>1, <2>2, <2>3, <2>4, <2>5
<1>5. ASSUME NEW g \in Generations, Unload(g), ~Die("deletedTwice") PROVE TypeOK'
  <2>1. /\ UninstallJniHelper(g) /\ image[g] = "cleaned"
        /\ image' = [image EXCEPT ![g] = "unloaded"]
        /\ UNCHANGED <<process, gen, functions, refs, gJvmti, crash>>
    BY <1>5 DEF Unload
  <2>2. holder' \in [Slots -> Generations \cup {Nobody, Others}] /\ uses' = uses
    BY <2>1, UninstallTyped
  <2>3. image'[g] = "unloaded" /\ \A h \in Generations \ {g} : image'[h] = image[h]
    BY <2>1
  <2>4. image' \in [Generations ->
          {"absent", "missing", "linked", "ready", "refused", "cleaned", "unloaded"}]
    BY <2>1
  <2> QED
    BY <2>1, <2>2, <2>3, <2>4
<1>6. ASSUME VisitHeapObjects \/ FindClassInitializer \/ SetEntryPointsToInterpreter
      PROVE  TypeOK'
  BY <1>6 DEF VisitHeapObjects, FindClassInitializer, SetEntryPointsToInterpreter, vars
<1>7. ASSUME NEW s \in Slots, Take(s) \/ GiveBack(s) PROVE TypeOK'
  <2>1. /\ holder' \in [Slots -> Generations \cup {Nobody, Others}]
        /\ uses' \in [Slots -> 0..MaxUses]
    <3>1. CASE Take(s)
      BY <3>1 DEF Take, Free
    <3>2. CASE GiveBack(s)
      BY <3>2 DEF GiveBack
    <3> QED
      BY <1>7, <3>1, <3>2
  <2>2. UNCHANGED <<process, gen, image, functions, refs, gJvmti, crash>>
    BY <1>7 DEF Take, GiveBack
  <2> QED
    BY <2>1, <2>2
<1>8. ASSUME UNCHANGED vars PROVE TypeOK'
  BY <1>8 DEF vars
<1>9. ASSUME Die("deletedTwice") PROVE TypeOK'
  BY <1>9
<1> QED
  BY <1>1, <1>2, <1>3, <1>4, <1>5, <1>6, <1>7, <1>8, <1>9 DEF LibraryNext

LEMMA InitLibraryTyped == InitLibrary => TypeOK
BY DEF InitLibrary, TypeOK, Generations

----
\* The references.  Each was made at some use k of its place; once its library
\* is no longer in use and nobody has had the place since, the place is free.
Given ==
  \A g \in Generations : image[g] \notin {"absent", "missing"} =>
    \A n \in Names :
      \E k \in 1..uses[refs[g][n].slot] :
        /\ refs[g][n].serial = k % Serials
        /\ ~InUse(g) /\ k = uses[refs[g][n].slot] => holder[refs[g][n].slot] = Nobody

\* A place a library holds is one some reference of it denotes.
Held ==
  \A g \in Generations, s \in Slots : holder[s] = g =>
    InUse(g) /\ \E n \in Names : refs[g][n].slot = s /\ Denotes(refs[g][n])

\* A library in use has its references.
Has ==
  \A g \in Generations : InUse(g) =>
    \A n \in Names :
      \/ Denotes(refs[g][n]) /\ holder[refs[g][n].slot] = g
      \/ Wrapped(refs[g][n].slot)

RefsInv == TypeOK /\ Given /\ Held /\ Has

LEMMA InitRefs == InitLibrary => RefsInv
BY InitLibraryTyped DEF InitLibrary, RefsInv, TypeOK, Given, Held, Has, InUse, Generations

LEMMA RefsInvLive == RefsInv => RefsLiveExactly
BY DEF RefsInv, Has, Held, RefsLiveExactly, InUse

\* Deleting the references of a library frees the places they denote.
LEMMA UninstallFrees ==
  ASSUME TypeOK, NEW g \in Generations, image[g] \notin {"absent", "missing"},
         UninstallJniHelper(g)
  PROVE  /\ uses' = uses
         /\ \A n \in Names : ~(holder'[refs[g][n].slot] # Nobody /\ Denotes(refs[g][n]))
         /\ \A s \in Slots :
              \/ holder'[s] = holder[s]
              \/ /\ holder'[s] = Nobody
                 /\ \E n \in Names : refs[g][n].slot = s /\ Denotes(refs[g][n])
BY DEF TypeOK, UninstallJniHelper, References

\* A reference to a place that has not come round denotes what it was made for, so
\* one of a library that is not in use denotes nothing.
LEMMA OldDenotesNothing ==
  ASSUME RefsInv, NEW g \in Generations, image[g] \notin {"absent", "missing"}, ~InUse(g),
         NEW n \in Names, ~Wrapped(refs[g][n].slot)
  PROVE  ~Denotes(refs[g][n])
<1> DEFINE s == refs[g][n].slot
<1>1. s \in Slots /\ uses[s] \in Nat /\ uses[s] <= Serials
  BY DEF RefsInv, TypeOK, References, Wrapped
<1>2. PICK k \in 1..uses[s] :
        refs[g][n].serial = k % Serials /\ (k = uses[s] => holder[s] = Nobody)
  BY DEF RefsInv, Given
<1>3. k % Serials = uses[s] % Serials => k = uses[s]
  BY <1>1, SerialsDiffer
<1> QED
  BY <1>2, <1>3 DEF Denotes

\* Deleting references twice takes none from a library in use.
LEMMA UninstallRefs ==
  ASSUME RefsInv, TypeOK', NEW g \in Generations,
         image[g] \notin {"absent", "missing"}, g = gen \/ ~InUse(g),
         UninstallJniHelper(g), ~InUse(g)', image'[g] \notin {"absent", "missing"},
         refs' = refs, \A h \in Generations : h # g => image'[h] = image[h]
  PROVE  RefsInv'
<1> USE DEF RefsInv
<1>1. uses' = uses
  BY UninstallFrees
<1>2. \A s \in Slots :
        \/ holder'[s] = holder[s]
        \/ holder'[s] = Nobody /\ \E n \in Names : refs[g][n].slot = s /\ Denotes(refs[g][n])
  BY UninstallFrees
<1>3. \A n \in Names : ~(holder'[refs[g][n].slot] # Nobody /\ Denotes(refs[g][n]))
  BY UninstallFrees
<1>4. \A h \in Generations, n \in Names :
        image[h] \notin {"absent", "missing"} => refs[h][n].slot \in Slots
  BY DEF TypeOK, References
<1>5. Given'
  <2> SUFFICES ASSUME NEW h \in Generations, image'[h] \notin {"absent", "missing"},
                      NEW n \in Names
               PROVE  \E k \in 1..uses[refs[h][n].slot] :
                        /\ refs[h][n].serial = k % Serials
                        /\ ~InUse(h)' /\ k = uses[refs[h][n].slot]
                             => holder'[refs[h][n].slot] = Nobody
    BY <1>1 DEF Given
  <2>1. image[h] \notin {"absent", "missing"}
    OBVIOUS
  <2>2. PICK k \in 1..uses[refs[h][n].slot] :
          /\ refs[h][n].serial = k % Serials
          /\ ~InUse(h) /\ k = uses[refs[h][n].slot] => holder[refs[h][n].slot] = Nobody
    BY <2>1 DEF Given
  <2>3. CASE h # g
    BY <2>1, <2>2, <2>3, <1>2, <1>4 DEF InUse
  <2>4. CASE h = g
    <3>1. k = uses[refs[h][n].slot] => holder'[refs[h][n].slot] = Nobody
      BY <2>1, <2>2, <2>4, <1>2, <1>3, <1>4 DEF Denotes
    <3> QED
      BY <2>2, <3>1
  <2> QED
    BY <2>3, <2>4
<1>6. Held'
  <2> SUFFICES ASSUME NEW h \in Generations, NEW s \in Slots, holder'[s] = h
               PROVE  InUse(h)' /\ \E n \in Names : refs[h][n].slot = s /\ Denotes(refs[h][n])'
    BY DEF Held
  <2>1. holder[s] = h
    BY <1>2
  <2>2. InUse(h)
    BY <2>1 DEF Held
  <2>3. PICK n \in Names : refs[h][n].slot = s /\ Denotes(refs[h][n])
    BY <2>1 DEF Held
  <2>4. h # g
    BY <1>3, <2>3
  <2>5. InUse(h)'
    BY <2>2, <2>4 DEF InUse
  <2>6. Denotes(refs[h][n])'
    BY <1>1, <2>3 DEF Denotes
  <2> QED
    BY <2>3, <2>5, <2>6
<1>7. Has'
  <2> SUFFICES ASSUME NEW h \in Generations, InUse(h)', NEW n \in Names,
                      ~Wrapped(refs[h][n].slot)
               PROVE  Denotes(refs[h][n])' /\ holder'[refs[h][n].slot] = h
    BY <1>1 DEF Has, Wrapped
  <2> DEFINE s == refs[h][n].slot
  <2>1. h # g /\ InUse(h)
    BY DEF InUse
  <2>2. ~InUse(g)
    BY <2>1 DEF InUse, TypeOK, Generations
  <2>3. s \in Slots
    BY <2>1, <1>4 DEF InUse
  <2>4. Denotes(refs[h][n]) /\ holder[s] = h
    BY <2>1 DEF Has
  <2>5. \A m \in Names : ~(refs[g][m].slot = s /\ Denotes(refs[g][m]))
    BY <2>2, OldDenotesNothing
  <2>6. holder'[s] = holder[s]
    BY <1>2, <2>3, <2>5
  <2> QED
    BY <1>1, <2>4, <2>6 DEF Denotes
<1> QED
  BY <1>5, <1>6, <1>7

\* Places handed out leave every other reference as it was, for none denotes a
\* free place.
LEMMA InstallRefs ==
  ASSUME RefsInv, TypeOK', image[gen] = "absent", NEW p \in Places, InstallJniHelper(p),
         image' = [image EXCEPT ![gen] = "linked"]
  PROVE  RefsInv'
<1> USE DEF RefsInv
<1> DEFINE given == {p[n] : n \in Names}
<1>1. \A n \in Names : p[n] \in Slots /\ holder[p[n]] = Nobody
  BY DEF Places, Free
<1>2. /\ \A s \in Slots : s \in given => holder'[s] = gen /\ uses'[s] = uses[s] + 1
      /\ \A s \in Slots : s \notin given => holder'[s] = holder[s] /\ uses'[s] = uses[s]
  BY DEF InstallJniHelper, TypeOK
<1>3. /\ \A n \in Names :
           refs'[gen][n].slot = p[n] /\ refs'[gen][n].serial = uses'[p[n]] % Serials
      /\ \A h \in Generations : h # gen => refs'[h] = refs[h] /\ image'[h] = image[h]
  BY <1>1, <1>2 DEF InstallJniHelper, FindClass, TypeOK
<1>4. gen \in Generations /\ image'[gen] = "linked"
  BY DEF TypeOK
<1>5. \A s \in Slots : uses[s] \in Nat /\ holder[s] # gen
  <2>1. \A s \in Slots : uses[s] \in Nat
    BY DEF TypeOK
  <2>2. \A s \in Slots : holder[s] # gen
    BY <1>4 DEF Held, InUse
  <2> QED
    BY <2>1, <2>2
<1>6. \A h \in Generations, n \in Names :
        image[h] \notin {"absent", "missing"} => refs[h][n].slot \in Slots
  BY DEF TypeOK, References
<1>7. Given'
  <2> SUFFICES ASSUME NEW h \in Generations, image'[h] \notin {"absent", "missing"},
                      NEW n \in Names
               PROVE  \E k \in 1..uses'[refs'[h][n].slot] :
                        /\ refs'[h][n].serial = k % Serials
                        /\ ~InUse(h)' /\ k = uses'[refs'[h][n].slot]
                             => holder'[refs'[h][n].slot] = Nobody
    BY DEF Given
  <2>1. CASE h = gen
    <3>1. InUse(h)'
      BY <1>4, <2>1 DEF InUse
    <3>2. uses'[p[n]] \in Nat /\ uses'[p[n]] >= 1
      BY <1>1, <1>2, <1>5
    <3>3. refs'[h][n].slot = p[n] /\ refs'[h][n].serial = uses'[p[n]] % Serials
      BY <2>1, <1>3
    <3>4. uses'[p[n]] \in 1..uses'[p[n]]
      BY <3>2
    <3> QED
      BY <3>1, <3>3, <3>4
  <2>2. CASE h # gen
    <3> DEFINE s == refs[h][n].slot
    <3>1. refs'[h] = refs[h] /\ image'[h] = image[h] /\ s \in Slots
      BY <2>2, <1>3, <1>6
    <3>2. PICK k \in 1..uses[s] :
            /\ refs[h][n].serial = k % Serials
            /\ ~InUse(h) /\ k = uses[s] => holder[s] = Nobody
      BY <3>1 DEF Given
    <3>3. k \in 1..uses'[s] /\ (k = uses'[s] => k = uses[s] /\ holder'[s] = holder[s])
      BY <3>1, <1>2, <1>5
    <3> QED
      BY <3>1, <3>2, <3>3 DEF InUse
  <2> QED
    BY <2>1, <2>2
<1>8. Held'
  <2> SUFFICES ASSUME NEW h \in Generations, NEW s \in Slots, holder'[s] = h
               PROVE  InUse(h)' /\ \E n \in Names : refs'[h][n].slot = s /\ Denotes(refs[h][n])'
    BY DEF Held
  <2>1. CASE s \in given
    <3>1. h = gen /\ h # Nobody
      BY <2>1, <1>2, <1>4
    <3>2. PICK n \in Names : s = p[n]
      BY <2>1
    <3>3. refs'[h][n].slot = s /\ refs'[h][n].serial = uses'[s] % Serials
      BY <3>1, <3>2, <1>3
    <3>4. Denotes(refs[h][n])'
      BY <3>1, <3>3 DEF Denotes
    <3> QED
      BY <3>1, <3>3, <3>4, <1>4 DEF InUse
  <2>2. CASE s \notin given
    <3>1. holder[s] = h /\ h # gen /\ uses'[s] = uses[s] /\ holder'[s] = holder[s]
      BY <2>2, <1>2, <1>5
    <3>2. InUse(h)
      BY <3>1 DEF Held
    <3>3. PICK n \in Names : refs[h][n].slot = s /\ Denotes(refs[h][n])
      BY <3>1 DEF Held
    <3> QED
      BY <3>1, <3>2, <3>3, <1>3 DEF InUse, Denotes
  <2> QED
    BY <2>1, <2>2
<1>9. Has'
  <2> SUFFICES ASSUME NEW h \in Generations, InUse(h)', NEW n \in Names
               PROVE  \/ Denotes(refs[h][n])' /\ holder'[refs'[h][n].slot] = h
                      \/ Wrapped(refs[h][n].slot)'
    BY DEF Has
  <2>1. CASE h = gen
    <3>1. refs'[h][n].slot = p[n] /\ refs'[h][n].serial = uses'[p[n]] % Serials
      BY <2>1, <1>3
    <3>2. holder'[p[n]] = h /\ h # Nobody
      BY <2>1, <1>1, <1>2, <1>4
    <3> QED
      BY <3>1, <3>2 DEF Denotes
  <2>2. CASE h # gen
    <3>1. InUse(h) /\ refs'[h] = refs[h] /\ refs[h][n].slot \in Slots
      BY <2>2, <1>3, <1>6 DEF InUse
    <3>2. \/ Denotes(refs[h][n]) /\ holder[refs[h][n].slot] = h
          \/ Wrapped(refs[h][n].slot)
      BY <3>1 DEF Has
    <3>3. holder[refs[h][n].slot] = h => refs[h][n].slot \notin given
      BY <1>1
    <3> QED
      BY <3>1, <3>2, <3>3, <1>2, <1>5 DEF Denotes, Wrapped
  <2> QED
    BY <2>1, <2>2
<1> QED
  BY <1>7, <1>8, <1>9

\* Other code takes only free places and gives back only its own.
LEMMA OthersRefs ==
  ASSUME RefsInv, TypeOK', NEW s \in Slots, Take(s) \/ GiveBack(s)
  PROVE  RefsInv'
<1> USE DEF RefsInv, Take, GiveBack, Free
<1>1. \A h \in Generations, n \in Names :
        image[h] \notin {"absent", "missing"} => refs[h][n].slot \in Slots
  BY DEF TypeOK, References
<1>2. \A r \in Slots : uses[r] \in Nat /\ uses'[r] \in Nat /\ uses'[r] >= uses[r]
  <2>1. CASE Take(s)
    BY <2>1 DEF TypeOK
  <2>2. CASE GiveBack(s)
    BY <2>2 DEF TypeOK
  <2> QED
    BY <2>1, <2>2
<1>3. \A r \in Slots :
        \/ holder'[r] = holder[r] /\ uses'[r] = uses[r]
        \/ holder[r] = Nobody /\ holder'[r] = Others /\ uses'[r] = uses[r] + 1
        \/ holder[r] = Others /\ holder'[r] = Nobody /\ uses'[r] = uses[r]
  BY DEF TypeOK
<1>4. UNCHANGED <<image, refs>>
  OBVIOUS
<1>5. Given'
  <2> SUFFICES ASSUME NEW h \in Generations, image[h] \notin {"absent", "missing"},
                      NEW n \in Names
               PROVE  \E k \in 1..uses'[refs[h][n].slot] :
                        /\ refs[h][n].serial = k % Serials
                        /\ ~InUse(h) /\ k = uses'[refs[h][n].slot]
                             => holder'[refs[h][n].slot] = Nobody
    BY <1>4 DEF Given, InUse
  <2>1. PICK k \in 1..uses[refs[h][n].slot] :
          /\ refs[h][n].serial = k % Serials
          /\ ~InUse(h) /\ k = uses[refs[h][n].slot] => holder[refs[h][n].slot] = Nobody
    BY DEF Given
  <2> QED
    BY <2>1, <1>1, <1>2, <1>3
<1>6. Held'
  BY <1>3, <1>4 DEF Held, InUse, Denotes
<1>7. Has'
  BY <1>1, <1>2, <1>3, <1>4 DEF Has, InUse, Denotes, Wrapped
<1> QED
  BY <1>5, <1>6, <1>7

\* Steps that leave the table alone and take no library out of use
LEMMA QuietRefs ==
  ASSUME RefsInv, TypeOK', UNCHANGED <<refs, table>>,
         \A g \in Generations :
           \/ image'[g] = image[g]
           \/ image[g] = "linked" /\ InUse(g)'
           \/ image[g] = "absent" /\ image'[g] = "missing"
  PROVE  RefsInv'
<1> USE DEF RefsInv, InUse, table
<1>1. Given'
  BY DEF Given
<1>2. Held'
  BY DEF Held, Denotes
<1>3. Has'
  BY DEF Has, Denotes, Wrapped
<1> QED
  BY <1>1, <1>2, <1>3

LEMMA NextRefs == RefsInv /\ [LibraryNext]_vars => RefsInv'
<1> SUFFICES ASSUME RefsInv, [LibraryNext]_vars PROVE RefsInv'
  OBVIOUS
<1>1. TypeOK /\ TypeOK'
  BY LibraryTyped DEF RefsInv
<1> USE DEF Become
<1>2. ASSUME NEW cause, Die(cause) PROVE RefsInv'
  BY <1>1, <1>2, QuietRefs DEF Die
<1>3. CASE Load
  BY <1>1, <1>2, <1>3, InstallRefs DEF Load
<1>4. CASE LoadFails
  BY <1>1, <1>4, QuietRefs DEF LoadFails, TypeOK
<1>5. CASE Init
  <2>1. CASE \E cause : Die(cause)
    BY <1>2, <2>1
  <2>2. CASE ~\E cause : Die(cause)
    <3>1. /\ image[gen] = "linked"
          /\ image' = [image EXCEPT ![gen] =
               IF platform.jvmti = "noEnv" THEN "refused" ELSE "ready"]
          /\ UNCHANGED <<refs, table>>
      BY <1>5, <2>2 DEF Init
    <3> QED
      BY <1>1, <3>1, QuietRefs DEF TypeOK, InUse
  <2> QED
    BY <2>1, <2>2
<1>6. CASE Cleanup /\ ~Die("deletedTwice")
  <2>1. /\ gen \in Generations /\ image[gen] = "ready"
        /\ \A h \in Generations : image'[h] = IF h = gen THEN "cleaned" ELSE image[h]
        /\ UninstallJniHelper(gen) /\ refs' = refs
    BY <1>1, <1>6 DEF Cleanup, Ready, TypeOK
  <2> QED
    BY <1>1, <2>1, UninstallRefs DEF InUse
<1>7. ASSUME NEW g \in Generations, Unload(g), ~Die("deletedTwice") PROVE RefsInv'
  <2>1. /\ image[g] = "cleaned"
        /\ \A h \in Generations : image'[h] = IF h = g THEN "unloaded" ELSE image[h]
        /\ UninstallJniHelper(g) /\ refs' = refs
    BY <1>1, <1>7 DEF Unload, TypeOK
  <2> QED
    BY <1>1, <2>1, UninstallRefs DEF InUse
<1>8. CASE UNCHANGED vars
  BY <1>1, <1>8, QuietRefs DEF vars, table
<1>9. CASE VisitHeapObjects \/ FindClassInitializer \/ SetEntryPointsToInterpreter
  BY <1>2, <1>8, <1>9 DEF VisitHeapObjects, FindClassInitializer, SetEntryPointsToInterpreter
<1> QED
  BY <1>1, <1>2, <1>3, <1>4, <1>5, <1>6, <1>7, <1>8, <1>9, OthersRefs DEF LibraryNext

LEMMA BridgeRefs == RefsInv /\ [NextBridge]_bridgeVars => RefsInv'
<1> SUFFICES ASSUME RefsInv, [NextBridge]_bridgeVars PROVE RefsInv'
  OBVIOUS
<1>1. CASE LibraryNext \/ UNCHANGED vars
  BY <1>1, NextRefs
<1>2. CASE Die("staleReference")
  <2>1. TypeOK'
    BY <1>2 DEF RefsInv, TypeOK, Die, process, table
  <2> QED
    BY <1>2, <2>1, QuietRefs DEF Die
<1> QED
  BY <1>1, <1>2 DEF NextBridge, bridgeVars, Request, InvokeDirectly, CallNonvirtual

\* From JNI_OnLoad to Cleanup the library has live references of its own, and none
\* after, however often they are deleted and whoever uses the table besides.
\* (jni_helper.cxx 80-137, xposedkit.cxx 42-49, 75-77)
THEOREM ReferencesLiveExactly == Spec => []RefsLiveExactly
<1>1. InitBridge => RefsInv
  BY InitRefs DEF InitBridge
<1> QED
  BY <1>1, BridgeRefs, RefsInvLive, PTL DEF Spec

----
\* What a library in use has found is what the platform has, and only LSPosed
\* replaces one.
Found ==
  /\ \A g \in Generations : InUse(g) => functions[g] = platform.symbols
  /\ image[gen] = "ready" /\ platform.jvmti # "refused" => gJvmti[gen]
  /\ backend = "legacy" => gen = 1

\* What EndsOnlyForCause says of an end by this cause
Accounted(cause) ==
  \/ cause = "no"
  \/ cause = "libart" /\ ~platform.libart
  \/ /\ cause = "missingFunction"
     /\ \/ ~(RuntimeSymbols \subseteq platform.symbols)
        \/ backend = "legacy" /\ ~InitializersFindable(platform.symbols)
  \/ cause = "noJvmti" /\ platform.jvmti = "refused"
  \/ cause = "staleReference" /\ Lost
  \/ cause = "deletedTwice" /\ backend = "lsposed" /\ (LateUnload \/ Lost)

LEMMA EndsAccounted == EndsOnlyForCause <=> Accounted(crash)
BY DEF EndsOnlyForCause, Accounted, Alive

LifeInv == RefsInv /\ Found /\ EndsOnlyForCause

LEMMA InitLife == InitBridge => LifeInv
<1> SUFFICES ASSUME InitBridge PROVE LifeInv
  OBVIOUS
<1>1. RefsInv
  BY InitRefs DEF InitBridge
<1>2. gen \in Generations /\ \A g \in Generations : image[g] = "absent"
  BY DEF InitBridge, InitLibrary, Generations
<1>3. Found
  BY <1>2 DEF Found, InUse, InitBridge, InitLibrary
<1>4. EndsOnlyForCause
  BY DEF InitBridge, InitLibrary, EndsOnlyForCause, Alive
<1> QED
  BY <1>1, <1>3, <1>4 DEF LifeInv

\* An end changes nothing but crash, so that its cause may be looked for before it.
LEMMA DiesAccounted ==
  ASSUME NEW cause, Die(cause), Accounted(cause)
  PROVE  EndsOnlyForCause'
<1>1. UNCHANGED <<process, gen, image, functions, refs, gJvmti, table>> /\ crash' = cause
  BY DEF Die
<1>2. Lost' = Lost
  BY <1>1 DEF Lost, Wrapped, table
<1>3. LateUnload' = LateUnload
  BY <1>1 DEF LateUnload, UninstallAborts, DeleteAborts, Denotes, table, process
<1> QED
  BY <1>1, <1>2, <1>3, Zenon
  DEF Accounted, EndsOnlyForCause, Alive, process, InitializersFindable

\* In a library in use, a reference that denotes nothing has lost its place.
LEMMA GoneIsLost ==
  ASSUME RefsInv, InUse(gen), NEW n \in Names, ~Denotes(refs[gen][n])
  PROVE  Lost
BY DEF RefsInv, TypeOK, Has, Lost

LEMMA LibraryEnds == LifeInv /\ [LibraryNext]_vars => EndsOnlyForCause'
<1> SUFFICES ASSUME LifeInv, [LibraryNext]_vars PROVE EndsOnlyForCause'
  OBVIOUS
<1> USE DEF LifeInv, Ready, Become
<1>1. ASSUME crash' = "no" PROVE EndsOnlyForCause'
  BY <1>1 DEF EndsOnlyForCause, Alive
<1>2. InUse(gen) => functions[gen] = platform.symbols
  BY DEF Found, RefsInv, TypeOK
<1>3. CASE Load
  BY <1>1, <1>3, DiesAccounted DEF Load, Alive, Accounted
<1>4. CASE Init
  <2>1. InUse(gen)
    BY <1>4 DEF Init, InUse
  <2>2. CASE ~ArtMethodInit
    <3>1. Lost
      BY <2>1, <2>2, GoneIsLost DEF ArtMethodInit, Names
    <3>2. Die("staleReference")
      BY <1>4, <2>2 DEF Init
    <3> QED
      BY <3>1, <3>2, DiesAccounted DEF Accounted
  <2>3. CASE ArtMethodInit /\ ~(RuntimeSymbols \subseteq functions[gen])
    BY <1>2, <1>4, <2>1, <2>3, DiesAccounted DEF Init, Accounted
  <2>4. CASE ArtMethodInit /\ RuntimeSymbols \subseteq functions[gen]
    BY <1>1, <1>4, <2>4 DEF Init, Alive
  <2> QED
    BY <2>2, <2>3, <2>4
<1>5. CASE Cleanup
  <2>1. CASE UninstallAborts(gen)
    <3>1. Lost
      BY <1>5, <2>1, GoneIsLost DEF Cleanup, UninstallAborts, DeleteAborts, InUse
    <3> QED
      BY <1>5, <2>1, <3>1, DiesAccounted DEF Cleanup, Accounted
  <2> QED
    BY <1>1, <1>5, <2>1 DEF Cleanup, Alive
<1>6. ASSUME NEW g \in Generations, Unload(g) PROVE EndsOnlyForCause'
  <2>1. CASE UninstallAborts(g)
    <3>1. g \in 1..(gen - 1) /\ gen # 1 /\ backend \in {"legacy", "lsposed"}
      BY <1>6 DEF Unload, RefsInv, TypeOK, Generations
    <3>2. LateUnload /\ backend = "lsposed"
      BY <1>6, <2>1, <3>1 DEF Unload, LateUnload, Found
    <3> QED
      BY <1>6, <2>1, <3>2, DiesAccounted DEF Unload, Accounted
  <2> QED
    BY <1>1, <1>6, <2>1 DEF Unload, Alive
<1>7. CASE VisitHeapObjects
  <2>1. CASE gJvmti[gen]
    BY <1>1, <1>7, <2>1 DEF VisitHeapObjects, Alive, vars
  <2>2. CASE ~gJvmti[gen]
    BY <1>7, <2>2, DiesAccounted DEF VisitHeapObjects, Found, Accounted
  <2> QED
    BY <2>1, <2>2
<1>8. CASE FindClassInitializer
  <2>1. functions[gen] = platform.symbols
    BY <1>2, <1>8 DEF FindClassInitializer, InUse
  <2>2. CASE InitializersFindable(functions[gen])
    BY <1>1, <1>8, <2>2 DEF FindClassInitializer, Alive, vars
  <2>3. CASE ~InitializersFindable(functions[gen])
    BY <1>8, <2>1, <2>3, DiesAccounted DEF FindClassInitializer, Accounted
  <2> QED
    BY <2>2, <2>3
<1>9. CASE SetEntryPointsToInterpreter
  <2>1. CASE Denotes(refs[gen]["Class_Executable"])
    BY <1>1, <1>9, <2>1 DEF SetEntryPointsToInterpreter, Alive, vars
  <2>2. CASE ~Denotes(refs[gen]["Class_Executable"])
    <3>1. Lost
      BY <1>9, <2>2, GoneIsLost DEF SetEntryPointsToInterpreter, InUse, Names
    <3> QED
      BY <1>9, <2>2, <3>1, DiesAccounted DEF SetEntryPointsToInterpreter, Accounted
  <2> QED
    BY <2>1, <2>2
<1>10. CASE LoadFails \/ \E s \in Slots : Take(s) \/ GiveBack(s)
  BY <1>1, <1>10 DEF LoadFails, Take, GiveBack, Alive
<1>11. CASE UNCHANGED vars
  <2>1. Lost' = Lost
    BY <1>11 DEF vars, table, Lost, Wrapped
  <2>2. LateUnload' = LateUnload
    BY <1>11
    DEF vars, table, process, LateUnload, UninstallAborts, DeleteAborts, Denotes
  <2>3. UNCHANGED <<backend, platform, crash>> /\ EndsOnlyForCause
    BY <1>11 DEF vars, process
  <2> QED
    BY <2>1, <2>2, <2>3, Zenon DEF EndsOnlyForCause, Alive, InitializersFindable
<1> QED
  BY <1>3, <1>4, <1>5, <1>6, <1>7, <1>8, <1>9, <1>10, <1>11 DEF LibraryNext

LEMMA NextFound == TypeOK /\ TypeOK' /\ Found /\ [LibraryNext]_vars => Found'
<1> SUFFICES ASSUME TypeOK, TypeOK', Found, [LibraryNext]_vars PROVE Found'
  OBVIOUS
<1> USE DEF TypeOK, Found, InUse, process, table, Become, Ready
<1>1. ASSUME UNCHANGED <<process, gen, image, functions, gJvmti>> PROVE Found'
  BY <1>1
<1>2. ASSUME NEW cause, Die(cause) PROVE Found'
  BY <1>1, <1>2 DEF Die
<1>3. CASE Load
  <2>1. CASE \E cause : Die(cause)
    BY <1>2, <2>1
  <2>2. CASE ~\E cause : Die(cause)
    <3>1. /\ image' = [image EXCEPT ![gen] = "linked"]
          /\ functions' = [functions EXCEPT ![gen] = platform.symbols]
          /\ UNCHANGED <<process, gen, gJvmti>>
      BY <1>3, <2>2 DEF Load, Find
    <3> QED
      BY <3>1
  <2> QED
    BY <2>1, <2>2
<1>4. CASE LoadFails
  BY <1>4 DEF LoadFails
<1>5. CASE Init
  <2>1. CASE \E cause : Die(cause)
    BY <1>2, <2>1
  <2>2. CASE ~\E cause : Die(cause)
    <3>1. /\ image' = [image EXCEPT ![gen] =
               IF platform.jvmti = "noEnv" THEN "refused" ELSE "ready"]
          /\ gJvmti' = [gJvmti EXCEPT ![gen] = platform.jvmti = "loads"]
          /\ image[gen] = "linked"
          /\ UNCHANGED <<process, gen, functions>>
      BY <1>5, <2>2 DEF Init
    <3>2. gJvmti'[gen] = (platform.jvmti = "loads")
      BY <3>1
    <3>3. platform.jvmti \in {"loads", "refused", "noEnv"}
      OBVIOUS
    <3>4. image'[gen] = IF platform.jvmti = "noEnv" THEN "refused" ELSE "ready"
      BY <3>1
    <3>5. \A g \in Generations \ {gen} : image'[g] = image[g] /\ gJvmti'[g] = gJvmti[g]
      BY <3>1
    <3>6. \A g \in Generations : InUse(g)' => functions'[g] = platform'.symbols
      <4>1. InUse(gen)
        BY <3>1
      <4> QED
        BY <3>1, <3>5, <4>1
    <3>7. image'[gen'] = "ready" /\ platform'.jvmti # "refused" => gJvmti'[gen']
      <4>1. gen' = gen /\ platform' = platform
        BY <3>1
      <4>2. platform.jvmti # "noEnv" /\ platform.jvmti # "refused" => gJvmti'[gen]
        BY <3>2, <3>3
      <4> QED
        BY <3>4, <4>1, <4>2
    <3> QED
      BY <3>1, <3>6, <3>7
  <2> QED
    BY <2>1, <2>2
<1>6. CASE Cleanup
  BY <1>2, <1>6 DEF Cleanup, Generations
<1>7. ASSUME NEW g \in Generations, Unload(g) PROVE Found'
  BY <1>2, <1>7 DEF Unload
<1>8. CASE VisitHeapObjects \/ FindClassInitializer \/ SetEntryPointsToInterpreter
  BY <1>1, <1>2, <1>8 DEF VisitHeapObjects, FindClassInitializer,
     SetEntryPointsToInterpreter, vars
<1>9. CASE \E s \in Slots : Take(s) \/ GiveBack(s)
  BY <1>1, <1>9 DEF Take, GiveBack
<1>10. CASE UNCHANGED vars
  BY <1>1, <1>10 DEF vars
<1> QED
  BY <1>3, <1>4, <1>5, <1>6, <1>7, <1>8, <1>9, <1>10 DEF LibraryNext

LEMMA NextLife == LifeInv /\ [NextBridge]_bridgeVars => LifeInv'
<1> SUFFICES ASSUME LifeInv, [NextBridge]_bridgeVars PROVE LifeInv'
  OBVIOUS
<1>1. RefsInv /\ RefsInv' /\ TypeOK /\ TypeOK'
  BY BridgeRefs DEF LifeInv, RefsInv
<1>2. CASE [LibraryNext]_vars
  <2>1. Found'
    BY <1>1, <1>2, NextFound DEF LifeInv
  <2> QED
    BY <1>1, <1>2, <2>1, LibraryEnds DEF LifeInv
<1>3. CASE CallNonvirtual /\ Die("staleReference")
  <2>1. Found'
    BY <1>3 DEF LifeInv, Found, Die, process, table, InUse
  <2>2. InUse(gen) /\ "Class_Executable" \in Names
    BY <1>3 DEF CallNonvirtual, InUse, Names
  <2>3. ~Denotes(refs[gen]["Class_Executable"])
    BY <1>3 DEF CallNonvirtual, Die, Legacy, Alive, vars
  <2>4. Lost
    BY <1>1, <2>2, <2>3, GoneIsLost
  <2>5. EndsOnlyForCause'
    BY <1>3, <2>4, DiesAccounted DEF Accounted
  <2> QED
    BY <1>1, <2>1, <2>5 DEF LifeInv
<1> QED
  BY <1>2, <1>3 DEF NextBridge, bridgeVars, Request, InvokeDirectly, CallNonvirtual

\* Wherever the process is ended, the device lacks what the library needs, a
\* serial number has come round, or JNI_OnUnload deletes references again after a
\* hot reload: no call uses a reference that is gone, and none calls the function
\* for deoptimize where it is missing.
\* (xposedkit.cxx 42-77, 184-199, 203-220, 278-293, class_linker.cxx 18-26)
THEOREM EndsForKnownCauses == Spec => []EndsOnlyForCause
<1>1. LifeInv => EndsOnlyForCause
  BY DEF LifeInv
<1> QED
  BY <1>1, InitLife, NextLife, PTL DEF Spec

----
\* invokeSpecial beside reflection, for calls with any number of parameters: where
\* only classes that are no boxes, and void, are involved, the two come to the same.

Fields == {"primitive", "reference", "unfit"}

\* A tuple of at most MaxArgs members is a sequence.
LEMMA UpToIsSeq ==
  ASSUME NEW S, NEW q \in Calling!UpTo(S)
  PROVE  q \in Seq(S) /\ Len(q) \in 0..MaxArgs /\ DOMAIN q = 1..Len(q)
BY SeqDef, MaxArgsAssumption DEF Calling!UpTo

LEMMA SeqIsUpTo ==
  ASSUME NEW S, NEW q \in Seq(S), Len(q) <= MaxArgs
  PROVE  q \in Calling!UpTo(S)
BY SeqDef, MaxArgsAssumption DEF Calling!UpTo

\* The parameters and the arguments of a call are sequences.
LEMMA CallTyped ==
  ASSUME NEW r \in Calling!Calls
  PROVE  /\ r.params \in Seq(Calling!Types) /\ Len(r.params) \in 0..MaxArgs
         /\ DOMAIN r.params = 1..Len(r.params)
         /\ r.args \in Seq({"null", "fits", "misfit"})
         /\ DOMAIN r.args = 1..Len(r.args)
         /\ r.method \in BOOLEAN /\ r.throws \in BOOLEAN
         /\ r.returns \in Calling!Types \cup {"void", "Void"}
<1>1. /\ r.params \in Calling!UpTo(Calling!Types)
      /\ r.args \in Calling!UpTo({"null", "fits", "misfit"})
      /\ r.method \in BOOLEAN /\ r.throws \in BOOLEAN
      /\ r.returns \in Calling!Types \cup {"void", "Void"}
  BY DEF Calling!Calls
<1> QED
  BY <1>1, UpToIsSeq

----
\* What is known of a call on its way.  While there is one, the library neither
\* comes nor goes, as the backend is the legacy one.
CallInv ==
  /\ Calling!TypeOK
  /\ at # "idle" =>
       /\ backend = "legacy" /\ image[gen] \in {"ready", "missing"}
       /\ ~request.method => request.returns = "void"
  /\ at \in {"idle", "start"} => cargs = <<>>
  /\ at \in {"idle", "start", "convert"} => times = 0 /\ uncaught = FALSE
  /\ at = "convert" =>
       /\ Len(request.args) = Len(request.params)
       /\ Len(cargs) <= Len(request.params)
       /\ \A i \in 1..Len(cargs) :
            cargs[i] = Calling!ToPrimitiveType(request.params[i], request.args[i])
  /\ at = "box" => request.returns = "box"
  /\ AsReflection

LEMMA InitCall == InitBridge => CallInv
<1> SUFFICES ASSUME InitBridge PROVE CallInv
  OBVIOUS
<1> USE DEF InitBridge, Calling!InitCall
<1>1. ASSUME NEW S PROVE <<>> \in Calling!UpTo(S)
  <2>1. <<>> \in Seq(S) /\ Len(<<>>) <= MaxArgs
    BY MaxArgsAssumption
  <2> QED
    BY <2>1, SeqIsUpTo
<1>2. request \in Calling!Calls
  BY <1>1 DEF Calling!NoRequest, Calling!Calls, Calling!Types
<1>3. Calling!TypeOK
  BY <1>1, <1>2 DEF Calling!TypeOK, Calling!Outcomes, Fields
<1> QED
  BY <1>3 DEF CallInv, AsReflection

\* The conversions keep the types.
LEMMA ConvertTyped ==
  ASSUME Calling!TypeOK, Len(cargs) < Len(request.params),
         NEW f \in Fields, cargs' = Append(cargs, f)
  PROVE  /\ cargs' \in Calling!UpTo(Fields)
         /\ Len(cargs') = Len(cargs) + 1
         /\ \A i \in 1..Len(cargs) : cargs'[i] = cargs[i]
         /\ cargs'[Len(cargs) + 1] = f
<1>1. cargs \in Seq(Fields)
  BY UpToIsSeq DEF Calling!TypeOK, Fields
<1>2. Len(request.params) \in 0..MaxArgs
  BY CallTyped DEF Calling!TypeOK
<1>3. cargs' \in Seq(Fields) /\ Len(cargs') = Len(cargs) + 1
  BY <1>1
<1>4. Len(cargs') <= MaxArgs
  BY <1>1, <1>2, <1>3, MaxArgsAssumption
<1>5. cargs' \in Calling!UpTo(Fields)
  BY <1>3, <1>4, SeqIsUpTo
<1> QED
  BY <1>1, <1>3, <1>5

LEMMA ReturnTypes == Calling!ReturnType \in {"Object", "box", "Void"}
BY DEF Calling!ReturnType, Calling!GetPrimitiveType

\* Steps of the call
LEMMA StepTyped ==
  ASSUME CallInv, Calling!CallNonvirtual
  PROVE  Calling!TypeOK'
<1> USE DEF CallInv, Calling!TypeOK, Calling!End, Calling!Outcomes
<1>1. CASE Calling!Start
  BY <1>1 DEF Calling!Start
<1>2. CASE Calling!Convert
  <2>1. UNCHANGED <<request, times, uncaught>>
    BY <1>2 DEF Calling!Convert
  <2>2. CASE UNCHANGED cargs
    BY <1>2, <2>1, <2>2 DEF Calling!Convert
  <2>3. CASE \E f \in Fields : cargs' = Append(cargs, f) /\ Len(cargs) < Len(request.params)
    BY <1>2, <2>1, <2>3, ConvertTyped DEF Calling!Convert, Fields
  <2>4. \A type, arg : Calling!ToPrimitiveType(type, arg) \in Fields
    BY DEF Calling!ToPrimitiveType, Fields
  <2>5. Len(cargs) + 1 <= Len(request.params) => Len(cargs) < Len(request.params)
    BY CallTyped, UpToIsSeq DEF Fields
  <2> QED
    BY <1>2, <2>2, <2>3, <2>4, <2>5 DEF Calling!Convert
<1>3. CASE Calling!Invoke
  <2>1. /\ UNCHANGED <<request, cargs, uncaught>> /\ times' \in Nat
        /\ \/ at' = "returned" /\ outcome' \in Calling!Outcomes
           \/ at' = "box" /\ outcome' = outcome
    <3> USE <1>3 DEF Calling!Invoke
    <3>1. UNCHANGED <<request, cargs, uncaught>> /\ times' \in Nat
      OBVIOUS
    <3>2. CASE ~Calling!WellPassed
      BY <3>1, <3>2
    <3>3. CASE Calling!WellPassed /\ Calling!ReturnType = "Object"
      BY <3>1, <3>3 DEF Calling!Plain
    <3>4. CASE Calling!WellPassed /\ Calling!ReturnType = "box"
      BY <3>1, <3>4
    <3>5. CASE Calling!WellPassed /\ Calling!ReturnType = "Void"
      BY <3>1, <3>5
    <3> QED
      BY <3>2, <3>3, <3>4, <3>5, ReturnTypes
  <2> QED
    BY <2>1
<1>4. CASE Calling!Box
  BY <1>4, CallTyped DEF Calling!Box
<1> QED
  BY <1>1, <1>2, <1>3, <1>4 DEF Calling!CallNonvirtual
\* For a call that confuses nothing, each argument is passed as a reference.
LEMMA PlainWellPassed ==
  ASSUME CallInv, at = "convert", Len(cargs) = Len(request.params), ~Calling!Confused(request)
  PROVE  Calling!WellPassed /\ ~Calling!Refuses(request)
<1> USE DEF CallInv, Calling!TypeOK
<1>1. /\ request \in Calling!Calls
      /\ DOMAIN request.params = 1..Len(request.params)
      /\ DOMAIN request.args = 1..Len(request.params)
      /\ DOMAIN cargs = 1..Len(request.params)
  BY CallTyped, UpToIsSeq
<1>2. ASSUME NEW i \in 1..Len(request.params)
      PROVE  request.params[i] = "class" /\ request.args[i] # "misfit"
  <2>1. request.params[i] \in Calling!Types
    BY <1>1, CallTyped, ElementOfSeq
  <2> QED
    BY <1>1, <2>1 DEF Calling!Types, Calling!Confused
<1>3. \A i \in 1..Len(request.params) : cargs[i] = "reference"
  BY <1>2 DEF Calling!ToPrimitiveType, Calling!GetPrimitiveType
<1>4. Calling!WellPassed
  BY <1>1, <1>2, <1>3 DEF Calling!WellPassed, Calling!Field
<1>5. ~Calling!Refuses(request)
  BY <1>1, <1>2 DEF Calling!Refuses
<1> QED
  BY <1>4, <1>5

\* The call itself, where nothing is confused
LEMMA InvokePlain ==
  ASSUME CallInv, Calling!Invoke, ~Calling!Confused(request)
  PROVE  /\ at' = "returned" /\ times' = 1 /\ uncaught' = FALSE
         /\ outcome' = Calling!Reflected(request) /\ ~Calling!Refuses(request)
<1> USE DEF CallInv, Calling!Invoke, Calling!End
<1>1. Calling!WellPassed /\ ~Calling!Refuses(request)
  BY PlainWellPassed
<1>2. /\ request.returns \in {"class", "void", "Void"}
      /\ ~request.method => request.returns = "void"
      /\ request.method \in BOOLEAN
  BY CallTyped DEF Calling!TypeOK, Calling!Types, Calling!Confused
<1>3. CASE ~request.method
  <2>1. Calling!ReturnType = "Void"
    BY <1>3 DEF Calling!ReturnType
  <2> QED
    BY <1>1, <1>2, <1>3, <2>1 DEF Calling!Reflected
<1>4. CASE request.method /\ request.returns = "Void"
  BY <1>1, <1>4 DEF Calling!ReturnType, Calling!GetPrimitiveType, Calling!Reflected
<1>5. CASE request.method /\ request.returns # "Void"
  <2>1. Calling!ReturnType = "Object"
    BY <1>2, <1>5 DEF Calling!ReturnType, Calling!GetPrimitiveType
  <2> QED
    BY <1>1, <1>2, <1>5, <2>1 DEF Calling!Plain, Calling!Reflected
<1> QED
  BY <1>2, <1>3, <1>4, <1>5

\* A step of the call with the library
LEMMA StepInv ==
  ASSUME CallInv, CallNonvirtual, UNCHANGED vars, Calling!CallNonvirtual
  PROVE  CallInv'
<1> USE DEF CallInv, Calling!End
<1>1. /\ Calling!TypeOK' /\ UNCHANGED <<backend, image, gen, request>>
      /\ image[gen] = "ready" /\ at # "idle"
  <2>1. Calling!TypeOK'
    BY StepTyped
  <2> QED
    BY <2>1 DEF CallNonvirtual, Legacy, vars, process, Calling!CallNonvirtual,
       Calling!Start, Calling!Convert, Calling!Invoke, Calling!Box
<1>2. CASE Calling!Start
  <2>1. CASE Len(request.params) = Len(request.args)
    <3>1. at' = "convert" /\ UNCHANGED <<cargs, times, uncaught>> /\ cargs = <<>>
      BY <1>2, <2>1 DEF Calling!Start
    <3>2. Len(request.params) \in Nat
      BY CallTyped DEF Calling!TypeOK
    <3> QED
      BY <1>1, <1>2, <2>1, <3>1, <3>2 DEF Calling!Start, AsReflection
  <2>2. CASE Len(request.params) # Len(request.args)
    <3>1. Calling!Refuses(request) /\ Calling!Reflected(request) = "refused"
      BY <2>2 DEF Calling!Refuses, Calling!Reflected
    <3> QED
      BY <1>1, <1>2, <2>2, <3>1 DEF Calling!Start, AsReflection
  <2> QED
    BY <2>1, <2>2
<1>3. CASE Calling!Convert
  <2> DEFINE i == Len(cargs) + 1
  <2>1. /\ at = "convert" /\ i <= Len(request.params)
        /\ UNCHANGED <<times, uncaught>> /\ times = 0 /\ uncaught = FALSE
    BY <1>3 DEF Calling!Convert
  <2>2. /\ Len(cargs) \in Nat /\ Len(request.params) \in Nat
        /\ DOMAIN request.params = 1..Len(request.params)
    BY CallTyped, UpToIsSeq DEF Calling!TypeOK, Fields
  <2>3. CASE request.params[i] = "box" /\ request.args[i] = "null"
    <3>1. Calling!Confused(request)
      BY <2>1, <2>2, <2>3 DEF Calling!Confused
    <3> QED
      BY <1>1, <1>3, <2>3, <3>1 DEF Calling!Convert, AsReflection
  <2>4. CASE ~(request.params[i] = "box" /\ request.args[i] = "null")
    <3> DEFINE f == Calling!ToPrimitiveType(request.params[i], request.args[i])
    <3>1. at' = at /\ outcome' = outcome /\ cargs' = Append(cargs, f)
      BY <1>3, <2>4 DEF Calling!Convert
    <3>2. f \in Fields
      BY DEF Calling!ToPrimitiveType, Fields
    <3>3. /\ Len(cargs') = Len(cargs) + 1 /\ cargs'[Len(cargs) + 1] = f
          /\ \A j \in 1..Len(cargs) : cargs'[j] = cargs[j]
      <4> HIDE DEF f
      <4> QED
        BY <2>1, <2>2, <3>1, <3>2, ConvertTyped
    <3>4. \A j \in 1..Len(cargs') :
            cargs'[j] = Calling!ToPrimitiveType(request.params[j], request.args[j])
      BY <2>1, <2>2, <3>3
    <3> QED
      BY <1>1, <2>1, <2>2, <3>1, <3>3, <3>4 DEF AsReflection
  <2> QED
    BY <2>3, <2>4
<1>4. CASE Calling!Invoke
  <2>1. CASE Calling!Confused(request)
    <3>1. at' = "returned" \/ (at' = "box" /\ Calling!ReturnType = "box")
      BY <1>4, ReturnTypes DEF Calling!Invoke
    <3>2. Calling!ReturnType = "box" => request.returns = "box"
      BY DEF Calling!ReturnType, Calling!GetPrimitiveType
    <3> QED
      BY <1>1, <2>1, <3>1, <3>2 DEF AsReflection
  <2>2. CASE ~Calling!Confused(request)
    BY <1>1, <1>4, <2>2, InvokePlain DEF AsReflection
  <2> QED
    BY <2>1, <2>2
<1>5. CASE Calling!Box
  <2>1. at = "box" /\ at' = "returned"
    BY <1>5 DEF Calling!Box
  <2>2. Calling!Confused(request)
    BY <2>1 DEF Calling!Confused
  <2> QED
    BY <1>1, <2>1, <2>2 DEF AsReflection
<1> QED
  BY <1>2, <1>3, <1>4, <1>5 DEF Calling!CallNonvirtual

\* The library stays as it is for a call.
LEMMA QuietCall ==
  ASSUME CallInv, UNCHANGED callVars,
         at # "idle" => backend' = backend /\ image'[gen'] = image[gen]
  PROVE  CallInv'
<1> USE DEF callVars, CallInv
<1>1. Calling!TypeOK' /\ AsReflection'
  BY DEF Calling!TypeOK, AsReflection
<1> QED
  BY <1>1

LEMMA LibraryKept ==
  ASSUME TypeOK, CallInv, [LibraryNext]_vars, at # "idle"
  PROVE  backend' = backend /\ image'[gen'] = image[gen]
<1> USE DEF CallInv, process, table, Die, Become, Ready
<1>1. backend = "legacy" /\ image[gen] \in {"ready", "missing"}
  OBVIOUS
<1>2. ~Load /\ ~LoadFails /\ ~Init /\ ~Cleanup
  BY <1>1 DEF Load, LoadFails, Init, Cleanup
<1>3. ASSUME NEW g \in Generations, Unload(g) PROVE backend' = backend /\ image'[gen'] = image[gen]
  BY <1>1, <1>3 DEF Unload, TypeOK
<1>4. CASE VisitHeapObjects \/ FindClassInitializer \/ SetEntryPointsToInterpreter
  BY <1>4 DEF VisitHeapObjects, FindClassInitializer, SetEntryPointsToInterpreter, vars
<1>5. CASE (\E s \in Slots : Take(s) \/ GiveBack(s)) \/ UNCHANGED vars
  BY <1>5 DEF Take, GiveBack, vars
<1> QED
  BY <1>2, <1>3, <1>4, <1>5 DEF LibraryNext

LEMMA NextCall == TypeOK /\ CallInv /\ [NextBridge]_bridgeVars => CallInv'
<1> SUFFICES ASSUME TypeOK, CallInv, [NextBridge]_bridgeVars PROVE CallInv'
  OBVIOUS
<1>1. CASE [LibraryNext]_vars /\ UNCHANGED callVars
  BY <1>1, LibraryKept, QuietCall
<1>2. CASE Request
  <2>1. /\ at = "idle" /\ at' = "start" /\ request' \in Calling!Calls
        /\ ~request'.method => request'.returns = "void"
        /\ UNCHANGED <<cargs, times, outcome, uncaught>>
        /\ UNCHANGED <<backend, image, gen>>
        /\ backend = "legacy" /\ image[gen] \in {"ready", "missing"}
    BY <1>2 DEF Request, Calling!Request, Legacy, vars, process
  <2>2. Calling!TypeOK'
    BY <2>1 DEF CallInv, Calling!TypeOK
  <2> QED
    BY <2>1, <2>2 DEF CallInv, AsReflection
<1>3. CASE InvokeDirectly
  <2>1. /\ at = "start" /\ at' = "returned" /\ UNCHANGED <<request, cargs, uncaught>>
        /\ UNCHANGED <<backend, image, gen>> /\ image[gen] = "missing"
        /\ IF request.method
           THEN /\ outcome' = Calling!Reflected(request)
                /\ times' = IF Calling!Refuses(request) THEN 0 ELSE 1
           ELSE outcome' = "instance" /\ times' = times
    BY <1>3 DEF InvokeDirectly, Calling!InvokeDirectly, Calling!End, vars, process
  <2>2. outcome' \in Calling!Outcomes /\ times' \in Nat
    BY <2>1 DEF CallInv, Calling!TypeOK, Calling!Reflected, Calling!Outcomes
  <2>3. Calling!TypeOK'
    BY <2>1, <2>2 DEF CallInv, Calling!TypeOK
  <2>4. request.method \in BOOLEAN
    BY CallTyped DEF CallInv, Calling!TypeOK
  <2>5. AsReflection'
    BY <2>1, <2>4 DEF CallInv, AsReflection
  <2> QED
    BY <2>1, <2>3, <2>5 DEF CallInv
<1>4. CASE CallNonvirtual /\ Calling!CallNonvirtual /\ UNCHANGED vars
  BY <1>4, StepInv
<1>5. CASE Die("staleReference") /\ UNCHANGED callVars
  BY <1>5, QuietCall DEF Die, process
<1> QED
  BY <1>1, <1>2, <1>3, <1>4, <1>5 DEF NextBridge, bridgeVars, CallNonvirtual

LEMMA AlwaysCall == Spec => [](TypeOK /\ CallInv)
<1>1. InitBridge => TypeOK /\ CallInv
  BY InitLibraryTyped, InitCall DEF InitBridge
<1>2. TypeOK /\ CallInv /\ [NextBridge]_bridgeVars => (TypeOK /\ CallInv)'
  <2>1. ASSUME TypeOK, [NextBridge]_bridgeVars PROVE TypeOK'
    <3>1. CASE [LibraryNext]_vars
      BY <2>1, <3>1, LibraryTyped
    <3>2. CASE Die("staleReference")
      BY <2>1, <3>2 DEF TypeOK, Die, process, table
    <3> QED
      BY <2>1, <3>1, <3>2 DEF NextBridge, bridgeVars, Request, InvokeDirectly, CallNonvirtual
  <2> QED
    BY <2>1, NextCall
<1> QED
  BY <1>1, <1>2, PTL DEF Spec

\* Typing of the library and the call.  (xposedkit.cxx 27-77, 92-180)
THEOREM BridgeTyped == Spec => []BridgeTypeOK
<1>1. TypeOK /\ CallInv => BridgeTypeOK
  BY DEF CallInv, BridgeTypeOK
<1> QED
  BY <1>1, AlwaysCall, PTL

\* Calls that no primitive, box or ill-typed argument is part of come to what
\* reflection would make of them.
\* (Xposed.kt 195-213, xposedkit.cxx 112-179, java_primitive.cxx 24-122)
THEOREM PlainCallsAsReflection == Spec => []AsReflection
<1>1. CallInv => AsReflection
  BY DEF CallInv
<1> QED
  BY <1>1, AlwaysCall, PTL
====
