---- MODULE HookRegistry ----
(***************************************************************************)
(* The hook table of the legacy backend (impl/Xposed.kt).                  *)
(*                                                                         *)
(* Module code on any thread calls hook(), and later calls unhook() on the *)
(* handle it got.  The backend keeps one HookedMember per hooked member in *)
(* the plain HashMap hookedMembers; a HookedMember holds the handles in a  *)
(* CopyOnWriteArrayList and the framework's Unhook object.  The framework  *)
(* knows one callback only, xcallback: it is installed on a member by      *)
(* XposedBridge.hookMethod (a set: installing it twice installs it once)   *)
(* and removed by Unhook.unhook().  Nothing is locked, so each access to   *)
(* shared state is a step of its own here.                                 *)
(*                                                                         *)
(* A handle is numbered by the hook() call that makes it, and a            *)
(* HookedMember by the hook() call that allocates it.                      *)
(***************************************************************************)
EXTENDS Integers, FiniteSets, SequencesExt, Sublists

CONSTANTS
  Threads,     \* threads on which module code calls hook() and unhook()
  Callers,     \* threads that call the hooked members
  Members,     \* methods and constructors
  Hookable,    \* the members XposedBridge.hookMethod accepts; it throws on others
  Requests,    \* the [type, priority, callback] triples modules ask for
  MaxHooks,    \* bound: hook() calls in a behaviour
  MaxUnhooks   \* bound: unhook() calls in a behaviour

Types == {"BEFORE", "AFTER"}

ASSUME MembersAssumption == Hookable \subseteq Members
ASSUME RequestsAssumption ==
  \A r \in Requests : r.type \in Types /\ r.priority \in Int
ASSUME BoundsAssumption == MaxHooks \in Nat /\ MaxUnhooks \in Nat
ASSUME ThreadsAssumption == Threads \cap Callers = {}

VARIABLES
  hookedMembers, \* [Members -> Nat]: the registered HookedMember, 0 for none
  handles,       \* [1..MaxHooks -> Seq(Handle)]: HookedMember.handles
  bridged,       \* the members xcallback is installed on
  hooks,         \* number of hook() calls so far
  unhooks,       \* number of unhook() calls so far
  pc,            \* where each thread is
  cur,           \* the handle a thread is making or removing
  idx,           \* insertIndex of a thread inside hook()
  callee,        \* the member a caller is in
  pending,       \* what a caller has left to call of its copy of the handles
  returned,      \* handles hook() has returned
  unhooking,     \* handles unhook() has been called on
  unhooked,      \* handles unhook() has returned from
  overlapped,    \* ghost: members a hook() of which overlapped another operation
  raced          \* ghost: those of them where a handle may have been lost

vars == <<hookedMembers, handles, bridged, hooks, unhooks, pc, cur, idx,
          callee, pending, returned, unhooking, unhooked, overlapped, raced>>
registry == <<hookedMembers, handles, bridged>>
caller == <<callee, pending>>
ghosts == <<returned, unhooking, unhooked, overlapped, raced>>

None == 0
Handle == [id : 0..MaxHooks, member : Members, req : Requests,
           target : 0..MaxHooks]

InHook == {"bridge", "put", "index", "size", "add"}
InUnhook == {"isEmpty", "remove", "unbridge"}

Hooking(m) == \E t \in Threads : pc[t] \in InHook /\ cur[t].member = m
Unhooking(m) == \E t \in Threads : pc[t] \in InUnhook /\ cur[t].member = m
Allocating(m) == \E t \in Threads : pc[t] \in {"bridge", "put"} /\ cur[t].member = m
Quiet(m) == ~Hooking(m) /\ ~Unhooking(m)

TypeOK ==
  /\ hookedMembers \in [Members -> 0..MaxHooks]
  /\ handles \in [1..MaxHooks -> Seq(Handle)]
  /\ bridged \subseteq Members
  /\ hooks \in 0..MaxHooks
  /\ unhooks \in 0..MaxUnhooks
  /\ pc \in [Threads \cup Callers ->
               {"idle", "lookBefore", "before", "lookAfter", "after"}
               \cup InHook \cup InUnhook]
  /\ \A t \in Threads : pc[t] # "idle" => cur[t] \in Handle
  /\ \A t \in Threads : pc[t] \in {"index", "size", "add"} => cur[t].target # None
  /\ idx \in [Threads -> Nat]
  /\ \A c \in Callers : pc[c] # "idle" => callee[c] \in Members
  /\ pending \in [Callers -> Seq(Handle)]
  /\ returned \subseteq Handle
  /\ unhooked \subseteq unhooking
  /\ unhooking \subseteq returned
  /\ overlapped \subseteq Members
  /\ raced \subseteq overlapped

Init ==
  /\ hookedMembers = [m \in Members |-> None]
  /\ handles = [n \in 1..MaxHooks |-> <<>>]
  /\ bridged = {}
  /\ hooks = 0
  /\ unhooks = 0
  /\ pc = [t \in Threads \cup Callers |-> "idle"]
  /\ cur = [t \in Threads |-> <<>>]
  /\ idx = [t \in Threads |-> 0]
  /\ callee = [t \in Callers |-> <<>>]
  /\ pending = [t \in Callers |-> <<>>]
  /\ returned = {}
  /\ unhooking = {}
  /\ unhooked = {}
  /\ overlapped = {}
  /\ raced = {}

Goto(t, l) == pc' = [pc EXCEPT ![t] = l]

\* The operation of t returns or throws; its locals are gone.
Done(t) ==
  /\ Goto(t, "idle")
  /\ cur' = [cur EXCEPT ![t] = <<>>]
  /\ idx' = [idx EXCEPT ![t] = 0]

----
\* hook(member, type, priority, callback)

\* getOrPut reads the map.  Ghosts: this hook() overlaps the operations of m that
\* have not finished; a handle may be lost if one of them is an unhook(), or is
\* a hook() about to put a HookedMember of its own.
HookLookup(t, m, r) ==
  /\ pc[t] = "idle"
  /\ hooks < MaxHooks
  /\ hooks' = hooks + 1
  /\ cur' = [cur EXCEPT ![t] = [id |-> hooks + 1, member |-> m, req |-> r,
                                target |-> hookedMembers[m]]]
  /\ Goto(t, IF hookedMembers[m] = None THEN "bridge" ELSE "index")
  /\ overlapped' = overlapped \cup (IF Quiet(m) THEN {} ELSE {m})
  /\ raced' = raced \cup (IF Unhooking(m) \/ Allocating(m) THEN {m} ELSE {})
  /\ UNCHANGED <<registry, unhooks, idx, caller, returned, unhooking, unhooked>>

\* The default of getOrPut installs xcallback and makes the HookedMember ...
HookBridge(t) ==
  /\ pc[t] = "bridge"
  /\ cur[t].member \in Hookable
  /\ bridged' = bridged \cup {cur[t].member}
  /\ Goto(t, "put")
  /\ UNCHANGED <<hookedMembers, handles, hooks, unhooks, cur, idx, caller, ghosts>>

\* ... unless the framework refuses the member: hook() throws, nothing is put.
HookBridgeThrows(t) ==
  /\ pc[t] = "bridge"
  /\ cur[t].member \notin Hookable
  /\ Done(t)
  /\ UNCHANGED <<registry, hooks, unhooks, caller, ghosts>>

\* getOrPut writes its new HookedMember, whatever the map holds by now.
HookPut(t) ==
  /\ pc[t] = "put"
  /\ hookedMembers' = [hookedMembers EXCEPT ![cur[t].member] = cur[t].id]
  /\ cur' = [cur EXCEPT ![t].target = cur[t].id]
  /\ Goto(t, "index")
  /\ UNCHANGED <<handles, bridged, hooks, unhooks, idx, caller, ghosts>>

\* Faulty variant: equal priorities too.
NotAbove(s, p) == {i \in DOMAIN s : s[i].req.priority <= p}

LowerThan(s, p) == {i \in DOMAIN s : s[i].req.priority < p}

\* handles.indexOfFirst { it.priority < priority }
HookIndex(t) ==
  LET lower == LowerThan(handles[cur[t].target], cur[t].req.priority)
  IN  /\ pc[t] = "index"
      /\ IF lower = {}
         THEN Goto(t, "size") /\ UNCHANGED idx
         ELSE /\ Goto(t, "add")
              /\ idx' = [idx EXCEPT ![t] =
                           CHOOSE i \in lower : \A j \in lower : i <= j]
      /\ UNCHANGED <<registry, hooks, unhooks, cur, caller, ghosts>>

\* ?: handles.size, a second read of the list
HookSize(t) ==
  /\ pc[t] = "size"
  /\ idx' = [idx EXCEPT ![t] = Len(handles[cur[t].target]) + 1]
  /\ Goto(t, "add")
  /\ UNCHANGED <<registry, hooks, unhooks, cur, caller, ghosts>>

\* handles.add(insertIndex, handle); return handle
HookAdd(t) ==
  LET n == cur[t].target
  IN  /\ pc[t] = "add"
      /\ idx[t] <= Len(handles[n]) + 1
      /\ handles' = [handles EXCEPT ![n] = InsertAt(handles[n], idx[t], cur[t])]
      /\ returned' = returned \cup {cur[t]}
      /\ Done(t)
      /\ UNCHANGED <<hookedMembers, bridged, hooks, unhooks, caller,
                     unhooking, unhooked, overlapped, raced>>

\* The list has shrunk since it was read: add throws IndexOutOfBounds.
HookAddThrows(t) ==
  /\ pc[t] = "add"
  /\ idx[t] > Len(handles[cur[t].target]) + 1
  /\ Done(t)
  /\ UNCHANGED <<registry, hooks, unhooks, caller, ghosts>>

----
\* HookHandle.unhook(): the closure hook() gave the handle

\* Faulty variants: nothing matches; every handle of the type matches.
KeptAll(s, h) == Range(s)
KeptOtherTypes(s, h) == {e \in Range(s) : e.req.type # h.req.type}

Kept(s, h) == {e \in Range(s) : e.req.callback # h.req.callback}

\* handles.removeIf { it.callback == callback } on the HookedMember the handle
\* was added to.  Ghosts: a handle may be lost if a hook() of the member has not
\* finished, or if a newer HookedMember has taken the place of this one.
UnhookRemoveIf(t, h) ==
  LET s == handles[h.target]
      race == \/ Hooking(h.member)
              \/ hookedMembers[h.member] \notin {None, h.target}
      hit == IF race THEN {h.member} ELSE {}
  IN  /\ pc[t] = "idle"
      /\ unhooks < MaxUnhooks
      /\ h \in returned
      /\ unhooks' = unhooks + 1
      /\ handles' = [handles EXCEPT ![h.target] = Sublist(s, Kept(s, h))]
      /\ cur' = [cur EXCEPT ![t] = h]
      /\ Goto(t, "isEmpty")
      /\ unhooking' = unhooking \cup {h}
      /\ overlapped' = overlapped \cup hit
      /\ raced' = raced \cup hit
      /\ UNCHANGED <<hookedMembers, bridged, hooks, idx, caller, returned, unhooked>>

\* Faulty variant: the member is given up without looking at the list.
UnhookNoCheck(t) ==
  /\ pc[t] = "isEmpty"
  /\ Goto(t, "remove")
  /\ UNCHANGED <<registry, hooks, unhooks, cur, idx, caller, ghosts>>

\* if (handles.isEmpty())
UnhookIsEmpty(t) ==
  /\ pc[t] = "isEmpty"
  /\ \/ /\ handles[cur[t].target] = <<>>
        /\ Goto(t, "remove")
        /\ UNCHANGED <<cur, idx, unhooked>>
     \/ /\ handles[cur[t].target] # <<>>
        /\ Done(t)
        /\ unhooked' = unhooked \cup {cur[t]}
  /\ UNCHANGED <<registry, hooks, unhooks, caller,
                 returned, unhooking, overlapped, raced>>

\* hookedMembers.remove(member), whichever HookedMember it maps to
UnhookRemove(t) ==
  /\ pc[t] = "remove"
  /\ hookedMembers' = [hookedMembers EXCEPT ![cur[t].member] = None]
  /\ Goto(t, "unbridge")
  /\ UNCHANGED <<handles, bridged, hooks, unhooks, cur, idx, caller, ghosts>>

\* Faulty variant: xcallback stays on the member.
UnhookKeepBridge(t) ==
  /\ pc[t] = "unbridge"
  /\ unhooked' = unhooked \cup {cur[t]}
  /\ Done(t)
  /\ UNCHANGED <<registry, hooks, unhooks, caller, returned, unhooking,
                 overlapped, raced>>

\* target.unhook.unhook()
UnhookBridge(t) ==
  /\ pc[t] = "unbridge"
  /\ bridged' = bridged \ {cur[t].member}
  /\ unhooked' = unhooked \cup {cur[t]}
  /\ Done(t)
  /\ UNCHANGED <<hookedMembers, handles, hooks, unhooks, caller,
                 returned, unhooking, overlapped, raced>>

----
\* A call of a hooked member: the framework runs beforeHookedMethod, the
\* original and afterHookedMethod of the callbacks it saw when the call began.

\* The framework finds xcallback installed on m.
CallEnter(c, m) ==
  /\ pc[c] = "idle"
  /\ m \in bridged
  /\ callee' = [callee EXCEPT ![c] = m]
  /\ Goto(c, "lookBefore")
  /\ UNCHANGED <<registry, hooks, unhooks, cur, idx, pending, ghosts>>

\* Faulty variant: the test for the type inverted.
NotOfType(s, type) == {h \in Range(s) : h.req.type # type}

OfType(s, type) == {h \in Range(s) : h.req.type = type}

\* runCallback(type, param): val target = hookedMembers[member] ?: return, and
\* the iterator of target.handles, which is a copy, skipping other types
CallLookup(c, look, run, next, type) ==
  LET m == callee[c]
      s == handles[hookedMembers[m]]
  IN  /\ pc[c] = look
      /\ IF hookedMembers[m] = None
         THEN Goto(c, next) /\ UNCHANGED pending
         ELSE /\ Goto(c, run)
              /\ pending' = [pending EXCEPT ![c] = Sublist(s, OfType(s, type))]
      /\ UNCHANGED <<registry, hooks, unhooks, cur, idx, callee, ghosts>>

\* handle.callback(info); a callback that throws ends the loop
CallHandle(c, run, next) ==
  /\ pc[c] = run
  /\ \/ /\ pending[c] = <<>>
        /\ Goto(c, next)
        /\ UNCHANGED pending
     \/ /\ pending[c] # <<>>
        /\ pending' = [pending EXCEPT ![c] = Tail(pending[c])]
        /\ UNCHANGED pc
     \/ /\ pending[c] # <<>>
        /\ pending' = [pending EXCEPT ![c] = <<>>]
        /\ Goto(c, next)
  /\ UNCHANGED <<registry, hooks, unhooks, cur, idx, callee, ghosts>>

CallStep(c) ==
  \/ CallLookup(c, "lookBefore", "before", "lookAfter", "BEFORE")
  \/ CallHandle(c, "before", "lookAfter")
  \/ CallLookup(c, "lookAfter", "after", "idle", "AFTER")
  \/ CallHandle(c, "after", "idle")

----
HookStep(t) ==
  \/ HookBridge(t)
  \/ HookBridgeThrows(t)
  \/ HookPut(t)
  \/ HookIndex(t)
  \/ HookSize(t)
  \/ HookAdd(t)
  \/ HookAddThrows(t)

UnhookStep(t) ==
  \/ UnhookIsEmpty(t)
  \/ UnhookRemove(t)
  \/ UnhookBridge(t)

Next ==
  \/ \E t \in Threads :
       \/ \E m \in Members, r \in Requests : HookLookup(t, m, r)
       \/ HookStep(t)
       \/ \E h \in returned : UnhookRemoveIf(t, h)
       \/ UnhookStep(t)
  \/ \E c \in Callers :
       \/ \E m \in Members : CallEnter(c, m)
       \/ CallStep(c)

Spec == Init /\ [][Next]_vars

----
\* The handles of the HookedMember registered for m.
Registered(m) ==
  IF hookedMembers[m] = None THEN {} ELSE Range(handles[hookedMembers[m]])

\* Nobody has called unhook() on a handle of this member with this callback.
Wanted(h) ==
  /\ h \in returned
  /\ \A u \in unhooking :
       ~(u.member = h.member /\ u.req.callback = h.req.callback)

\* A hook() that has returned stays effective: until unhook() is called on it
\* (or on a handle of the same member that shares its callback), the handle is
\* in the registered HookedMember and xcallback is installed on the member.
\* The code gives this to every member that is not in raced: one on which hook()
\* overlaps unhook(), two first hook() calls overlap, or the handle of a
\* HookedMember that has been replaced is unhooked again.  Two hook() calls of a
\* member that is hooked already may overlap.  (Xposed.kt 127-153)
WantedHandleEffective ==
  \A h \in returned :
    Wanted(h) /\ h.member \notin raced =>
      h \in Registered(h.member) /\ h.member \in bridged

\* The handles of a member are in descending priority, and in the order of their
\* hook() calls within one priority, unless a hook() overlapped another
\* operation of the member.  (Xposed.kt 149-151)
HandlesInOrder ==
  \A m \in Members \ overlapped :
    hookedMembers[m] # None =>
      LET s == handles[hookedMembers[m]]
      IN  \A i, j \in DOMAIN s : i < j =>
            \/ s[i].req.priority > s[j].req.priority
            \/ s[i].req.priority = s[j].req.priority /\ s[i].id < s[j].id

\* Whatever overlapped, once nobody is inside hook() or unhook() of a member
\* and every handle it gave out has been removed, the registry has forgotten
\* the member and xcallback is off it.  (Xposed.kt 141-147)
NothingLeftBehind ==
  \A m \in Members :
    /\ Quiet(m)
    /\ \A h \in returned : h.member = m => h \notin Range(handles[h.target])
    => hookedMembers[m] = None /\ m \notin bridged

\* A handle leaves its HookedMember only through unhook() of a handle of the
\* same HookedMember with the same callback, even when operations overlap.
\* (Xposed.kt 142)
RemovedOnlyByUnhook ==
  \A h \in returned :
    h \notin Range(handles[h.target]) =>
      \E u \in unhooking :
        u.target = h.target /\ u.req.callback = h.req.callback

\* A call that looks the member up after unhook() has returned does not run
\* that handle any more, even when operations overlap; only a call that copied
\* the list before may.  (Xposed.kt 79, 88)
UnhookedNotCalledAnew ==
  [][\A c \in Callers :
       pc[c] \in {"lookBefore", "lookAfter"} /\ pc'[c] # pc[c] =>
         Range(pending'[c]) \cap unhooked = {}]_vars

\* A call of a member not in raced runs, per phase, every wanted handle of that
\* type exactly once.  (Xposed.kt 88-91)
WantedHandleCalled ==
  [][\A c \in Callers, h \in returned :
       /\ pc[c] = IF h.req.type = "BEFORE" THEN "lookBefore" ELSE "lookAfter"
       /\ pc'[c] # pc[c]
       /\ callee[c] = h.member
       /\ Wanted(h)
       /\ h.member \notin raced
       => Cardinality({i \in DOMAIN pending'[c] : pending'[c][i] = h}) = 1]_vars
====
