# NV:MP Companion: specifications and proofs

NVMP-Companion gives every player of a Fallout: New Vegas multiplayer server
three modes: multiplayer (MP), hybrid (HB, only player characters are
synchronised) and singleplayer (SP, nothing is). The client plugin writes the
mode into the player's *name*; the multiplayer client replicates the name to
the server; a DLL inside the server scans the names every two seconds and
withholds synchronisation accordingly. Nothing acknowledges anything: each part
sees the others only through shared memory it does not own.

This directory models that chain in TLA+, checks it with TLC on small instances
and proves the safety properties with TLAPS for all instances: the scan and the
verdicts inside the server, the hook's machine code, its coming and going and
the injector that brings it, the client plugin, and a session as a whole.

## 1. Inventory

| Component | Source | State | Operations | What is hard |
|---|---|---|---|---|
| Character list (the server's, external) | used at `nvmp_server_hook/src/main.cpp` 176-213 | circular list of nodes, one netref and name each | a character is linked, unlinked and freed, renamed | changes at any time, no lock |
| Scan thread | `nvmp_server_hook/src/main.cpp` 164-241 | the walk's cursor, two new lists, two published tables | wake, walk, compare, log, publish | freed nodes, replaced names, SEH recovery, eight slots, a publication that is not atomic |
| Verdict (`CheckShouldBlock`) | same, 73-162 | a loop index and a phase per thread | three lookups, then an answer | reads tables that are being rewritten; target may leave |
| Hook stub | same, 275-344 | 128 bytes of x86 | save, call, restore, return or continue | stack offsets counted by hand |
| Hook life cycle | same, 243-274, 348-387 | the patched prologue, the code block, `g_running` | attach, detach | threads inside what is patched and freed; a wait for a thread that needs the lock the waiter holds |
| Injector | `nvmp_server_hook/src/injector.cpp` | handles and remote memory | find, open, allocate, write, start, wait, free | four calls that can fail, a timeout, and success that is not checked |
| Plugin frame, config and key | `nvmp_companion/src/main.cpp` | toggle key, edge state | one frame of the game loop | focus, remapping, first frames |
| Mode toggle and name | `nvmp_companion/src/encounter_toggle.cpp` | mode, original name | toggle | what survives a restart, a load, a new session |
| Session state | `nvmp_companion/src/nvmp_state.cpp` | addresses in client.dll | initialize, ask, set flags | the session may not be there |
| Overlay | `nvmp_companion/src/party_hud.cpp` | a text buffer, a patched call | install, write | two writers |
| `nvse_stubs.cpp`, `include/nvse`, `include/common` | not built, or vendored | | | not modelled |
| Build, workflows, MCM menu | | | | not modelled; the menu's key is an input |

How they interact: `toggle -> SetName -> (replication) -> list of characters ->
scan thread -> g_spPlayers/g_hbPlayers -> CheckShouldBlock -> server's send
path`, and on the client `toggle -> encounter flags` and `toggle -> overlay`.

What makes each part correct: the scan thread collects exactly who shows a
marker now; the verdict withholds what the tables say and nothing else; a mode
takes effect in the end and so does its absence; on the client the three signals
of the mode (name, flags, overlay) say the same, a name never piles up markers,
and one press of the key is one toggle; the hooked function behaves like the
original or returns 0, at any moment of the hook's life, and the DLL leaves
nothing of its own behind. `PROJECT.json` lists under `hazards`,
line by line, where this can go wrong.

## 2. Modules

| Module | Contents |
|---|---|
| `CharacterList` | the list in the server's memory and everything the server may do to it |
| `ScanThread` | the scan thread, one step per read of that memory and per published word |
| `ScanHistory` | the two together, with history variables, and the properties of scanning |
| `SyncHook` | the scan thread with any number of threads inside `CheckShouldBlock`, and the liveness properties |
| `SyncHookHistory` | the same with history variables; safety of the verdicts |
| `SyncHookPromises` | the same again, with the documented promises the code does not keep |
| `HookStub` | the code block and the prologue it replaces, as programs of a symbolic x86 |
| `HookLifecycle` | `DllMain`, `InstallHook`, `RemoveHook`, the scan thread's frame, and server threads that execute the hooked function |
| `HookedFunction` | abstract: what a caller of the function may rely on |
| `ServerProcess` | `HookLifecycle` composed with the injector and its thread in the server |
| `Companion` | the client plugin and the game around it |
| `CompanionHistory` | history variables, the plugin's properties and a broken promise |
| `ClientSignals` | abstract: the mode a player chose and the mode a name shows |
| `CoopSession` | clients (`ClientSignals`), replication, the list and the scan thread composed |
| `MC...` | model values and small sets for TLC |
| `ScanThreadProofs`, `ScanHistoryProofs`, `SyncHookProofs`, `HookLifecycleProofs`, `HookStubProofs`, `ServerProcessProofs`, `CompanionProofs`, `CoopSessionProofs` | theorems |

How they build on one another (an arrow is EXTENDS, `=>` a refinement):

    CharacterList -> ScanThread -> ScanHistory
                                -> SyncHook -> SyncHookHistory, SyncHookPromises
                                -> CoopSession <- ClientSignals
    HookStub -> HookLifecycle -> ServerProcess      ServerProcess => HookLifecycle
    Companion -> CompanionHistory                   HookLifecycle => HookedFunction
                                                    CompanionHistory => ClientSignals

History variables are computed from a step and never restrict one: in every
`...History` module the next-state relation is the component's own, conjoined
with assignments to the new variables.

### Server

A *player* in `CharacterList` is an address: of a list node with the netref it
carries. Freeing a node leaves its words as they are (`Disconnect`), linking the
address again stands for memory that is allocated a second time, to whomever.
So "stale pointer" and "reused address" are behaviours of the model. `tags`
holds which of `[SP]` and `[HB]` a name contains, which is all that `strstr`
looks for.

`ScanThread` follows the code by a program counter:

| `scanPc` | main.cpp | Step |
|---|---|---|
| `sleep` | 171-187 | `Wake`: `Sleep` returns, the two `continue`s, new lists, head of the list |
| `fetch` | 191-195 | `FetchName` |
| `testSP`, `testHB` | 196-208 | `TestSP`, `TestHB`: one `strstr` each |
| `advance` | 212, 189 | `Advance`: the `next` word, then the loop condition |
| `log` | 215-231 | `LogLeavers` |
| `copySP` .. `countHB` | 233-236 | `CopySP(i)`, `CountSP`, `CopyHB(i)`, `CountHB` |
| `except` | 238 | `Fault`, `Recover` |

A read of freed memory is nondeterministic: the old contents, nothing usable, or
a fault. `memcpy` writes slots in no promised order. The order of the two copies
and the two counts is the program's: the arrays and counts are volatile, and the
build is for x86. `PlayerEntry.ownerID` is left out because only `IsOwnedBySP`
and `IsOwnedByHybrid` read it, and nothing calls them.

`SyncHook` gives every thread an activation of `CheckShouldBlock` (`call[t]`).
The three lookups are its phases `srcSP`, `tgtSP` and `tgtHB`; each compares the
loop index with the count (`CheckCount`) and reads one entry (`CheckEntry`) in
separate steps. `Resolve` is `g_resolveTarget`, called anew for the second and
the third lookup. `FetchType` and `TestType` are the two reads of
`IsCharacterType`; in between the name may be replaced, and then a character may
be taken for an object (`BlockHasCause` says so: `named`).

`SyncHookHistory` keeps two records of markers: what an address ever showed
(`shown`) and what its present occupant showed (`own`, cleared whenever the
address is linked again). `settled` are the occupants who were there when the
present scan left `Sleep` and have stayed; when the scan's second count is
stored they are `vetted`. For an occupant who was vetted before a call, and
stays, only `own` counts as a cause of a block; a newcomer at a used address is
taken for his predecessor until the first whole scan is published, which is what
the code does (`Blamed`).

### Hook

`HookStub` writes the code block as a list of instructions with the sizes of
their encodings. The machine has the general registers, a stack of dwords and
the one flag that is tested; a word is symbolic: what the caller had in a
register, an address of the stack, a number. A jump goes to a byte offset, so a
wrong displacement or a wrong stack offset ends where it would: in the middle of
an instruction, or with the wrong word.

`HookLifecycle` follows `DllMain` by `dll`:

| `dll` | main.cpp | Step |
|---|---|---|
| `out` | | `Load`: the loader maps the DLL and calls `DllMain` under its lock |
| `owner`, `save`, `alloc`, `fill` | 252-346 | `PatchOwner`, `SaveBytes`, `AllocBlock`, `FillBlock`; two of them may decline |
| `patch` | 348-356 | `PatchSite(i)`, piece by piece |
| `spawn` | 375-379 | `StartScan`, which may fail |
| `stop`, `wait` | 380-382 | `StopScan`, `WaitOver` |
| `restore`, `free`, `unmap` | 362-386 | `RestoreSite(i)`, `FreeBlock`, `Unmap` |

The five bytes are three pieces, one per instruction of the prologue, written in
no promised order; a thread that executes there sees any mixture. `block` is the
memory of the code block: unmapping the DLL does not give it back, only
`FreeBlock` does. A thread is
*lost* (`astray`) when it executes what is not the program it is in: half a
jump, a freed block, an unmapped DLL. `overtaken` remembers whose call was
inside what was rewritten or freed; only those may be lost.

The loader lock is what makes the end hard: a thread needs it before its first
and after its last instruction, and `DllMain` holds it while it waits for the
scan thread. Time passes in ticks of a second (`Elapse`), and only when no step
that can be taken at once is left.

`ServerProcess` adds the injector. The only way in is its thread: created, then
(with the loader lock) reading the path, then inside `LoadLibraryA` until
`DllMain` is done. Each of the four calls `InjectDLL` checks may fail, and each
failure has its own exit, as the normal end has. An exit names the calls that the
code writes there (`calls`: `CloseHandle(thread)`, `VirtualFreeEx`,
`CloseHandle(proc)`), and `Release` makes them one a step, in that order, while
the server goes on; the path can be freed only while the process's handle is
open.

### Client

`UpdateCompanion` runs on the game's main thread, once a frame, so `Frame` is one
step that holds all of it: the INI refresh, the overlay hook, the key's edge and
the whole of `OnToggleMultiplayerKey`. Everything else is the world: loading
client.dll, creating, saving and loading a character, joining and leaving a
session, remapping and pressing keys, changing the focus, and `Restart`, which
stands for an exit or a crash and keeps only the INI file and the saved game.

A displayed name is a record of who it names and the sequence of markers behind
that, because cutting at the first occurrence of each marker is what the code
does to it. Whether two seconds have passed since the last refresh is left to
chance (`due`).

`CompanionHistory` maps this to one client of `ClientSignals`: the mode, the
mode the name shows (`Signal`; a name with two markers would show none), and the
mode in the saved game's name.

### Session

`CoopSession` has several such clients, seated at addresses of the character
list. `Replicate` carries the present name to the server at any time after it
changed; a client whose game ended stays on the list until it is dropped, and
another may get its address. The scan thread is `ScanThread`, step by step.

## 3. Runs

| Run | Instance | Shows |
|---|---|---|
| `scan` | 3 addresses, any markers, 2 slots, walk bound 3, 1 departure or rename | `ScanTypeInv`, `FreshEvidence`, `SteadyCollected`, `ScanExact` (both tables, exactly, with overflow from SP into HB) |
| `scan_live` | 2 addresses, any markers, 2 slots, walk bound 4, fair scan | `TrackingFollowsNames` |
| `hook` | 2 addresses, names with `[SP]` or `[HB]`, 1 object, 1 thread, 1 event | `HTypeOK`, `BlockHasCause`, `KeptSlotBlocks`, `KeptSlotHidesWorld` |
| `hook_live` | the same with names with `[SP]` or no marker, fair | `CallsReturn`, `IsolationTakesEffect`, `ReleaseTakesEffect` |
| `process` | 1 server thread, 2 injections, 2 references, the code's own times (2, 3 and 5 s), scans of up to 1 s | `ProcessTypeOK`, `ScanLeavesFirst`, `Footprint`, `NothingLeaked`, `PathKept`, `ImplementsFunction` (refinement), `UnloadEnds` |
| `companion` | 1 person and the fallback name, 2 keys, fair frames | `CTypeOK`, `OneMarker`, `SignalsAgree`, `NameReturns`, `OneTogglePerPress`, `ConfigTakesEffect`, `ImplementsSignals` (refinement) |
| `session` | 2 clients, 1 address, 1 slot, walk bound 2, 3 toggles or restarts, fair scan and replication | `SessionTypeOK`, `NoUnaskedMode`, `ModeTakesEffect` |

Runs that end in a counterexample; each contradicts a sentence of the
repository, quoted under `findings`:

| Run | The program does | The repository says |
|---|---|---|
| `scan_departed` | the last player to leave stays in the table | main.cpp 10 |
| `scan_faults` | after a departure every scan may fault on the freed memory it logs, and nobody is detected any more | PATCHES.md 86 |
| `hook_moved_slot` | a player who is tracked throughout a call is missed while the entry changes slots | main.cpp 122 |
| `hook_switch` | during a change of mode a player is in neither table | PATCHES.md 83-84 |
| `companion_saved_marker` | a saved game restricts a player whose overlay says MP | nvmp_companion/README.md 11, 14 |

### Divergences without a run

These follow from a few lines and need no model checker:

* The overlay never names the player: `UpdateModeIndicator` overwrites what
  `SetOverlayText` has just written (encounter_toggle.cpp 105-106; PATCHES.md 52
  promises name and mode).
* The encounter flags are written only if a session is connected at the toggle
  (encounter_toggle.cpp 99), so one joined later in HB or SP mode keeps its
  encounters; line 98 says they are disabled "in both HB and SP modes".
  `SignalsAgree` is about sessions that were there at the toggle.
* The injector prints "SUCCESS! Hook DLL injected." (injector.cpp 94) whatever
  `LoadLibraryA` returned: nobody looks at the result of the wait or at the exit
  code of the thread (injector.cpp 60-64).
* The name is read on the first toggle of a process (encounter_toggle.cpp 54)
  and given to whatever character is loaded later.
* An SP player's objects reach the others: `CheckShouldBlock` never asks who
  owns an object (`IsOwnedBySP` has no caller), although main.cpp 27 and
  PATCHES.md 83 say that SP blocks all sync in both directions.
* The ownership patch (main.cpp 259) is made before it is known whether the hook
  can be installed, and nothing takes it back on detach.
* `RemoveHook` writes the saved bytes back even if the hook declined; that is
  harmless because they are what it found (`Footprint`).
* A detach while the scan thread is created and has not begun leaves the thread
  with a start address that is gone (`caught`): it needs the lock that `DllMain`
  holds. `ScanLeavesFirst` excludes this state by name.
* Nobody looks at the result of `VirtualProtect` on the five bytes (main.cpp 350,
  365). If it refused, the `memcpy` behind it would fault inside `DllMain`: on
  attach with the block allocated and never freed, on detach with the JMP still
  in place. The model takes it to succeed; see section 5.
* A detach with a scan thread always waits the full three seconds, because the
  thread cannot end before `DllMain` returns.

### Bounds

* `MaxTracked` is 8 in the code and 2 here; `MaxSteps` is 500 there and 3 or 4
  here. Two slots are enough for an entry to move, for a table to be torn and,
  with three addresses, to be full; a bound of 3 or 4 is reached when freed
  nodes lead the walk in a circle.
* `MaxEvents` bounds departures and renames, not connections: an address cannot
  be linked twice without a departure. One event is enough for an address to be
  freed under the walk and used again, and for every counterexample here; what
  many of them could do together is covered by the theorems. It is also what
  makes the server come to rest in the liveness runs, as the `<>[]` premises ask.
* One thread suffices in the TLC runs of the hook because activations share
  nothing but tables they only read; the theorems hold for any number. Unmarked
  names are in `hook_live` and in the theorems.
* Two keys let a key be remapped while it is held. One person is enough because
  the fallback name "Player" is a second identity: it is remembered when the
  first toggle finds no character.
* Sleeps and waits have the lengths of the code in seconds. What matters is their
  order (sleep and scan shorter than `DllMain`'s wait, that shorter than the
  injector's), which is what `TimeAssumption` and `InjectAssumption` say and the
  theorems use. A scan longer than three seconds would be cut off by the unload;
  the walk visits 500 nodes at most.
* `MaxRefs` 2 and `MaxRuns` 2: the second injection meets a DLL that is loaded,
  one that is gone and one that is going. One server thread, because threads
  share nothing but the code they execute; the machine's state is per thread.
* The session has one address, so that it is used by one client after the other,
  and a restart of one client lies between any two of its modes in three moves.
* Players are symmetric in the safety runs: no definition tells one from another.
  No liveness run uses symmetry.

### Deadlock and fairness

Deadlock is checked in all runs but `process`, where the server's process may
end for good.

Fairness is assumed of this: the scan thread and each server thread inside the
hook are scheduled (`Sleep` returns, a ready thread runs), the game draws frames,
and two seconds do pass between some two of them; the thread inside `DllMain`,
the injector, its thread and the clock go on; a name that stays as it is is
replicated in the end. Nothing is assumed of players, of the server, of the
keyboard, of who unloads the DLL, or of whether the injector is run. The
liveness of tracking excludes a table that is full and a scan that faults over
and over (`KeepsFaulting`): the code then really publishes nothing, and
`scan_faults` shows how the promise fails without that excuse.

## 4. Theorems

| Theorem | Statement | Inductive invariant |
|---|---|---|
| `ScanTypeCorrect`, `FreshEvidenceAlways` | `ScanTypeInv`, `FreshEvidence` | `ScanInv` |
| `SteadyCollectedAlways` | `SteadyCollected` | `ScanInv`, `SteadyInv` |
| `ScanExactAlways` | `ScanExact` | `ScanInv`, `ExactInv` (`ListOrdered`, `WalkExact`) |
| `HookTypeCorrect` | `HTypeOK` | `TypeInv` |
| `BlockHasCauseAlways` | `BlockHasCause` | `CauseInv` (`TablesCause`, `OwnInv`) |
| `KeptSlotBlocksAlways`, `KeptSlotHidesWorldAlways` | `KeptSlotBlocks`, `KeptSlotHidesWorld` | `LoopInv` |
| `LifecycleTypeCorrect`, `ScanLeavesFirstAlways`, `FootprintAlways` | `LifecycleTypeOK`, `ScanLeavesFirst`, `Footprint` | `LifecycleInv` (`SiteInv`, `ClockInv`) |
| `LifecycleImplementsFunction`, `ProcessImplementsFunction` | `ImplementsFunction` | `LifecycleInv`, `CallsInv` (`MachineInv`, `Standing`, `BlockInv`) |
| `ProcessIsLifecycle` | `PSpec => Spec` of `HookLifecycle` | |
| `ProcessTypeCorrect`, `NothingLeakedAlways`, `PathKeptAlways` | `ProcessTypeOK`, `NothingLeaked`, `PathKept` | `LifecycleInv`, `InjectInv` (`HeldInv` with `Owing`, `PatienceInv`) |
| `CompanionTypeCorrect`, `OneMarkerAlways`, `SignalsAgreeAlways`, `NameReturnsAlways` | `CTypeOK`, `OneMarker`, `SignalsAgree`, `NameReturns` | `CompanionInv` |
| `CompanionImplementsSignals` | `ImplementsSignals` | `CompanionInv` |
| `OneTogglePerPressAlways` | `OneTogglePerPress` | `SpentInv` |
| `SessionTypeCorrect`, `NoUnaskedModeAlways` | `SessionTypeOK`, `NoUnaskedMode` | `SessionInv` (`SeatInv`, `AskedInv`) |

They hold for all values of the constants that satisfy the named assumptions:
`AddressesAssumption` (sentinel and null are no players), `NamesAssumption`,
`ScanAssumption` (tables and walk have a positive bound), `ObjectsAssumption`
(objects are no players), `NameAssumption`, `KeyAssumption`, `NobodyAssumption`,
`AbsentAssumption` (no character is no name and no mode), `TimeAssumption`,
`InjectAssumption` (the order of the waits) and `RefsAssumption`.

*Fresh evidence.* The walk may stand on a freed node, so "the cursor is on the
list" is no invariant. What is: the addresses that were on the list at some time
in this scan are closed under `next`, because a freed node keeps its word and a
node linked later enters the set (`EvidenceInv`). Between scans only
`ListClosed` is known, which is what `Wake` starts from.

*Nobody overlooked.* What the walk has yet to visit is a path of unknown
length that changes under it. A set is enough: there is some set of nodes ahead of the
walk (`Ahead`) that leads only to itself or to the sentinel, and whoever holds
still is in it or done with. Leaving a node takes the node out; joining behind a
member puts the newcomer in. When the walk is back at the sentinel the rest of
the set leads only to itself, and the list has no second cycle (`OneCycle`, kept
by linking and unlinking), so nobody is left.

*The exact scan.* `ScanExact` compares the walk with `ListOrder`, a function that
is recursive along `next`. The proof system has no induction, so its values are
not computed; instead there always is *some* enumeration of the list, without
repetition, that agrees with `next` (`ListOrdered`). Linking and unlinking change
an enumeration in one place and keep it one. Any enumeration that agrees with
`next` is the list's order, because there is no least position at which the two
could differ (`OrderIsUnique`, from the library's well-foundedness of `<` by
`LeastMember`). While nothing disturbs the scan the walk stands at position
`safety`, and the tables hold what the positions before it have to give
(`WalkExact`); a scan that has been disturbed promises nothing here.

*Cause of a block.* A torn table is a mixture of two publications, so nothing
about its order or its count can be used. But an address enters a slot only with
a marker it has shown, and what an address has shown is never taken back
(`Backed`, in `ScanThreadProofs`): each entry is justified for itself. That a
predecessor's marker stops counting needs more (`OwnInv`): the new lists of a
scan hold, of the occupants who were there when it began and have stayed, only
those who showed the marker themselves; slot by slot the copies hand this on to
the published tables, whose slots are all rewritten by the time the second
count is stored; and what a call has read of a vetted occupant was read from
such a table. The session's `AskedInv` is the same argument, extended to where markers come from:
a name shows, and a saved game holds, only what its player has chosen.

*Kept slots.* While a slot keeps its content throughout a call, a reader whose
key it holds cannot have passed it: in each phase its index is not beyond that
slot (`LoopInv`), and a slot that is kept is also below the count.

*The hook goes.* `DllMain` never sees the scan thread end, so it is the clocks
that make the unload safe: when `g_running` is off a thread asleep or walking has
rested no less than `DllMain` has waited (`ClockInv`: `waited <= nap`), and its
rest is shorter than the wait. `SiteInv` says of each step of `DllMain` which
pieces of the function are already rewritten, and that there is no block before
`AllocBlock` and after `FreeBlock`. What the injector holds at an exit is exactly
what the calls it still has to make give back (`Owing`). The path of the injector is kept
by the same argument, one level up: its thread is held up by a `DllMain` that
has been waiting at least as long as the injector (`PatienceInv`).

*The machine.* What the registers and the stack hold depends on two things only:
the offset of the next instruction, and the verdict given (`MachineInv`; for
each stretch of code a formula of its own, such as `AfterCall` between the call
and the branch). From it follow the arguments `CheckShouldBlock` is called with,
the 0 that is returned, and that the original's sixth byte is reached with
the registers and the stack it would have had. Whether there is code at that
offset is a question of the life cycle: a thread that no rewriting has overtaken
stands on bytes that are all old or all the jump, and in the block only while it
is filled (`Standing`); the block is filled before the first byte leads to it and
freed after the last has been restored (`BlockInv`). Each instruction, and each
step of `DllMain`, is then a step of `HookedFunction` or none (`CallRefines` and
its companions). TLC checked this invariant, too, before it was proved.

*Names.* The remembered name has no marker, because it is stripped of the at
most one marker a name can have; so `SetName` appends to a bare name. Once
settled, the character's name *is* the remembered name with the mode's marker
(`CompanionInv`), from which agreement and the return of the name follow. That a
name never has two markers is also why every step of the plugin is a step of
`ClientSignals`. A key that has toggled is still down and was seen down by the
last frame that looked (`SpentInv`).

Model-checked only: liveness (`TrackingFollowsNames`, `CallsReturn`,
`IsolationTakesEffect`, `ReleaseTakesEffect`, `ConfigTakesEffect`, `UnloadEnds`,
`ModeTakesEffect`), which is beyond the proof system. Every safety property and
every refinement that a passing run checks has a theorem.

## 5. Not modelled

* Lengths of names: `snprintf` into 256 bytes keeps a name of up to 233
  characters with its marker; at 234 the closing quote goes, from 235 on part of
  the marker. The game's own limit for a character's name is far below that.
* The return value of `RunScriptLine`, which the plugin ignores, and a fault
  between the three writes of the encounter flags. The encounter table
  (`SetEncounterSync`'s `encPtr`) is taken to exist while a session is connected.
* `SafeReadString`, `GetObjectName` (of the plugin), `ParsePlayerName`,
  `IsOwnedBySP` and `IsOwnedByHybrid`: nothing calls them. `GetPlayers`,
  `ToggleHUD`, `UpdateHUD` and `ToggleEncounterSync` are empty.
* Log, beeps, console messages; how the injector finds the path of the DLL.
* `nvse_stubs.cpp`, which is not compiled into the plugin, and the vendored
  xNVSE headers under `include/nvse` and `include/common`, which its `pch.h` does
  not include. They are declarations of another project's structures, over
  22,000 of the 24,178 lines of source. The program's own code is
  about 1,300 lines, so no faithful model of this program maps a large
  share of the repository: what is mapped is nearly all the code there is.
* `VirtualProtect` failing on the five bytes of the hook. What a fault inside
  `DllMain` leads to is the loader's decision and not in the repository. The
  ordinary reasons for a refusal are excluded by then: the five bytes have just
  been read, and executable memory has just been granted. (`VirtualProtect` on the
  ownership check, whose result the code does look at, may fail: `PatchOwner`.)
* The bodies of `client.dll` and `nvmp_storyserver.exe`, which are not in the
  repository. Their visible behaviour (the list, replication, calls of the
  function) is marked external in `PROJECT.json`.

## 6. Plan

Done: the server (scan thread, verdicts, stub, life cycle, injector), the client
(frame, toggle, overlay, flags) and the session that joins them; two abstract
specifications, and theorems for the refinements and for every safety property.

Left, in this order:

1. The verdict inside the session: `SyncHook`'s calls in `CoopSession`, so that
   `NoUnaskedMode` is stated of what is withheld and not of the tables.
2. Faults between the writes of the encounter flags, as outcomes of a toggle.
