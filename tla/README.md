# A TLA+ verification of dmdhcp

dmdhcp is a DHCP client (RFC 2131/2132) for dmod systems. It owns no thread: replies are
handled on the rx pump of the interface, retransmissions, the ARP conflict probe and the
deadlines of a lease on the callbacks of two one-shot timers, and the public API on
whatever thread calls it. What is hard about it is therefore not the protocol on a quiet
day but the order in which those threads get `lease->lock`. This project models the lease
with all of its threads, model-checks it with TLC, and proves its main invariants with
TLAPS for every value of the parameters.

## Inventory

| Part of the system | Source | Modelled by |
|---|---|---|
| what the client promises the application | `include/dmdhcp.h` | `DmdhcpClient`, implemented by `DmdhcpLease` |
| inbound state machine | `src/dmdhcp_input.c` | `DmdhcpLease` (rx actions); the pump that calls it in `DmdhcpTable` |
| lease fields from a reply | `src/dmdhcp_input.c`, `populate_lease_from_options()` | `DmdhcpLease` (addresses, lists), `DmdhcpTimes` (times) |
| outbound state machine, retransmission | `src/dmdhcp_output.c` | `DmdhcpLease` (rt actions); the intervals left out |
| conflict probe | `src/dmdhcp_output.c` | `DmdhcpLease` (what it decides), `DmdhcpTable` (what it blocks) |
| messages sent | `src/dmdhcp_output.c`, `send_message()` and its callers | `DmdhcpMessage` |
| apply and unapply | `src/dmdhcp_lifecycle.c` | `DmdhcpLifecycle` |
| T1, T2, expiry, loss of a lease | `src/dmdhcp_lifecycle.c` | `DmdhcpLease` (lt actions), `DmdhcpTimes` (arithmetic) |
| `dmdhcp_start/renew/release/stop` | `src/dmdhcp.c` | `DmdhcpLease` (one thread), `DmdhcpTable` (several, and from callbacks) |
| teardown of a lease | `src/dmdhcp_lease_table.c`, `destroy_with_context()` | `DmdhcpLease`, `DmdhcpTable`, context normal |
| lease table and its mutex | `src/dmdhcp_lease_table.c` | `DmdhcpTable` |
| DNS and NTP providers | `src/dmdhcp_registrations.c`, `src/dmdhcp_lease_table.c` | the walk in `DmdhcpTable`; what it finds, a predicate of `DmdhcpLease` |
| `dmod_init`, `dmod_deinit` | `src/dmdhcp.c`, `src/dmdhcp_lease_table.c` | `DmdhcpTable` |
| option codec | `src/dmdhcp_options.c` | `DmdhcpOptions` |
| message codec | `src/dmdhcp_wire.c` | `DmdhcpWire`, `DmdhcpMessage` |
| accessors and setters, `dhcpc` | `src/dmdhcp_lease_table.c`, `tools/dhcpc` | not modelled |

`PROJECT.json` repeats this list with the details, maps every definition to the lines it
translates, and lists the hazards: the places where a test would hardly reach what a model
checker does.

## The modules

```
DmdhcpClient                        what the application may rely on
DmdhcpLifecycle                     apply() and unapply() on dmnetif and dmroute
  DmdhcpLease                       one lease, four threads, network and servers
    MCDmdhcpLease                   small instances for TLC
    DmdhcpLeaseInductive            the inductive invariant, and that every thread keeps it
      DmdhcpLeaseProofs             theorems about timers, teardown and configuration
      DmdhcpClientProofs            DmdhcpLease implements DmdhcpClient
DmdhcpTable                         several leases: mutexes, pumps, visitors, load and unload
  MCDmdhcpTable
  DmdhcpTableLocks                  who holds which lock, and that nobody waits in a circle
    DmdhcpTableProofs               one lease per interface, safe visits
DmdhcpTimes                         deadlines of a lease in uint32_t arithmetic and real time
  MCDmdhcpTimes
  DmdhcpTimesProofs
DmdhcpWire                          the fixed header as bytes
  DmdhcpOptions                     the loops over the options
    DmdhcpMessage                   a message from a lease to bytes and back
      MCDmdhcpMessage
      DmdhcpMessageProofs           the loops stay inside their buffers; what is found is there
        DmdhcpMessageRoundTrip      header and options come back; what the client sends fits
```

The same lease is looked at from four sides. `DmdhcpLease` has all of its fields and every
order of its threads, and neither time nor a second lease. `DmdhcpTimes` has time and one
thread. `DmdhcpTable` has many leases and threads and of each lease only what decides who
holds which lock. `DmdhcpMessage` has the bytes.

### DmdhcpLifecycle

State: the settings of the interface (`ifcfg`, external dmnetif), the default routes
through it (`routes`, external dmroute), and the two fields of the lease that record what
was done, `default_route` and `iface_configured`. `dmdhcp_lifecycle_apply` chooses one of
the outcomes in `ApplyOutcomes`: all calls succeed, the netmask fails, the address fails
(the netmask is then set), the route fails (a NULL handle, and apply() goes on). Like the
code, it overwrites `default_route` without removing the route it named.
`dmdhcp_lifecycle_unapply` does nothing unless `iface_configured`.

### DmdhcpLease

What a thread does between taking and releasing `lease->lock` is one action. Where the code
releases the lock and takes it again, `pc[t]` records that thread `t` is in between:

| Thread | Code | Labels between sections |
|---|---|---|
| `rx` | `dmdhcp_handle_datagram()` | `lock` (lease found, lock not yet taken), `lost_unapply` and `lost_notify` (`handle_lost()` after a NAK), `on_bound` |
| `rt` | `retransmit_timer_callback()` | `lock`, `probe` (the lock is held across `dmarp_resolve()`), `on_bound`, `on_error` |
| `lt` | `lease_timer_callback()` | `lock`, `lost_unapply`, `lost_notify` |
| `api` | `dmdhcp_start()` ... `dmdhcp_stop()` | `start`, `unapply`, `destroy`, `join_rt`, `join_lt` |

`life` follows the lease from the table (`tabled`) through its removal (`removed`) and the
end of its magic (`dead`) to the free (`none`). The fields of the struct keep their names.
Each timer is stopped, armed or destroyed; an armed one may fire at any moment, so all
orders of deadlines are covered. `SharedWorker` says whether the two timers have a worker
each or share the timer-service thread; the code supports both kinds of backend.

The environment is external. `asked` holds the messages of the current transaction; while
it lasts, servers may answer each of them with any reply of `OptionSets`, any number of
times. `net` holds the replies in flight: they may be lost, duplicated (a delivery may
leave the datagram there) and reordered. `ConformingServers` restricts ACKs to the address
that was asked for. `FreshXids` idealises `dmosi_rand32()`: a new identifier differs from
those still in use. `cleared` is a history variable, the address the last clean probe of
the current acquisition was about.

Two undefined behaviours are resolved mildly, and what leads to them is a property of its
own: a handler that touches a freed lease gives up (`rx_abandon`; see `FreedAfterLastUse`),
and starting a destroyed timer does nothing.

### DmdhcpClient

The promise, with two variables: the phase (off, acquiring, held, failed) and the address
held. `DmdhcpLease` defines both from its own state (`Phase`, `HeldAddress`), and
`ImplementsClient` says that every step of the four threads is one of `Start`, `Bind`,
`Lose`, `GiveUp` and `Stop`, or changes neither. In particular a renewal never changes the
address, a lease is only lost to a new acquisition, and nothing leads out of `failed` but a
stop. It holds when servers confirm the address that was asked for and both timers run on
one worker; the section on disagreements says what happens otherwise.

### DmdhcpTable

Every thread that takes the mutex of the table or the lock of a lease: application threads
in `dmdhcp_start/release/stop`, the rx pump of each interface, the worker of each lease's
timers, visitors (`dmdhcp_get_ntp_servers()` and the DNS and NTP walks), and the unloader. A
section in which nobody can wait is one action. Two places hold a lock across steps: a visitor
holds the mutex during its walk and the lock of the lease it is looking at, and a worker holds
its lease's lock during the probe. `WaitsFor(t)` is who has to move before `t` can: the holder
of what it waits for, or the worker its teardown joins.

The state of a lease is reduced to init, waiting, checking, held and failed, and the two timers
to one worker with "a timer is armed". `CallbackStops` names the threads whose callbacks may call
`dmdhcp_stop()`. `QuietUnload` says that `dmod_deinit()` is called when no visit and no handler is
under way; applications are always done with the module by then. `frames` is the queue of an
interface: DHCP datagrams and ARP replies, delivered in order by one pump. A probe whose answer
has arrived ends without it only if the pump is held up, directly or through one other thread, by
the probe itself; a second is otherwise long enough to deliver a frame. A block of memory is handed
out again only when no thread remembers it, so a stale pointer never meets a new lease here; a pump
that finds its lease freed gives up (`pump_abandon`).

### DmdhcpTimes

One thread, with time. An ACK stores the lease time, T1 and T2 with the fallbacks of
`populate_lease_from_options()`; the three arm functions compute periods modulo `Word`;
`elapsed` is the real time since the ACK, and a fire of `lease_timer` advances it by the
period. `dmdhcp_renew()` may cut in after some delay and leaves the timer running.

### DmdhcpWire, DmdhcpOptions, DmdhcpMessage

`DmdhcpWire` gives the header of `dmdhcp_build_message()` as a set of fields with their offsets,
and what `dmdhcp_parse_message()` reads at the same offsets. `DmdhcpOptions` has
`dmdhcp_options_write()` and `dmdhcp_options_find()`, one action per iteration; `touched` records
how far the loop has written or read. `DmdhcpMessage` puts them together: a message is sent by one
of the seven senders of `dmdhcp_output.c`, or built by a caller of the API with any options and
capacity, and then read back; or it arrives from the network with any options area. The reference
for the search is `Entries`: the offsets at which RFC 2132 has an option or a pad, defined as a least
fixed point and without reference to the loop.

## The runs

Runs that pass:

| Run | Properties | What it shows |
|---|---|---|
| `lease_threads` | `TypeOK`, `NeverStranded`, `ValidLeaseApplied`, `ValidLeaseProbed`, `CallbacksFinishBeforeFree` | rx, two workers, renew, release and stop in every order, new leases and INIT-REBOOT, addresses that change from one acquisition to the next, conflicts, a second lease afterwards |
| `lease_progress` | `Settles`, `TeardownReturns` | no intermediate state is permanent, without help from a server, and `dmdhcp_stop()` returns |
| `lease_shared` | `NeverStranded`, `AppliedCanBeUndone`, `FailedIsFinal`, `ImplementsClient` | both timers on one worker, and every way `apply()` can fail, repeated by renewals; the abstract client is implemented |
| `times` | `TypeOK`, `ExpiresInTime` | times in order, out of order, zero, absent and wrapping |
| `table` | `TypeOK`, `OneLeasePerIface`, `VisitSafe`, `NoCircularWait` | racing starts and stops on two interfaces, a callback that stops its lease on the rx pump, visits, load and unload |
| `message` | `TypeOK`, `WriteInBounds`, `FindInBounds`, `FindCorrect`, `RoundTrip`, `HeaderRoundTrip`, `SendsFit`, `Terminates` | all messages sent, options around the capacity, every short options area |

Runs in which TLC finds that the code does not do what a comment or a document says. Each
checks one property; `PROJECT.json` quotes the line under `findings`.

| Run | Property | What happens |
|---|---|---|
| `orphan_route` | `NoOrphanRoute` | a renewal without a router option forgets the default route |
| `released_configured` | `ReleasedMeansUnconfigured` | a probe that ends after the unapply of `dmdhcp_release()` configures the interface again |
| `freed_in_use` | `FreedAfterLastUse` | a handler that found the lease uses it after the free |
| `renew_delays_t2` | `CountedFromBound` | `dmdhcp_renew()` does not arm T2, so T1 is taken for it and the lease expires T2 - T1 early |
| `self_join` | `NoCircularWait` | `dmdhcp_stop()` from a callback on the timer worker joins the worker it runs on |
| `missed_conflict` | `ConflictNoticed` | a DHCP datagram in front of the ARP reply blocks the pump on the lock the probe holds |

Other disagreements met while modelling, without a run of their own:

- `docs/dmdhcp.md:132` (expiry is "unapply + on_expired_or_lost + init"): a renewal ACK
  handled between the decision to expire (`src/dmdhcp_lifecycle.c:148`) and the restart applies
  the address again, and the next negotiation runs on a configured interface.
- `src/dmdhcp_internal.h:212` (the lookup returns the lease "whose current xid == `xid`"): the
  xid is compared before `lease->lock` is taken and not after, so a reply may be handled in the
  next transaction. `ValidLeaseProbed` and `NeverStranded` hold nevertheless.
- `src/dmdhcp_internal.h:336` ("Arm lease_timer for T1 (lease->t1_sec from now)"): T1 * 1000
  wraps from 4294968 s on, and the lease is renewed early. It never expires late
  (`ExpiresInTime`).
- `docs/dmdhcp.md:179` ("the table lock is never taken while a lease lock is held. So a lease
  cannot be torn down while it is being visited") needs `QuietUnload`:
  `dmdhcp_lease_table_deinit()` pops leases without the mutex. With `QuietUnload = FALSE`
  `VisitSafe` is violated. The loop also takes the length of the list once and does not test
  what it pops for NULL, so a lease removed by a callback meanwhile is missed there.
- `include/dmdhcp.h:93-95` (a parsed address is "dmroute_family_none for a field that's
  legitimately all-zero"): `read_addr()` sets the family to v4 always. `HeaderRoundTrip` states
  what the code does.
- `src/dmdhcp_registrations.c:42` ("callback returns zero to continue"): a non-zero return leaves
  the loop over one lease's servers; the walk goes on with the next lease.
- `include/dmdhcp.h:286` ("The lease stays in dmdhcp_state_failed until dmdhcp_stop() is
  called") holds on a shared worker (`lease_shared`). With a worker per timer a
  `handle_lost()` still under way can restart a lease that has failed in the meantime:
  `FailedIsFinal` is violated with `SharedWorker = FALSE` and `MaxDeclineRetries = 0`.
- `src/dmdhcp_input.c:182` ("dmdhcp already owns this address uninterrupted") assumes that
  a renewal ACK repeats the address; the code does not compare it. `ValidLeaseProbed` and
  `ImplementsClient` are violated with `ConformingServers = FALSE`.
- `src/dmdhcp_dns.h:29` ("Leases still being negotiated, or lost, report nothing"): between
  the two sections of `handle_lost()` (`pc[t] = "lost_notify"`) the state still counts as
  valid and the DNS servers are still there.
- `include/dmdhcp.h:257` (on_bound is "Called after dmdhcp has already applied the lease to
  the interface"): `probe_clean_ack` and `rx_ack_renewal` ignore the result of apply().
- `src/dmdhcp_input.c:76`: `lease_time * 7u` wraps from 613566757 s on, the infinite lease
  included, and the default T2 falls below T1.

### Bounds, and why they are enough

- One reply in flight (`MaxNet` = 1) besides the one in processing: with duplication, that
  is a late reply of an old transaction or a repeated one of the current transaction racing
  the one being handled.
- Two addresses, so that an acquisition can change the address, or one where the property
  does not compare addresses; one mask, gateway, server and name server, each of which may
  be absent together (`MCBothReplies`, `MCRouterOrBare`).
- `MaxRequestRetransmits` and `MaxDeclineRetries` of 0 or 1 instead of 4 and 3: both sides of
  the limit are reached, and nothing else depends on their values. The theorems hold for all
  values.
- Four transaction identifiers: one in the lease, one in processing, one in flight and a
  fresh one (`FreshXidExists`). They are only compared, so permuting them is a symmetry; it
  is not used in the run with liveness properties.
- `lease_shared` makes no call but `dmdhcp_renew()`: a teardown may leave the address behind
  (`released_configured`), and a failed `apply()` may then be followed by anything.
- `Word` = 512 and `MsPerSec` = 21 stand for 2^32 and 1000. All products wrap within the
  values enumerated. 21 is the least factor for which `ExpiresInTime` holds of defaulted times:
  a lease whose product with 7 wraps must be longer than three words of milliseconds.
- `table`: two interfaces, leases and application threads make every race for one interface and
  for two; one visitor, since a second would only wait for the mutex; one frame per interface
  (two in `missed_conflict`, where their order is the point), and a server on one interface only.
- `message`: areas of up to five bytes over pad, end and two small numbers, which are code,
  length and data at once, and longer ones with an address list; hostnames of none, 0, 3, 255 and
  300 characters; capacities from one byte too few to more than enough. Transaction identifiers
  stay below 2^31, the largest number TLC has.

### Fairness

`FairSpec` assumes that the rx thread, each worker and an API call under way take the steps
they can take: threads are scheduled, armed timers expire, user callbacks return and the
probe ends within `DMDHCP_ARP_PROBE_TIMEOUT_MS`. Nothing is assumed of the network, of
servers or of the application, so `Settles` is about a client nobody answers as well. The
liveness run has a worker per timer: on a shared worker weak fairness per timer would not
exclude that one starves the other, and the code has nothing to say about it.

The messages have weak fairness of the whole step: one call runs to its end on one thread. The
table has no fairness; its properties are about safety, and `NoCircularWait` is the part of
progress that does not depend on scheduling.

## The proofs

All proofs are checked by tlapm from nothing; the assumptions are the named ASSUMEs of the
modules (`LifecycleAssumption`, `LeaseAssumption`, `TimesAssumption`, `TableAssumption`,
`MessageAssumption`), which TLC evaluates in the runs.

| Theorem | States | If |
|---|---|---|
| `LeaseTypeCorrect` | `Spec => []TypeOK` of `DmdhcpLease` | |
| `NoTimerIsMissed` | `Spec => []NeverStranded` | |
| `FreeAfterCallbacks` | `Spec => []CallbacksFinishBeforeFree` | |
| `LeaseIsApplied` | `Spec => []ValidLeaseApplied` | setting netmask and address does not fail |
| `ApplyIsUndoable` | `Spec => []AppliedCanBeUndone` | the application calls nothing but renew |
| `HeldAddressIsProbed` | `Spec => []ValidLeaseProbed` | `ConformingServers` |
| `FailedStaysFailed` | `Spec => FailedIsFinal` | `SharedWorker` |
| `LeaseImplementsClient` | `Spec => ImplementsClient` | both of them |
| `TableTypeCorrect` | `Spec => []TypeOK` of `DmdhcpTable` | |
| `WaitsAreAcyclic` | `Spec => []NoCircularWait` | no timer callback calls `dmdhcp_stop()` |
| `TableHasOneLeasePerIface` | `Spec => []OneLeasePerIface` | `QuietUnload` |
| `VisitsAreSafe` | `Spec => []VisitSafe` | `QuietUnload` |
| `TimesTypeCorrect` | `Spec => []TypeOK` of `DmdhcpTimes` | |
| `LeaseExpiresInTime` | `Spec => []ExpiresInTime` | |
| `DefaultsInOrder` | default T1 and T2 are in order for leases of at least 3 s that do not wrap | |
| `WritesStayInside` | `Spec => []WriteInBounds` | |
| `FindsStayInside` | `Spec => []FindInBounds` | |
| `FindsWhatIsThere` | `Spec => []FindCorrect` | |
| `MessageTypeCorrect` | `Spec => []TypeOK` of `DmdhcpMessage` | |
| `HeadersComeBack` | `Spec => []HeaderRoundTrip` | |
| `OptionsComeBack` | `Spec => []RoundTrip` | |
| `SentMessagesFit` | `Spec => []SendsFit` | |

**The lease.** `TypeOK` is not inductive: a server answers with the lease's own xid, which is
`NoXid` before the first transaction, and the end of a probe acts on the state without
looking at all of it. `IndInv` adds `XidInv` (a lease with something asked, or past INIT, has
an identifier), `ProbeInv` (the lock is held exactly while the retransmission worker is in a
probe, and the state is then one of the two checking states: no other thread can move it) and
`LifeInv` (how the position of the application's thread, the life of the lease, the two
timers and the positions of the workers go together during start and teardown).
`DmdhcpLeaseInductive` has what the fragments of the handlers preserve, and one lemma per
thread. `CallbacksFinishBeforeFree`
follows from `LifeInv`. `NeverStranded` and `ValidLeaseApplied` are inductive relative to
`IndInv`, and `DmdhcpLeaseProofs` goes through the actions once for each. `UndoInv` adds to
`AppliedCanBeUndone` that a lease not yet inserted has configured nothing.

**The client.** That a held address was probed depends on where replies come from. `AckInv` says
that an ACK of the current transaction is about the offered address, that a REQUEST is out only
once an address was chosen, and that an ACK waiting for the lock is still about that address
unless discovery has started over, which ignores it. `ThreadInv` says that nothing runs on a lease
whose start is between its two sections, and, on a shared worker, that no thread is in
`handle_lost()` when the probe gives up. Most actions are one of five kinds
as far as `AckInv` and the abstract client can tell (quiet, restart, extend, resend, leave);
`StepKinds` sorts them once, and the invariants and the refinement are proved per kind and per
remaining action.

**The table.** `LockInv`, in `DmdhcpTableLocks`, says where each kind of thread can be and who can hold which lock there:
the mutex only a walking visitor, the lock of a lease only its own worker in a probe or the
visitor looking at it. Whoever holds a lease lock waits for nobody; so a worker waits at most for
somebody who does not wait, and neither a teardown that joins it nor the visitor with the mutex
can close a circle. `LockInv` holds whatever the callbacks call, and `TypeOK` is a part of it; only
the last argument needs that no timer worker tears down its own lease, which is what the run
`self_join` does. `TableInv`, in `DmdhcpTableProofs`, adds who owns a lease during start and
teardown (`Owners`: one thread, and the application cannot name the lease any more), that an unload
meets no application, pump or visitor, and the two properties. A worker that stops its own lease and
the unloader that pops the same lease may both own it (`Shares`): the worker waits for itself, and
the unloader for the worker, so neither frees it.

**The deadlines.** `ExpiresInTime` is about a sum of periods; `DeadlineInv` says for each
state at which moment the current period ends at the latest: T1 in BOUND, T2 in RENEWING, the
end of the lease in REBINDING. A product that wraps only gets smaller (`TimesBelow`,
`PeriodsBounded`), so the differences telescope to a bound whatever wraps. `dmdhcp_renew()` moves
to RENEWING with the end of T1, which is earlier than T2, so the bound survives although
`CountedFromBound` does not. When the default T2 has wrapped the times are not in order;
`WordsInv` then bounds the three periods by three words, and the lease is longer than that.

**The options.** `Bounds` relates `pos`, `touched` and the lengths at each step of the two loops.
`FindInv` adds that `pos` is an entry and that no earlier entry is a hit, an END or cut short; the
least set of entries is compared with the walk by exhibiting closed sets.

**Header and options, there and back.** `HeaderBytes` places a set of fields. The offsets and widths
keep them apart (`FieldsApart`), so each byte belongs to one field (`HeaderByte`) and each field is
read back whole (`FieldRead`, and `U16RoundTrip` and `U32RoundTrip` for the byte order). `HeaderInv`
carries that from `dmdhcp_build_message()` to `dmdhcp_parse_message()`.

Where an option is stored depends on the lengths of all before it. Instead of a sum, which would need
induction over the array, `WrittenInv` says that there is a function `s` with the offset of each option
written so far (`Layout`); an iteration of `dmdhcp_options_write()` extends it by one, and the search,
once begun, is always at some `s[j]` with no option before `j` that has the code. So the iterations of
the two loops are the induction, and `RoundTrip` follows when the search ends.

`SendsFit` needs a bound on the same sum. All options of the client but the hostname have at most 7 bytes
of data, so after `n` of them at most `9 * n` bytes are used, and 248 more once the hostname is among
them (`Used`); with five slots that is 293 of the 336 bytes behind the header (`UsedFits`). `SendInv`
states this together with the fields `send_message()` fixes, and uses `WrittenInv` to show that the
search of such a message never meets a truncated option.

**Model-checked only.** `Settles`, `TeardownReturns` and `Terminates` (liveness under fairness is
out of the prover's reach), and the violations. Every invariant, every action property and the
refinement that the passing runs check is also a theorem, under the conditions in the table.

## Not modelled

- The retransmission intervals (`next_backoff()`): an armed timer may fire at any moment in
  `DmdhcpLease`, which covers every schedule.
- Server times that are out of order, and defaulted leases below three seconds: `DmdhcpTimes`
  reaches them, but the code's fallback period of one second is then all there is to say.
- The teardown contexts other than normal: nothing in the code passes them.
- `dmdhcp_renew()` from inside a callback, `dmdhcp_stop()` from `on_expired_or_lost`, and a
  `dmod_init()` that fails after the table was created.
- Starting a timer that was destroyed: what that does is up to dmosi, whose source is not here.
- Accessors and setters (`dmdhcp_get_*()`, `dmdhcp_set_callbacks()`): each copies fields under the
  lock and so is one atomic read or write of state the models have; no property here would tell
  a model with them from one without. `dmdhcp_option_get_u32()` and `_get_addr()` are a length test
  and a copy.
- `dhcpc`, logging, module registration: no state of their own.
