# TLA+ models of LogisticService

These are TLA+ models of the logistics server in `src/src/server`, its rule engine in `src/src/common`, the inventory store interface in `src/database/inventoryDb.cpp`, the client in `src/src/client`, and its menus, login and user table (`menu.c`, `auth_proxy.c`, `user_db.c`), all checked with TLC. Each definition is translated from the C/C++ source. `PROJECT.json` maps every modelled definition to the lines it stands for.

## 1. The system

| Part | Code | State | Operations |
|---|---|---|---|
| Rule engine | `orderValidation.cpp`, `anomalieHandler.cpp`, `lowStockChecker.cpp` | none (pure), apart from the store reads | `validateOrderLimits`, `checkProductStock`, `checkLowStockAlert`, `reStock` |
| Order ledger | `orderStorage.cpp` | `storedOrders`, `productQuantities`, under `ordersMutex` | `storeOrder` (the print and clear functions only read, or are test-only) |
| Inventory store | `inventoryDb.cpp` | rows (kind, location, product) → quantity, in MySQL | `get*Inventory`, `update*Inventory`, `realTimeUpdate` (a debit, then a credit) |
| Session registry and router | `server.cpp` 3-197 | `clientMapUdp`, `clientMapTcp` (PID → ClientInfo), `nextClientId_udp/_tcp`, with **no lock** | `registerClient`, `findClientById`, `forwardMessageToClient` |
| Listeners | `server.cpp` 270-577 | per thread: `client_id`, `isValid`, `productStock` (live across loop iterations) | `handleUdpClients` (one thread), `handleTcpConnections` plus one detached `handleTcpClient` thread per connection |
| Control commands | `server.cpp` 579-660 | none | `LIST_CLIENTS`, `SHOW_REPORT`, answered to the thread's `client_id` |
| Idle reaper | `main.cpp` 22-28, `server.cpp` 163-178 | none | every 30 s, erase UDP sessions whose `last_seen` is more than 60 s old |
| Client | `client.c`, `menu.c` | one socket shared by two threads | send PID; `client_communicate_udp/_tcp` (send, wait 5 s, retry up to `MAX_RETRIES`); fire-and-forget commands; `receive_messages_thread` |
| Client menus and accounts | `menu.c`, `auth_proxy.c`, `user_db.c`, client `main.c` | `is_connected`, `is_logged_in`, `option_selected`, the `AuthProxy`; the MySQL user table | three menu functions that call each other (protocol → authentication → connected → authentication after a logout …); `login`/`authenticate`, `logout`, `sign_in` (`manageDbUser`: `createUser`, `deleteUser`), `send_message`, `disconnect` |

**How the parts interact.** A client connects and sends its PID, which the listener registers. Each later payload is acknowledged. An order (a payload starting with `{`) then goes through the request pipeline:
1. stored in the ledger;
2. validated;
3. stock-checked against the store;
4. `realTimeUpdate`, if both checks passed;
5. the low-stock and restock checks;
6. `processMessage`, if both flags hold. This relays a notification to the session whose routing id equals the order's source location. A control command reaching `processMessage` is answered to the thread's `client_id`.

The UDP thread, the TCP handler threads and the reaper all touch the registry maps without a lock. Each pipeline thread has its own DB session, so store calls from different threads interleave.

**Hard behaviours:**
- the check-then-act pairs against the store (the stock check, then the debit; the restock read, then the write);
- the debit/credit pair without rollback;
- the unlocked counter and maps of the registry;
- thread-local state kept across loop iterations (the UDP thread's `client_id`, and the flags);
- `close` before `erase` on disconnect;
- `last_seen` never refreshed;
- the client's two threads reading one socket, and its retries;
- the menu flags that outlive the connection they were set on, and menus that recurse instead of returning.

## 2. Modules

| Module | Models | State ↔ code | Actions ↔ code |
|---|---|---|---|
| `OrderRules` | rule engine (pure operators) | none | `ValidateOrderLimits` (the early-return chain, with `Abort` standing for the `.at` throw), `CheckProductStock`, `LowStockAlert`, `ReStockDecision`, the header constants |
| `RuleEngine` | rule engine, checked against the policy table of spec.md 4.3 and 8 | `order` (the decoded Json fields as a record), `current` (the store's answer) | every (order, read) pair is initial; `ReadAgain` varies the read |
| `OrderStorage` | ledger | `storedOrders`, `productQuantities` | `StoreOrder` (push, then add if the payload parses, names a product and has a positive quantity) |
| `OrderPipeline` | request pipeline + store + ledger, several handler threads | `stock` (rows), `pc`/`ord`/`isValid`/`productStock`/`cur` per handler, `out` (messages sent), `applied` (store writes); `TcpHandlers` are the handlers on a TCP connection | `Receive` (ack, store, parse, validate), `Write` (a write that, on a TCP connection, may fail and take the `continue` to the next read), `StockCheck`, `Debit`, `Credit` (the two legs of `realTimeUpdate`), `LowStock`, `ReStockRead`, `ReStockWrite`, `Relay`. Each action is one store call plus the pure code around it. `AbsInv` maps the state to `InventoryStore`'s. |
| `Server` | registry, router, listeners, control commands, reaper | `clientMapUdp` (PID → id, age), `clientMapTcp` (PID → id, socket slot), `nextUdp`, `nextTcp`, the UDP thread's `udp` locals, `conn[c]` per TCP handler, `peer`/`quiet` per UDP client, `conn[c].fd` (the descriptor `accept` returned: the lowest one not open), `sent` (the last message `forwardMessageToClient` was asked to write: the routing id, the receiver, the receiver's id, and for a command the sender that holds a session, `asker`; a command skipped by the flags is recorded with no receiver) | `UdpRegister`, `UdpPidLost`, `UdpOrder`/`TcpOrder` (with `Relay`: `forwardMessageToClient` to the source location's id), `UdpCommand`/`TcpCommand` (`Forward` to the thread's id), `Accept`, `RegCheck`/`RegCommit` (`registerClient` split at the racy counter increment), `Disconnect` (close), `Erase`, `Reap`, `Tick` |
| `Client` | client retry protocol with the receiver thread | `proto`, `mpc` (menu thread), `n`, `retries`, `up`/`down` channels, `result` | `SendOrder`, `SendCommand`, `Timeout`, `Readable`/`RecvFrom` (UDP select/recvfrom), `Recv` (TCP), `Receiver`, `Serve` (the server's side: an acknowledgement for every payload, then possibly more messages for an order or the report for a command), `Lose` (UDP loss) |
| `InventoryStore` | what the store promises (spec.md 3, 7, 8): each order acts on it in one step | `inv` (row → quantity) | `Move` (a transfer), `Release` (units leave: an external shipment, or a transfer whose credit failed), `Restock` (a low warehouse row set to the capacity) |
| `SessionRegistry` | what the registry promises (spec.md 3, 4.1) | `sessions` (protocol → PID → routing id) | `Register` (a fresh PID gets an id in 1..`MAX_CLIENTS_ID` no live session of the protocol holds), `Destroy` (sessions end, several at once for a reaper pass). `Server` maps its two maps onto `sessions` (`Registry`). |
| `Menu` | the client's menus, login and user table | `stack` (the menu thread's call stack, top first: which menu and where it resumes), `is_connected`, `is_logged_in`, `option_selected`, `auth` (`AuthProxy`), `users` (rows email/password), histories `conns` and `loginConn` (the connection of the last successful login), `ended` (`exit(0)` or main returning) | `SelectProtocolAndConnect`, `ExitProgram`, `ProtocolResume`; `Login` (with `Authenticate`), `LoginReadFails` (an `fgets` of the email or password fails and `login` returns early), `SignIn`, `Disconnect`, `AuthResume`; `CreateUser`, `DeleteUser`, `EndUserMenu`; `SendMessage` (the codes `start_communication` acts on), `Logout` (with `LogoutProxy`), `ConnectedResume` |
| `MCRuleEngine`, `MCOrderPipeline` | constant values for TLC | | |

**Abstractions.**
- **Store.** The store is a function from `<<kind, location, name>>` rows to quantities. A missing row reads -1, and an update of it fails. Each store call is atomic; the SQL procedures are not in the repository.
- **Orders.** Orders are records of the fields the code reads.
- **Messages.** Messages are kinds ("ack", "stock_error", "success", "low_stock", "restock").
- **Orders inside `Server`.** In `Server`, an order only sets the thread's two flags, in any combination. Whether the checks pass depends on the store, and `OrderPipeline` models that.
- **Time.** Time advances in 30 s reaper periods. A UDP session's age is capped at `Timeout+1`.
- **Menus.** One step of `Menu` is one pass of a menu's loop: the option read and the command it runs. A call to another menu pushes a frame; the caller's frame records where it resumes. The database may fail any call (`ok`/`dbOk`), `crypt` with its fixed salt is taken as the identity on model-value passwords, and `client_communicate` may return any of its codes (`Client` shows which are reachable).
- **Unsynchronised map access.** An unsynchronised `std::map` access is taken as atomic. The data race is undefined behaviour; the model keeps the outcomes that interleaving whole operations can produce, which is where the bugs below already show. A torn iteration (the reaper erasing while a handler iterates in `findClientById`) is a hazard in `PROJECT.json`, not a state of the model.

## 3. Runs

TLC checks each run's cfg; all runs finish in under three minutes (the server run takes the longest, about 2 min 40 s on two workers).

| Run | cfg | Expect | Shows |
|---|---|---|---|
| rule_engine | `RuleEngine.cfg` | pass (152,064 states) | `ValidatorAgreesWithPolicy`: the validator never accepts what the policy table rejects, and gives the table's error code. |
| pipeline | `OrderPipeline.cfg` | pass (149,734 states) | With one handler thread on a TCP connection taking up to five payloads, whose writes may fail: `NoOversell`, `WarehouseWithinCapacity`, `LedgerMatchesOrders` (total = sum of counted stored orders), `TransferMovesQuantity`, `TypeOK`, and `StoreRefinement`: the pipeline implements `InventoryStore`. Its separate read, debit, credit, restock read and restock write act on the store as one atomic step per order. A debit whose credit is pending is counted back on its source row (`AbsInv`). With two handlers the refinement fails, in the same way as pipeline_oversell. |
| pipeline_oversell | `OrderPipeline_Oversell.cfg` | violation | Two handlers both pass `checkProductStock` on 130 units, then both debit 80, which leaves the row at -30. |
| server | `Server.cfg` | pass (601,451 states) | `TypeOK` (ids within 1..`MAX_CLIENTS_ID`); `IdleUdpSessionEvicted` (liveness: a UDP session whose peer has been silent past the timeout is eventually evicted, unless the peer speaks again); `RegistryRefinement`: with one TCP handler at a time, relays, control answers, descriptor reuse and all, the two maps implement `SessionRegistry` (ids unique per protocol, in range, never changed while live; a session ends only by being erased). Both UDP sessions can be live at once, so the refinement sees two ids in use in one protocol. With two TCP slots it fails as server_tcp_id_race shows. |
| server_tcp_id_race | `Server_TcpIdRace.cfg` | violation | Two TCP threads read `nextClientId_tcp` before either writes it, so PIDs 101 and 102 both get id 1. |
| server_duplicate_pid | `Server_DuplicatePid.cfg` | violation | A connection refused as a duplicate PID disconnects, and its `erase(client_pid)` removes the live connection's session. |
| server_udp_activity | `Server_UdpActivity.cfg` | violation | A UDP client that keeps sending is reaped, because `last_seen` is set only at registration. |
| server_relay_stale_fd | `Server_RelayStaleFd.cfg` | violation | `ForwardReachesIdHolder`. PID 101 connects (descriptor 1) and registers as id 1, then disconnects: `close` runs, `erase` has not yet. A PID-0 connection is accepted and gets descriptor 1 again. Its order for location 1 is relayed by `findClientById(1)` to descriptor 1, i.e. to the new connection itself, which holds no routing id (server.cpp:465/469). |
| server_command_reply | `Server_CommandReply.cfg` | violation | `CommandAnsweredToSender`. Two traces of three steps violate it, and TLC reports either. Misroute: 202 registers (id 1), 201 registers (id 2, so the UDP loop's `client_id` is 2), 202 sends `LIST_CLIENTS`, and `processMessage(buffer, "UDP", client_id)` sends the report to 201 (server.cpp:399). Drop: 201 registers, sends an order that fails a check (`isValid`/`productStock` become false and stay so), then `LIST_CLIENTS`; `processMessage` is skipped and 201 gets no report (server.cpp:397). |
| client | `Client.cfg` | pass (942,568 states) | `CommunicateReturns`: on UDP and on TCP, with loss and with the receiver thread stealing answers, the call always returns. `TypeOK`: the retry counter never passes `MAX_RETRIES` + 1. |
| client_stale_response | `Client_StaleResponse.cfg` | violation | The reply to an earlier `LIST_CLIENTS` is taken as the response to the next order, before the server has read that order. |
| menu_login_eof | `Menu.cfg` | violation | `MenuMatchesSession`: the connected menu should run only on a connection where this user logged in. The user logs in on a first connection, a message send loses it (`is_logged_in` stays 1), they reconnect and choose Login, and the `fgets` of the email fails (end of input, where `get_int_input` also returns option 1). `login` returns before it clears the `AuthProxy` or `is_logged_in` (menu.c:145-149), and `show_auth_menu` opens the connected menu for the old user on the new connection (menu.c:389-391). |

Each property of a passing run has a mutant in `PROJECT.json`: an operator that changes one mapped definition the way a plausible bug would. TLC finds each such mutant violating its property. Examples:
- a restock that adds `MAX_CAPACITY` instead of topping up;
- a `registerClient` that checks the bound on the counter it read but stores the incremented one;
- a reaper clock that does not advance;
- a retry counter not reset for a new order.

**Found while modelling, with no run of their own.** The project keeps at most twelve runs, so these stay as hazards in `PROJECT.json`:
- `validateOrderLimits` rejects external orders of fewer than 5 units of a critical product. The spec table allows them.
- An unknown product name makes `criticalProducts.at` throw, which terminates the server (orderValidation.cpp:50).
- spec.md 4.3 and spec.md 8 disagree on whether 200 units raise a low-stock alert.
- `reStock` returns true at line 72 without restocking, so a re-stock alert is sent for any warehouse above 100 units.
- Two handler threads that read the same low stock both restock, past `MAX_CAPACITY`. `WarehouseWithinCapacity` shows this with two handlers.
- The user logs in, a message send loses the connection (`is_logged_in` stays 1), they reconnect, pick Sign in and leave the user menu. `show_auth_menu` returns on the stale flag, `show_protocol_menu` returns because it is connected, and main ends the client (menu.c:413), though main.c ends it only on Exit or Disconnect. `Menu` reaches this state (`ended = "return"`); no run checks it.
- An alert write that fails on a TCP connection skips the restock that follows it (server.cpp:551-568); `OrderPipeline` allows it, and spec.md does not tie the restock to the alert.
- A transfer to a hub row that does not exist debits the source and credits nothing. A run of `StockConserved` (store = initial + restocks − shipments) showed it. spec.md 7 states this behaviour, so `InventoryStore` allows it as `Release`.
- Over TCP, an order whose answer comes late is resent and executed twice. A run of `OrderExecutedOnce` showed it. With no request id in the protocol, at-least-once is what the code implements.
- `sign_in` is offered before login and lets anyone connected create or delete any user. No role is ever checked: `authenticatedRole` is only printed.
- Each logout/login cycle nests two more menu frames (menu.c:449), so the stack grows without bound; `Menu` caps it with `MaxDepth`.

## 4. Bounds and why they are enough

- **RuleEngine.** RuleEngine enumerates every combination of the field values the code branches on:
  - quantities on both sides of each limit (0, 4, 5, 19, 20, 25, 26, 49, 50, 100, 101);
  - names: empty, critical and non-critical;
  - every action, source and destination type the code tests, plus an unknown one;
  - stock reads -1, 0, 19, 20, 100, 101, 199, 200, 201.
- **OrderPipeline.** Five orders (`MCOrderPipeline`) cover warehouse→hub, hub→external, a missing destination row, a non-positive quantity and an unparsable payload. `MaxOrders` = 5 per handler lets a row be debited, fall under a threshold, be restocked and be debited again, and lets the hub be drained by repeated external shipments until its stock check fails. Two handlers are the least that exposes the check/act races.
- **Server.** The pass run uses two UDP clients (whose orders relay to locations 1..`MAX_CLIENTS_ID`), with one TCP slot reused by 2 connections and PIDs {0, 101}. `MAX_CLIENTS_ID` = 2, so both UDP clients hold sessions at once (ids 1 and 2) and the refinement's "an id no live session holds" is tested with another session live; `Timeout` = 1 period. The refusal branches of `registerClient` are not reached in this run: a UDP refusal needs a third client and a TCP one a third connection, and either takes the run past five minutes (three connections: 1.29 million states, 6 min). The mutant of `TypeOK` hands out an id past the bound without needing a refusal. The violation runs use two TCP slots, which is the least a race needs; descriptor reuse needs two accepts on the same descriptor, one after the other.
- **Client.** `MAX_RETRIES` = 3 is the code's value. Two menu actions are enough for one request to leave messages behind for the next.
- **Menu.** Two emails and two passwords, with any initial user table, cover the following:
  - a user who is missing;
  - a wrong password;
  - a row deleted or re-created under another password.
- **Menu bounds.** `MaxConns` = 2 allows a lost session and a new one. `MaxDepth` = 5 holds the protocol, authentication and connected menus, plus one logout's authentication and connected menus above them.

## 5. Fairness

- **OrderPipeline.** `WF` on each handler's `Work`: a thread with a payload in hand keeps running, because store calls return. Clients are under no obligation to send. No property of the pipeline run is a liveness property, so the checked results do not depend on it.
- **Server.**
  - `WF` on `RegCheck`, `RegCommit` and `Erase`: a handler inside `registerClient` or the disconnect path finishes it.
  - `WF` on `Reap`: the reaper thread loops forever.
  - `WF` on `Tick`: time passes.
  - Clients need not send.
- **Client.**
  - `WF` on `Serve`: the server keeps reading.
  - `WF` on `Receiver`: the receiver thread loops.
  - `WF` on `Timeout`, `Readable`, `RecvFrom` and `Recv`: the calls are bounded by `select` timeouts and `SO_RCVTIMEO`.
  - The user and the network loss have no fairness.
- **Menu.** No fairness: every step is a choice of the user's.
- Configurations where the system may really stop (the server blocked in `accept`/`read`, the client idle in its menu, the client after `exit` or the return of main) say `CHECK_DEADLOCK FALSE`.

## 6. Not modelled

- JSON templates, formatting, logging and socket set-up: I/O with no state a property depends on. In the menus: `getUsers` and the `LIST_CLIENTS`/`SHOW_REPORT` items change no menu state (`Client` models what they send). End of input on stdin is covered by what the code then does: `get_int_input` returns its minimum, which is an option the model already lets the user choose, and `login`'s reads fail (`LoginReadFails`).
- Malformed ids reaching the uncaught `std::stoi` in lowStockChecker.cpp.
- A bare number re-sent by a UDP peer, which makes `isMember` throw in `processMessage`.
- A failed TCP `bind`/`listen` (server.cpp:249/260): `socketTcpConfig` returns -1 where the UDP set-up exits, so the server runs UDP-only with its accept loop spinning; spec.md 7 calls it fatal. Set-up runs once before any thread, so it is a hazard in `PROJECT.json`, not a run.
- The relay frame's text and the failure of its `send`/`write` to the receiver: only who receives it is modelled.
- The client's `char[6]` PID buffer overflow (undefined behaviour outside a model's reach).
- Shutdown. `stopServer` is never called, so the listener loops never end. If `startServer` throws, main deletes the server and then joins the reaper, which never stops and keeps using the deleted server (main.cpp:39-40). This happens once, at start-up, so it is a hazard in `PROJECT.json`, not a run.

## 7. Plan

Done:
1. The rule engine against the policy.
2. The pipeline and store races.
3. The registry, listeners and reaper.
4. The client retry protocol.
5. The menus, login and user table (`Menu`).
6. The atomic store (`InventoryStore`), with the pipeline shown to implement it.
7. The relay of orders in `Server`, with descriptor reuse across `close`/`accept` (server_relay_stale_fd).
8. The registry's abstract specification (`SessionRegistry`), implemented by `Server` with one TCP handler at a time.
9. The write-failure `continue` paths of the TCP handler in `OrderPipeline`.
10. The command path end to end: `CommandAnsweredToSender` (server_command_reply) covers both the stale-flag drop and the misrouted UDP answer.
11. A larger pipeline instance (`MaxOrders` = 5).
12. `login`'s early returns on a failed read (menu_login_eof), and the acknowledgement of commands in `Client`.

Next:
- Composing `OrderPipeline` with `Server`'s flags, so that a command's fate depends on real check results.
