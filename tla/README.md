# Sprint Tracker: specifications and proofs

TLA+ models of Sprint Tracker (`back-end/`, NestJS + Prisma + PostgreSQL, and the
pages of `front-end/`, Next.js + React Query, that keep a state of their own), the
TLC instances that check them, and TLAPS proofs about them.
Paths below are relative to the root of the repository.

## 1. The system

A board has lists (columns), a list has tasks in an order the users choose by
drag and drop, a task may be in a sprint. A REST back end (one Node process)
stores everything in PostgreSQL; a Next.js front end shows it. The back end emits
events over websockets, but no client in the repository listens to them: a page hears
of the changes of others only when it asks again.

What makes the code hard is the same everywhere: **a handler is an async
function that awaits one database statement after another**. It reads and checks
first, and writes at a later await; in between any other handler may run. Only
some of the writes are grouped in a `$transaction`, no version column and no
lock protects a row, and few rules are backed by a unique index. A restart, a
refused foreign key or a database error ends a handler between two statements.

The front end adds a second layer of the same kind: **a page shows cached answers**, some
of them overlaid by a state of its own, while calls it has made are still under way.
Its calls are server actions, which Next.js sends one at a time and in order.

### Inventory

| Component | State | Operations | Interacts with | Hard behaviour | Correct when |
|---|---|---|---|---|---|
| `TaskService` (`back-end/src/task`) | `Task` rows: list, position, status, completedAt, deletedAt; `TaskLog` rows | `create`, `update`, `updatePosition`, `moveTaskToList`, `remove`, `findAllByList` | lists (mapped status), sprints, members (assignee), log, gateways | positions and status judged from a row read awaits earlier; `updatePosition` is two statements without a transaction; two automations (status to column, column to status) | positions of a list are 0..n-1 and the order is what the users asked for; completion date iff DONE; status agrees with a mapped column; deleted rows stay as they are; the log agrees with the table |
| `SprintService` (`back-end/src/sprint`) | `Sprint` rows: status, dates, owner, board of origin; `Task.sprintId` | `create`, `update`, `remove`, `closeSprint`, `addTask`, `removeTask`, listings | tasks, boards | one ACTIVE sprint per owner is a read, then a write; closing reads the leftovers before its transaction | one ACTIVE sprint per owner; a completed sprint takes no task; leftovers go where they were told to go; sprints end after they start |
| `BoardService` (`back-end/src/board`) | `Board` (owner), `BoardMember` (role), `Invite` | `create`, `update`, `remove`, `removeMember`, `changeMemberRole`, `invite`, `responseInvite` | tasks, sprints, notifications | succession when the owner leaves picks the next owner before the transaction; counting admins, then demoting; find invite, then insert | the owner is a member and an admin; a board has an admin; one pending invite per user; an observer never becomes owner |
| `BoardMemberService` (`back-end/src/board-member`) | `BoardMember`, `Task.assigneeId` | `add`, `remove`, role listing | boards, tasks | the route of `remove` is shadowed by that of `BoardController` | an assignee is a member |
| `ListService` (`back-end/src/list`) | `List`: position, archived, mapped status | `create`, `update`, `updatePosition`, `remove` | tasks, logs, labels | `remove` reads the tasks, then deletes labels, logs, tasks and the list in separate statements; positions come from the client | a removal is never refused half way, and may be repeated if it was cut off; reordering keeps the columns apart |
| `MeService` (`back-end/src/me`) | `User` | profile, `deleteAccount` | boards, tasks, members | the order of its deletes meets the foreign keys | an account can be deleted, and takes nothing of others with it |
| `AuthService` (`back-end/src/auth`), reset pages (`front-end/hooks/auth`, `lib/actions/auth.ts`) | `User`: password, reset code and its expiry; the cookie `reset-token` of each browser | sign up, sign in, LDAP, OAuth, forgot / verify / reset, change password | e-mail, browser | a code is read, checked and cleared in separate statements; a new code replaces one in flight; two servers and a browser must agree on a cookie | one code grants one token and only the newest one does; who holds a valid token may set a password; a change replaces the password it was told |
| Guards (`back-end/src/auth/guards`) | none | read the role before the handler | members | a role may change after it was read | |
| Gateways (`back-end/src/events`) | rooms of the sockets | `joinBoard`, notify | members; no client in the repository | membership is looked at only when joining | who is no member receives no events |
| Front end, board page (`front-end/app/dashboard/board/[id]`) | the cached lists, an order of its own after a drop, the calls under way | drag and drop, dialogs, refetch | tasks, lists | an answer asked for before a drop overwrites it; several drops are under way; calls are refused or break | it shows what the server has, at last; a drop does what it showed |
| Front end, sprints page (`front-end/app/dashboard/sprints`, `features/sprints`) | the cached active sprint and list of sprints, the dialog that closes a sprint, the calls under way | activate, create, add and take tasks, close | sprints, tasks | buttons and the dialog judge from cached answers what the server will accept | what it offers is accepted; closing redistributes the tasks it has asked about |
| `TaskLogService` | `TaskLog` | `createLog`, listings | tasks | written after the commit | agrees with the tasks |
| `LabelService`, `TaskCommentService` | `Label`, `TaskLabel`, `TaskComment` | create, update, remove, attach, detach | tasks, boards | a label is cleared and deleted in two statements | a removal is never refused half way |
| `AnalysisService` | none | reports | tasks | | |
| Email, health, logging, validation, controllers, DTOs, deployment, other pages | none of its own | I/O, shape checks, rendering | | | |

## 2. Modelling conventions

* **One action per await.** Each Prisma call and each `$transaction` is one
  atomic step, which is what the code waits for. For the calls the handlers make
  (updates by id, `updateMany` with a `where` on current values) this agrees with
  PostgreSQL's READ COMMITTED as long as two statements that touch the same row
  are ordered one way or the other; anomalies *inside* one transaction are not
  modelled.
* **`req`** holds, for every handler in flight, the statement it awaits next
  (`pc`) and what it remembers: the body of the request, and the row it read when
  it began (`seen`). A handler that checks only data that never changes in the
  module is one action.
* **`Fail`** ends a handler before its next statement: a check refuses the
  request, a foreign key or the database answers with an error, or the process
  restarts. Several `Fail`s in a row are a restart. What was written stays.
* **Isolation.** The server serializes nothing. `Isolation` is not a mechanism of
  the code but a statement about an instance: how far the requests of its
  clients happen to keep out of each other's way. A property that holds only
  when, say, no two requests in flight name the same task says so; the known
  disagreements of section 4 show what happens otherwise.
* Operators marked `seeded bug` are used by no module; each is a small error of
  the kind one makes in this code, against which one of the properties is
  tested.
* **Fairness.** The handlers retry, poll and schedule nothing: their `Spec`s state no
  fairness. The page modules do: `WF(Serve)`, `WF(Answer)` and, in `BoardPage`, weak
  fairness of the statements of the other handlers. A handler that has begun ends
  because its awaits do, a call is answered because its handler ends (an action of
  `Break` or `Fail*` answers it as well), and the browser sends the next call when the
  one before is answered. Users and failures are under no fairness at all: nobody has to
  drag a task, and nothing has to go wrong.
* **History.** `missed`, `grants`, `stray`, `clashed`, `crossed` and the fields `from`, `sees`, `fresh` and
  `counted` of a call are history: no action reads them to decide what happens next. They tell the states a
  property does not speak of, such as a task that came to its sprint past every check.

## 3. The modules

### TaskBoard: the tasks of the lists

`back-end/src/task/task.service.ts` with the log row each handler writes
(`task-log.service.ts:9-26`).

| State | Code |
|---|---|
| `row` | table `Task` (`schema.prisma:116-141`): `state` is absent, live or deleted (`deletedAt`), `completed` is `completedAt # null`; title, priority, due date and the rest are left out |
| `audit` | for each task its newest row of `TaskLog`, with `to` for a status change |
| `req` | the handlers in flight |
| `failures` | how many of them ended half way (bound `MaxFailures`) |

| Actions | Handler |
|---|---|
| `BeginCreate`, `CreateInsert`, `WriteLog` | `create` (89-162): the position is the count of live tasks, taken before the checks |
| `BeginUpdate`, `UpdateWrite`, `WriteLog` | `update` (185-269): status to column automation, `completedAt` |
| `BeginUpdatePosition`, `ShiftOthers`, `SetPosition` | `updatePosition` (274-315): two statements, no transaction, no log |
| `BeginMove`, `MoveCommit`, `WriteLog` | `moveTaskToList` (406-489): one transaction, column to status automation |
| `BeginRemove`, `RemoveCommit`, `WriteLog` | `remove` (320-354): one transaction, soft delete |

Lists and their mapped status are constants: no DTO of the repository sets
`List.status` or `List.isArchived` after creation. A PATCH of a list with a `boardId` is
in `BoardContents` and `SprintLifecycle`. The refusals about assignee and sprint are
`Fail`.

The body of a move has `@IsNumber() newPosition` and the service checks no range: any
number is stored, a negative one too. `PositionsFor` is therefore `LowestPosition ..
PositionBound` (two bounds of the instance, the lower one may be negative), or the
indices of the list where an instance says `ClientsInRange`, which is what the board page
sends.

### TaskOrder, TaskBoardOrder: what the order promises

`TaskOrder` is the abstract specification: each list is a sequence; a task is
appended, put somewhere else, or taken out for good. `TaskBoardOrder` maps the
positions of `TaskBoard` to sequences: the entry at `i` is the live task at position
`i - 1`, or `None` where there is a gap, so that a gap or a double shows in the abstract
state. `ShiftOthers` is the step that reorders; `SetPosition` makes it visible and is a
stutter of the abstract state, which is why the mapping lets the task being placed count
as standing at its new place.

### SprintLifecycle: sprints and the sprint of a task

`back-end/src/sprint/sprint.service.ts`, with the writes to `Task.sprintId` of
`TaskService.create`/`update`/`remove` and the deletion of sprints in
`BoardService.remove`.

| State | Code |
|---|---|
| `sprint` | table `Sprint`: status, owner, board of origin, start and end date. The owner of a deleted row is kept in the model, so that requests still about it have an owner |
| `task` | of table `Task`: live / deleted (soft) / gone (with its board), the board of its list, `sprintId`, and whether the status is DONE |
| `stray` | history: the tasks a PATCH with a `sprintId` put into a sprint, or that were taken to another board |
| `removed` | the boards that were deleted |
| `req` | the handlers in flight |

| Actions | Handler |
|---|---|
| `CreateSprint` | `create` (152-172); owners and admins do not change here, so check and insert are one action |
| `BeginUpdate`, `UpdateSprint` | `update` (174-214): any status may follow any other; the rule of one ACTIVE sprint per owner is a search, then a write |
| `RemoveSprint` | `remove` (216-221), `onDelete: SetNull` on its tasks |
| `BeginClose`, `CheckTarget`, `ReadIncomplete`, `CloseCommit` | `closeSprint` (230-331): three reads, one transaction |
| `BeginAddTask`, `AddTask` | `addTask` (333-353) |
| `BeginRemoveTask`, `RemoveTask` | `removeTask` (355-366) |
| `BeginCreateTask`, `InsertTask` | `TaskService.create` with a `sprintId`: open to every member of the board |
| `CreateTask`, `PatchTask`, `DeleteTask` | `TaskService.create` without, `update` (with any `sprintId`), `remove` |
| `MoveTasks` | `moveTaskToList` and `update` with a list of another board; `ListService.update` with a `boardId`, which takes all tasks of the list |
| `RemoveBoard` | `BoardService.remove` (142-195) |

`Isolation = "owner"` says that the owner of a sprint has one request about sprints in flight at a time. The
requests of the members, who create, edit, move and delete tasks, are never held back.

Left out here: boards that change hands and admins that come and go (constants
`BoardOwner`, `AdminsOf`), the `goal` and `name` of a sprint, and the read-only listings.

### BoardMembership: members, owner, invites and assignees of a board

`back-end/src/board/board.service.ts`, `BoardMemberService.add`, and the
assignment of tasks in `TaskService`. The members of one board; the others come in
where `responseInvite` reaches across: it takes the board from its path and does not
compare it with that of the invite (567-601), so that an invite to one board lets its
recipient into another.

| State | Code |
|---|---|
| `board` | the row of `Board`: its owner, and whether it is there |
| `role`, `older` | table `BoardMember`: the role, and the order by `joinedAt` (a relation, since only the order is used) |
| `invite` | table `Invite`: recipient and role of the pending ones to this board |
| `task` | of table `Task`: live, soft-deleted or gone, and `assigneeId` |
| `req` | the handlers in flight |

| Actions | Handler |
|---|---|
| `BeginCreate`, `JoinOwner` | `create` (29-46): the board, then the membership of its owner, without a transaction |
| `BeginRemoveMember`, `CheckRemover`, `DeleteMember` | `removeMember` (227-241, 393-434) of somebody who is not the owner |
| `FindNextAdmin`, `FindNextMember`, `TransferOwnership`, `PromoteMember`, `Dissolve` | `removeMember` (243-390) of the owner: one or two reads, then one of three transactions |
| `BeginChangeRole`, `ReadRole`, `CountAdmins`, `WriteRole` | `changeMemberRole` (443-496) |
| `BeginInvite`, `InsertInvite` | `invite` (501-562): find, then insert |
| `BeginResponse`, `Accepted`, `Declined` | `responseInvite` (567-604), to an invite of the board |
| `BeginCrossResponse` | `responseInvite` (567-585) over the path of this board, to an invite of another one, which has no row here: the handler compares the two nowhere. `Declined` stands as well for the opposite, an invite of this board accepted over the path of another |
| `BeginAdd`, `AddMember` | `BoardMemberService.add` (81-114) |
| `RemoveBoard` | `remove` (142-195) |
| `BeginCreateTask`, `InsertTask`; `CreateTask` | `TaskService.create` with an assignee (`assertAssigneeIsMember`, 64-84), then the insert; without |
| `BeginAssign`, `Assign`, `BeginUnassign`, `Unassign` | `update` with an assignee or with null; an assignee equal to the one that was read is written without a check (189-196) |
| `DeleteTask` | `TaskService.remove`: the row keeps its assignee |

`Isolation = "apart"` says that requests in flight are about different users and tasks and
that an owner who leaves does so while nothing else is in flight. `HalfCreated`
says whether `create` may end between its statements; then a board has an owner
who is not a member, and everything about its owner is void.

Two things in the code shape this module. `DELETE boards/:boardId/members/:userId`
is declared by both `BoardController` and `BoardMemberController`; `app.module.ts`
imports `BoardModule` (line 30) before `BoardMemberModule` (line 34), so requests
end in `BoardService.removeMember`, and `BoardMemberService.remove` is left out.
And `Dissolve` happens only on a board without tasks: it deletes tasks before their
logs, which the foreign key of `TaskLog.taskId` refuses.

### BoardContents: columns, logs, labels and comments

`back-end/src/list/list.service.ts`, `back-end/src/label/label.service.ts`,
`back-end/src/task-comment/task-comment.service.ts`, `BoardService.remove`, and of
`TaskService` what creates, moves, deletes and logs. What ties them together are the
foreign keys of `schema.prisma`: tasks refer to their list, log rows and uses of labels
to their task, uses to their label, all without `onDelete`, so that PostgreSQL refuses to
delete what is referred to; comments go with their task.

| State | Code |
|---|---|
| `board`, `list`, `label` | tables `Board`, `List` (position, `boardId`), `Label` |
| `task` | of table `Task`: live, soft-deleted or gone, `listId` |
| `log` | table `TaskLog`: which tasks have rows, and which boards those name |
| `comment` | the tasks with a row in `TaskComment` |
| `labelled` | table `TaskLabel` |
| `clashed`, `crossed` | history: boards where a client has sent a position that was taken, tasks that came from one board to another |
| `req` | the handlers in flight |

| Actions | Handler |
|---|---|
| `CreateList` | `ListService.create` (24-41): the position is the one the client sent (the page sends a number of columns it has cached, `page.tsx:608`) |
| `PatchList` | `update` (73-93): whatever position and `boardId` the body has |
| `BeginReorder`, `ShiftColumns`, `SetColumn` | `updatePosition` (95-135), for any integer: `{newPosition: number}` of the controller is not validated |
| `BeginRemoveList`, `ReadTasks`, `Unlabel`, `Unlog`, `DeleteTasks`, `DeleteList` | `remove` (140-172): five statements, no transaction |
| `BeginCreateTask` .. `WriteLog` | `TaskService`: which column a task is in, also of another board, and its log, which names the board that was read first |
| `CreateLabel`, `BeginRemoveLabel`, `UnlabelAll`, `DeleteLabel`, `BeginAttach`, `Attach`, `BeginDetach`, `Detach` | `LabelService` |
| `BeginComment`, `InsertComment`, `RemoveComment` | `TaskCommentService` |
| `RemoveBoard` | `BoardService.remove` (142-195): one transaction |
| `Refuse` | a statement finds its row gone or a foreign key refuses it |

### PasswordReset, Recovery: forgotten and changed passwords

`AuthService.forgotPassword`, `verifyResetCode`, `resetPassword`, `changePassword` and
`signIn` (`back-end/src/auth/auth.service.ts:167-332`), `ResetPasswordGuard`, and the
cookie `reset-token` on its way from `AuthController.verifyResetCode` over the server
action (`front-end/lib/actions/auth.ts:47-59`, `lib/utils/session-cookie.ts`) into the
browser and back.

| State | Code |
|---|---|
| `code`, `password` | `User.resetToken`, `User.passwordHash` |
| `owner`, `old`, `mailed` | for whom a code was made, whether `resetTokenExpiresAt` has passed, whether its mail was sent |
| `lapsed` | the tokens (named after their code) that have expired |
| `jar` | for each client the cookie `reset-token` |
| `signedIn`, `req` | sessions, handlers in flight |

| Actions | Code |
|---|---|
| `AskForCode`, `StoreCode`, `SendMail` | `forgotPassword` (200-224) |
| `EnterCode`, `Expired`, `FindCode`, `ForgetCode`, `GrantToken`, `StoreCookie` | `verifyResetCode` (227-273), then the cookie |
| `SubmitPassword`, `PassGuard`, `RefuseToken`, `SetPassword` | the page or the API client, the guard, `resetPassword` (293-306) |
| `SignIn`, `SignOut`, `BeginChange`, `ComparePassword`, `PutPassword` | `signIn`, `removeCookie`, `changePassword` (309-332) |
| `ExpireCode`, `LapseToken` | 15 minutes pass |

`PageClients` are the clients that use the pages; the others call the API directly.
`SentCookie` says which of them the browser sends the cookie for: it compares the path of the cookie
with where the password is sent.

A client may ask for the code of any user and enter any code: `verifyResetCode` finds the row by the
code alone (230). `UserOf` says only whose session a client has.

`Recovery` is what this promises, without handlers: the newest code of a user is accepted
if it is presented before it expires (`Present`), an accepted code grants one token
(`Grant`) or, if what accepted it breaks down, may be presented again (`Abandon`); a code
that has expired or has been replaced grants none. Its `accepted` are the codes that a handler of
`PasswordReset` has found in time and is about to clear (`Accepted`).

### BoardPage: the board page on top of TaskBoard

`front-end/app/dashboard/board/[id]/page.tsx` with the dialogs that create and delete
tasks. It EXTENDS `TaskBoard`: one handler (`Page`) serves the calls of the page, the
others belong to other users.

| State | Code |
|---|---|
| `data` | `listsData`, the cached answer of `getAllList`; a drop assigns positions to its task objects (230-238) |
| `view` | `optimisticLists`, `None` for null |
| `drag` | what the drag library remembers between lift and drop |
| `calls` | the server actions under way, oldest first |

| Actions | Code |
|---|---|
| `Lift`, `PutBack`, `Drop` | `handleDragEnd` (194-246) |
| `SubmitCreate`, `SubmitDelete` | `CreateTaskDialog.handleSubmit`, `EditTaskDialog.handleDelete` |
| `SendWrite`, `SendInVain`, `ServeWrite`, `FailWrite` | the handler of `TaskBoard` for it |
| `ServeFetch`, `FailFetch` | `ListService.findAll`, and the refusal `getAllList` returns as a value |
| `AnswerMove`, `AnswerDialog` | the code after the await: `setOptimisticLists(null)`, `invalidateQueries` |
| `AnswerFetch` | the new answer and the effect that gives up the order of the page (129-139) |
| `Break` | the call itself is lost, before or after the server handled it; React Query retries a fetch once (`providers.tsx:18`), nobody anything else |
| `Others` | other users |

A drop takes the task out of one list by its index and puts it into another
(`Rearranged`, the two `splice`s of lines 219-228; the second clips its index). The
index it takes out is looked up in the lists as they are when the drop ends, whatever has
arrived since the task was lifted, while the call names the task that was lifted.
`StartAssumption` says that the page is opened on a table as `TaskBoard` may leave it.

### SprintPage: the sprints page on top of SprintLifecycle

`front-end/app/dashboard/sprints/page.tsx`, `CreateSprintDialog`, `AddTaskDialog` and
`CloseSprintDialog`. It EXTENDS `SprintLifecycle` in the same way.

| State | Code |
|---|---|
| `shown` | the cached answers of "sprint-active" and "sprints" |
| `dialog` | `action`, `targetSprintId` and `loading` of `CloseSprintDialog` (46-48), which it loses when it is unmounted with the sprint; and `closeDialogOpen`, which is state of the page (`page.tsx:79`) and survives: the dialog comes back open with the next active sprint |
| `calls` | the server actions under way |

| Actions | Code |
|---|---|
| `SubmitActivate`, `SubmitAdd`, `SubmitRemove` | `handleActivate`, `AddTaskDialog.handleAdd`, `handleRemoveTask` |
| `SubmitCreate` | `CreateSprintDialog.handleSubmit`, whose second call (`start`) is made by `AnswerCall` |
| `OpenDialog`, `ChooseDecision`, `ChooseTarget`, `SubmitClose`, `Cancel`; `Effects` | `CloseSprintDialog` and its two effects (64-81). Choosing another decision leaves the chosen sprint as it is; a call that breaks leaves `loading` set, and the buttons disabled, until the dialog is unmounted |
| `SendCall`, `Refuse`, `ServeCreate`, `ServeCall`, `ServeFetch`, `FailCall` | the handlers of `SprintLifecycle` |
| `AnswerCall`, `AnswerFetch`, `Break` | the code after the await, a new answer, a lost call |
| `Others` | other users work on tasks |

`AddTaskDialog` chooses from a list of tasks cached apart; here it may send any task there
is. Left out by assumption: a second page of the same user and boards that are deleted.
Either can take away the sprint the dialog has preselected, and nothing un-selects it
(`close-sprint-dialog.tsx:73`): with no task left over the dialog shows no choice then, and goes
on sending a target the server refuses.

One page alone can do the same: when it comes to show the next active sprint without having
shown none in between, the dialog stays mounted and with it `targetSprintId`, also if that
names the sprint that has become active. `OffersWhatIsAccepted` is therefore
about the targets the dialog lists. The proof of `OffersAccepted` found this: the property without that
clause is not inductive, and TLC violates it with `MaxActs = 5`, `MaxFailures = 0`, no sprint active at the
start, two planned and an unfinished task in one of them.

## 4. The runs

Every cfg disables the deadlock check: task, sprint and invite ids are uuids, a finite
instance runs out of them, and then the system may stop.

| Run | Instance | Shows |
|---|---|---|
| `task_lists` | one board, two free columns, 3 tasks, 2 handlers on different lists | positions stay 0..n-1 (`PositionsDense`) and every handler is an operation of an ordered list (`ImplementsTaskOrder`), for every index a client may drop at |
| `task_status` | two boards with mapped columns (TODO and DONE on one, DONE on the other), 2 tasks, 2 handlers on different tasks, one may end half way | completion date iff DONE, the column follows a status and stays on the board, the log agrees with the table |
| `task_concurrent` | a TODO and a DONE column, 2 tasks, 2 handlers on the same tasks, clients send any position from -1 to 1, one handler may end half way; states that differ in the log alone count as one (`VIEW`) | no shift takes a position below the lowest one that was sent (`ShiftsKeepFloor`); deleted tasks stay deleted and no shift touches them (`DeletedTasksFrozen`); a move adopts the status of the column, unless the status was changed after the move had read it (`MoveAdoptsColumnStatus`); rows and handlers stay well formed |
| `sprint_owners` | two owners, two boards of which one has both as admins, 2 sprints, a task, one request about sprints of each owner at a time; others create, edit and move tasks at any time, with any `sprintId` | one ACTIVE sprint per owner; `addTask` adds to no completed sprint; leftovers go to a PLANNED sprint of the same owner; a sprint holds tasks of its owner's boards, but for `stray` ones |
| `sprint_serial` | the same boards, two tasks, one request at a time | closing a sprint leaves no unfinished task in it, and sprints end after they start as long as a PATCH gives both dates or none |
| `members_apart` | three users, two invites for the role MEMBER (other roles come in by `add`), a task, two requests in flight that are about different users and tasks | the owner is an ADMIN member, one pending invite per user, succession by rank, tasks are given to members only, by create and by update (`AssignedToMember`) |
| `contents_apart` | two boards, two columns and a task that change from one to the other, a label, clients that create, patch and reorder columns with position 0 or 1, two handlers about different columns, tasks and labels, one may be cut off | a removal meets no foreign key, also when it repeats one that was cut off (`RemovalNeverBlocked`); a task that is shown has its log (`HistoryKept`); reordering and removing bring no two columns to the same position, also when a position that is sent is taken (`ColumnsApart`); no row refers to one that is gone |
| `reset_apart` | two users with a client each, which call the API and use the codes of either, two codes, two passwords, two handlers or answers lost | `PasswordReset` implements `Recovery`; a change of password replaces the one it compared |
| `page_settles` | the page of one user with two columns and up to three tasks, another user, one refused or broken call, three things the users do | the page catches up (`Settles`, under fairness); a drop puts the lists on the server into the order it showed (`DropsLand`), also with several drops under way |
| `sprint_page` | one user with an active and two planned sprints, two tasks, other users, one refused or broken call | the page catches up (`Settles`, under fairness); what it offers is accepted (`OffersWhatIsAccepted`) |
| `sprint_origin`, `reset_page` | small instances | **violations**: findings 1 and 2 |

Why the bounds are enough to be interesting: an order bug needs a moved task and
a neighbour on each side of it, hence three tasks in a list; a cross-list bug
needs two lists; an interference needs two handlers. `PositionBound` ends the
growth of positions that `create` and out-of-range drops cause: a request begins
only while every position is below it. `MaxFailures` is 1 in `task_status`,
so each state in which some handler was cut off is reached. `LowestPosition` is -1 in `task_concurrent`: one negative position is enough to tell a comparison with
what was read from one with 0. Two sprints of one owner on two boards tell a rule per owner from a rule per
board. Symmetry is used for ids that no constant tells apart; where columns or
boards are mapped to different things they are not permuted.

In the page modules `MaxActs = 3` is enough for two drops and somebody else's change, or for a
creation, a closing and another user's edit, with all of their calls and answers interleaved; each act
brings a call and a refetch, which is where the length of the queue comes from. One failure
at every possible place tells the paths with `invalidateQueries` from those without.

`DropsLand` speaks of a drop that finds on the server what the user saw. It cannot be claimed of
others: the index of a drop counts in the lists of the page, and after a refused or
a foreign change it names another place. `Settles` does not say that the page is right
after a call that broke: `handleDragEnd` then neither gives up its order nor asks again, and
the page stays as it is until the next call.

### Findings (violation runs)

1. `sprint_origin`: `closeSprint` reads the unfinished tasks before its transaction (`sprint.service.ts:275`). A task
   that a member takes to another sprint in between is taken out of that one, and the log names the wrong origin; the
   comment in lines 226-228 promises a log that answers where a task came from.
2. `reset_page`: the page never gets a password reset. `verifyResetCode` sets the
   cookie with path `/v1/auth/reset-password` (`auth.controller.ts:452`),
   `setSessioCookie` copies the path into the browser, and the new password is sent to a
   server action of `/auth/forgot-password/verify`, which that path does not cover:
   `getCookie` throws. (For a browser that is signed in, the interceptor of
   `lib/api/axios.ts:26-35` would overwrite the header besides.)

### Known disagreements without a run

Each can be reproduced by the change of a cfg named with it. Where it is the name of a property alone, that is
a statement of the docs, defined in the module, that replaces the properties of the cfg.

* `moveTaskToList` compares the status of the target column with the row it read before its
  transaction (`task.service.ts:432`): a status change in between leaves the task in a column
  whose status it does not have, against the comment in line 430
  (`MoveAdoptsColumnStatus` without its third premise, which grants exactly this, in `TaskConcurrent.cfg`).
* Two updates of one owner both find no other ACTIVE sprint and both activate
  (`sprint.service.ts:186`, rule in line 184; `SprintOwners.cfg` with `Isolation = "none"`,
  `OneActivePerOwner`).
* `PATCH /tasks/:id` with a `sprintId` puts a task into a completed sprint
  (`task.service.ts:230`), which the DTO says must not be (`create-task.dto.ts:60`; `SprintSerial.cfg`,
  `ClosedSprintTakesNoTask`).
* Deleting a board deletes the sprints created there (`board.service.ts:175`), which the migration of
  `Sprint.boardId` says it no longer does (`SprintSerial.cfg`, `SprintSurvivesBoard`).
* A removed member keeps the tasks of the board. Only `BoardMemberService.remove`, which no request
  reaches, clears them (`board-member.service.ts:133`; `MembersApart.cfg`, `RemovedKeepNoTask`).
* Removing a board deletes all log rows that name it (`board.service.ts:170`), also those of a task
  that has moved on to another board; the comment above calls them rows without a task
  (`ContentsApart.cfg`, `OnlyOrphanLogs`).
* `CloseSprintDialog` counts in the cached answer (`close-sprint-dialog.tsx:125`). A task the page is just adding is not
  in it; the dialog says that everything was finished, asks nothing, and `closeSprint` sends the task to the backlog
  (`SprintPageSettles.cfg` with `StartTask <- FinishedTask`, `ClosesWhatItCounted`).
* `create` with a `sprintId` is open to every member, and checks the sprint some awaits before it inserts: a task created
  while the owner closes the sprint ends up in a completed one (`SprintOwners.cfg` with
  `PatchedSprints = {}`, `ClosedSprintTakesNoTask`).
* `removeTask` checks in which sprint the task is and unlinks it later by id: put into another sprint in between, it is
  taken out of that one (`sprint.service.ts:357`). `SprintLifecycle` has the behaviour; nothing in the repository
  promises otherwise.
* A handler that found a task alive writes it by its id after another one has deleted it (`task.service.ts:304` and the
  other updates by id): it comes not back, but its row changes (`WritesById` in `DeletedTasksFrozen`).
* An invite to one board, answered over the path of another, lets its recipient into that one
  (`board.service.ts:567`). `BoardMembership` has it; no doc speaks of it.
* An owner leaves while roles change: the successor is found at one or two awaits
  (`board.service.ts:244-262`) and gets the board in a later transaction that does not look again
  (rule in line 224; `MembersApart.cfg` with `Isolation = "none"`, `SuccessionFollowsRank`).
* A PATCH of a sprint with one date is compared with nothing and may leave it ending before it starts
  (`sprint.service.ts:202`); leftovers may go to a sprint of another board of the same owner,
  although the comment in line 246 and `close-sprint.dto.ts:27` ask for the same board; a task
  reopened or added between the read in line 275 and the transaction of `closeSprint` stays
  unfinished in the closed sprint. `SprintLifecycle` has all three behaviours.
* Positions of columns are what clients send. A column that is removed leaves a gap, and the position the page sends
  with the next new one (`page.tsx:608`) may be taken already: two columns with one position (`ContentsApart.cfg`,
  `ColumnsApart` without `clashed`).
* When the last eligible member leaves, and in `deleteAccount`, tasks are deleted before their
  log rows, which the foreign key refuses (`board.service.ts:285`, `me.service.ts:73`).
* Two requests about one user at once: a code entered twice at the same time grants two tokens, and
  the one that redeems a code clears a newer one stored meanwhile (`ResetApart.cfg` with
  `Isolation = "none"`, `ImplementsRecovery`).

## 5. What is proved

All theorems hold for every value of the constants that satisfies the named
assumptions of the modules (finite sets of lists and tasks where positions are
counted, `None` outside of the sets it is compared with, and so on). Each rests on
`Init => Inv`, `Inv /\ [Next]_vars => Inv'` and `Inv => Property`; only the last step of each
theorem is temporal.

| Theorem | States | Assumes | Inductive invariant |
|---|---|---|---|
| `TaskBoardProofs!TypeCorrect` | `[]TypeOK` | | `TypeOK` |
| `TaskBoardProofs!NeverBelowLowest` | `[]ShiftsKeepFloor` | nothing about isolation or the positions sent: any interleaving, any cut | `PositionInv`: `TypeOK`, the property, and that the position a handler has read is no lower either |
| `TaskOrderProofs!PositionsStayDense` | `[]PositionsDense` | `Orderly` | `OrderInv` |
| `TaskOrderProofs!OrderImplemented` | `ImplementsTaskOrder` | `Orderly` | `OrderInv` |
| `SprintProofs!TypeCorrect` | `[]TypeOK` | | `TypeOK` |
| `SprintProofs!OneActive` | `[]OneActivePerOwner` | one request per owner in flight | `ActiveInv` |
| `SprintProofs!AddsToOpen` | `AddsToOpenSprint` | the same | `LinkInv` |
| `SprintProofs!LeftoversPlanned` | `LeftoversGoToPlanned` | one request per owner in flight | `LinkInv` |
| `MembershipProofs!TypeCorrect` | `[]TypeOK` | | `TypeOK` |
| `MembershipProofs!OwnerAdmin` | `[]OwnerIsAdmin` | requests apart, `create` not cut off | `OwnerInv` |
| `MembershipProofs!OneInvite` | `[]OneInvitePerUser` | requests apart | `CheckInv` and the property |
| `MembershipProofs!Succession` | `SuccessionFollowsRank` | requests apart | `CheckInv` |
| `MembershipProofs!AssignedMember` | `AssignedToMember` | requests apart (users and tasks) | `CheckInv` |
| `PasswordResetProofs!TypeCorrect` | `[]TypeOK` | | `TypeOK` |
| `PasswordResetProofs!RecoveryImplemented` | `ImplementsRecovery` | requests about one user apart, by whichever clients | `Exclusive`, `Ungranted`, `Found` |
| `PasswordResetProofs!ChangeIsFromOld` | `ChangeReplacesOld` | requests about one user apart | `Exclusive`, `Compared` |
| `ContentsProofs!TypeCorrect` | `[]TypeOK` | nothing about isolation | `TypeOK` and `RequestsOK` |
| `ContentsProofs!RemovalSucceeds` | `[]RemovalNeverBlocked` | requests about different columns, tasks and labels | `Exclusive`, `Known`, `Cleared` |
| `ContentsProofs!HistoriesKept` | `[]HistoryKept` | the same | the same, `LogBoards` and the property |
| `ContentsProofs!ColumnsStayApart` | `[]ColumnsApart` | the same; any integers sent | `OneReorder`, `BoardsTidy` |
| `TaskBoardProofs!DateFollowsStatus` | `[]CompletedIffDone` | requests on different tasks | `ReadInv` and the property |
| `TaskBoardProofs!DeletedStayFrozen` | `DeletedTasksFrozen` | nothing about isolation | `TypeOK` |
| `TaskBoardProofs!MoveAdoptsStatus` | `MoveAdoptsColumnStatus` | nothing about isolation | `TypeOK` |
| `TaskBoardProofs!StatusMovesTask` | `StatusMovesToColumn` | requests on different tasks | `ReadInv` |
| `TaskBoardProofs!UpdatesKeepBoard` | `AutomationKeepsBoard` | requests on different tasks | `ReadInv` |
| `TaskBoardProofs!AuditAgrees` | `[]AuditTrailAgrees` | requests on different tasks | `ReadInv`, `AuditInv` |
| `SprintProofs!DatesStayInOrder` | `[]EndsAfterStart` | a PATCH has both dates or none | `DatesInOrder` and the property |
| `SprintProofs!SprintsOfOwnTasks` | `[]TasksOfOwnBoards` | nothing about isolation or PATCHes | `OwnInv` |
| `SprintProofs!NoLeftovers` | `CloseLeavesNoLeftovers` | one request at a time | `SerialInv` |
| `BoardPageProofs!PageTypeCorrect` | `[]PageTypeOK` | nothing about isolation: any calls, answers and failures | `PageInv` |
| `SprintPageProofs!PageTypeCorrect` | `[]PageTypeOK` | the same | `PageInv` |
| `SprintPageProofs!OffersAccepted` | `OffersWhatIsAccepted` | the same | `PageInv` |

**Why shifts keep above the lowest position sent.** `updateMany` lowers only rows whose
position is above one that some handler has read. The latter is at least `LowestPosition`,
however stale it is; a row above it is at least one more. That is why the invariant has to
speak of what handlers remember (`HeldAboveFloor`) and not only of the rows.

**Check, then write.** The other properties fail without isolation (the known
disagreements of section 4), so their proofs are about what isolation buys. None of them is inductive:
a handler between its check and its write is a promise that the write
will do no harm, and the invariant must say that every such promise is still
good. `OwnersApart` and `RequestsApart` say whose requests are in flight;
`ActivationsSafe`, `FillsOpen`, `TargetsPlanned` and `ChecksHold` say that what each handler
has checked still holds. One lemma says what a step does to a handler
(`RequestStep`), one what the steps of others do to the rows it has looked at
(`SprintStep`, `OthersStep`); the invariant follows from the two without going through
the actions again.

`OwnerAdmin` needs one thing more: until `JoinOwner` the owner is no member, so
the invariant (`OwnerJoins`) says that `create` is then still running, and nobody else's
request can be about the owner.

**A code grants one token.** `Recovery` accepts a code while it is current and not expired, and grants a token for what it has
accepted; `verifyResetCode` finds the code at one await and clears it at a later one. The refinement maps
`FindCode` to `Present`, `GrantToken` to `Grant`, `ForgetCode` to `Forget`, and a handler that ends between finding
and clearing to `Abandon`. That the grant is due then is what the invariant keeps: no other request about
the user is at codes (`Exclusive`), a code that is about to be stored has granted nothing (`Ungranted`), and between
`FindCode` and the write the row still holds the code that was found (`Found`). Expiring in that interval does no harm:
what counts is that the code was presented in time. `Compared` says the same of the old password of `changePassword`.

**What has been cleared is all there is.** Removing a column clears the labels and the log of the tasks it
has found, then deletes whatever tasks are in it, then the column. The foreign keys accept this if between those
statements nothing is added to what was cleared, and that is the invariant (`Cleared`). It survives the steps of
others because no two requests in flight share a column or a label (`Exclusive`), and no
request ever comes to be about more than when it began (`Narrows`). Of the step of another handler the proof
uses one fact, `Outside`: it brings no task into a column its request is not about, and gives no log and no label
to a task there. Nothing is assumed about handlers that are cut off: what they leave behind is cleared again by
the next removal.

**What a handler has read is still so, except the position.** The handlers of `TaskService` read their
task, await, and decide from what they read. With different tasks in flight, others can still shift the
task, and that is all they can do to it (`StillSo`, with `Agree` for all fields but the position); the rules of status,
completion date, column and board follow step by step from what the handler has read. For the log
the invariant has two halves (`AuditInv`): of a task that waits for its log row, the row about to be
written tells the truth; of every other task, the newest one does. It needs `LogAssumption`, that an action of the
log is not `None`.

**What never changes needs no isolation.** The owner and the board of a sprint are fixed when it is created
(`SprintKept`): so a check that compares owners stays good across any await. The board of a task does change, and
so does its sprint under a PATCH that nobody checks; both make the task `stray`, which is for good. Of all other tasks
`TasksOfOwnBoards` needs no isolation, only that every way into a sprint has a check (`OwnInv`): `addTask` has its own
(`OnBoardOf` says that what it saw is so still, or the task is stray), `create` is about a sprint on a board of its
owner (`OriginOwned`), and a closing moves tasks between sprints of one owner (`HoldsOwn`). The same goes for the dates,
which only a body that is in order replaces. `CloseLeavesNoLeftovers` needs more, since a PATCH of anyone may reopen
a task of the sprint.

**The order of a list.** `Orderly` names what `task_lists` assumes, for any number of tasks, lists, boards and
handlers: free columns, no list in an update, requests in flight on different lists, clients that drop inside
the lists they see, no handler between whose writes anything fails. That no two handlers share a list
(`ListsApart`) makes what a handler has read true until it writes, position included (`PlaceRead`), and the
index it was sent one of the list (`PlaceInRange`). `Numbered` says that the effective positions of the
live tasks of each list are 0..n-1, in the form `Listed(s, S, f)`: the sequence `s` has as many entries as `S`
has members, and the member at each place has that number. In that form the shifts of the code and the splices of the
abstract specification are compared place by place (`RemoveAtPlaces`, `InsertAtPlaces`, `ShiftOrder`,
`MoveOrder`), with no induction over sequences. The one argument about cardinality is that
n places below n without a double leave no gap. `OrderInv` is all five conjuncts: without `PlaceRead` a shift may
count from a position that has changed, without `PlaceInRange` a drop leaves a gap.

**The columns of a board.** Positions are whatever clients send, so nothing is numbered; what can be kept is that
they differ. `Tidy` says this of the positions a board has (`PositionsWith`), and, between the two statements of
`updatePosition`, of those it would have if the column that is on its way stood at its new position. `StepAside` is
injective away from the column that moves, which is all the argument needs: there is no counting in it. A board is
reordered by one handler at a time (`OneReorder`), and who creates or patches a column at a taken position takes the
board out of the claim (`clashed`).

**Pages.** The invariants of the two pages say what a queue of calls is: only the oldest was sent,
the handler of the page works for it and for nothing else (`Busy`), and of the fetches of one query that are due
one is wanted (`OneKept`). `BoardPageProofs` needs no more than that and `PositionInv` of `TaskBoardProofs`:
`SendWrite` is no step of `TaskBoard` (a page may send an index that is none of the list, where `ClientsInRange` rules
that out), so `DropBegins` shows that it keeps the invariant all the same. For the sprints page the
invariant follows what is on the screen to the server: `Faithful`, that the newest answer to a query, shown or on its way,
is what the server has unless the history says that somebody or something came between; `Fresh`, that what was offered
when the oldest call was made is still shown. `OffersAccepted` then compares each refusal of the handlers with what the
page showed. The tables the page is opened
on are any that `SprintLifecycle` can leave (`StartAssumption`).

**Only model-checked.** `Settles` of both pages is liveness under fairness and out of the prover's reach. `DropsLand` of
`BoardPage` is not proved yet: it relates the order a drop showed to the positions the handler writes, which needs that
the sorted rendering of a list is the sequence `Numbered` speaks of.

## 6. What is not modelled

* **Sign up, OAuth, LDAP**: each is one upsert after an exchange with a server that is not in the
  repository; unique indexes decide races. Hashing and the contents of tokens are external.
* **`MeService`**: the profile is one write; `deleteAccount` is one transaction that the first foreign key
  refuses (see above).
* **Guards** other than `ResetPasswordGuard`: `BoardRoleGuard` reads a role before the handler runs; the
  actions of `BoardMembership` begin with what it has read. That a role changes between guard and handler adds
  no state to what the handlers' own checks read later.
* **Gateways**: rooms and events have no second party in the repository, since no page opens a socket.
* **Notifications** of invites: a list of a user's invites that is only read, and an event over a gateway.
* **Other pages, the widgets of `components/ui`, tables, charts, forms and mocks**: rendering and local state, or
  data that no server knows (the pages of planning poker and `lib/mocks`). They are a large share of the lines of
  the repository and carry no protocol; that is why the models map a small share of the lines but most of the
  services.
* **DTOs, Swagger annotations, module wiring, configuration, deployment**: what a DTO lets through is the set of
  inputs of an action.

What could be added next: `DropsLand` as a theorem, from the lemmas of `TaskOrderProofs`; the dialogs of columns,
labels and comments over `BoardContents`, as `BoardPage` does over `TaskBoard`; `deleteAccount` together with the
registration of users.
