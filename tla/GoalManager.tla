---------------------------- MODULE GoalManager ----------------------------
(***************************************************************************)
(* GoalManager (bonbon_navigation, core/goal_manager.py): the priority      *)
(* queue of navigation goals and the one active goal.  A manager is a       *)
(* record and each method, atomic under the manager's lock, maps a manager  *)
(* to a manager.  Poses, names and times are left out; ids are the order of *)
(* the requests.                                                            *)
(***************************************************************************)
EXTENDS Naturals, Sequences, SequencesExt

CONSTANTS
  MaxQueue,      \* max_queue_size
  MaxPlanFail    \* max_plan_failures

ASSUME ManagerAssumption == MaxQueue \in Nat \ {0} /\ MaxPlanFail \in Nat \ {0}

\* priority: 0 low to 3 urgent; charger: goal_type is TYPE_CHARGER
Goal == [id : Nat \ {0}, priority : 0..3, charger : BOOLEAN]
NoGoal == [id |-> 0, priority |-> 0, charger |-> FALSE]

Outcome == {"SUCCEEDED", "FAILED", "CANCELLED"}

\* plan_fail_count and late (its time limit has passed) belong to the active goal;
\* history: the goals that ended, each with its final state (the code keeps the last 50).
Manager ==
  [queue : Seq(Goal), active : Goal \cup {NoGoal}, plan_fail_count : 0..MaxPlanFail - 1,
   late : BOOLEAN, history : SUBSET [id : Nat \ {0}, outcome : Outcome]]

EmptyManager ==
  [queue |-> <<>>, active |-> NoGoal, plan_fail_count |-> 0, late |-> FALSE, history |-> {}]

Ended(goal, outcome) == [id |-> goal.id, outcome |-> outcome]

-----------------------------------------------------------------------------
\* Fault injection: a goal passes those of its own priority.
InsertByPriorityLifo(queue, goal) ==
  LET behind == {i \in 1..Len(queue) : goal.priority >= queue[i].priority}
  IN  IF behind = {} THEN Append(queue, goal)
      ELSE InsertAt(queue, CHOOSE i \in behind : \A j \in behind : i <= j, goal)

\* Highest priority first, first come first served within one.
InsertByPriority(queue, goal) ==
  LET behind == {i \in 1..Len(queue) : goal.priority > queue[i].priority}
  IN  IF behind = {} THEN Append(queue, goal)
      ELSE InsertAt(queue, CHOOSE i \in behind : \A j \in behind : i <= j, goal)

\* The dropped goal, the oldest of the lowest priority, is not recorded anywhere.
DropLowestPriority(queue) ==
  RemoveAt(queue, CHOOSE i \in 1..Len(queue) :
    /\ \A j \in 1..Len(queue) : queue[i].priority <= queue[j].priority
    /\ \A j \in 1..i - 1 : queue[i].priority < queue[j].priority)

\* mark_succeeded and mark_failed, for the active goal.
MarkEnded(m, outcome) ==
  [m EXCEPT !.active = NoGoal, !.plan_fail_count = 0, !.late = FALSE,
            !.history = @ \cup {Ended(m.active, outcome)}]

CancelActive(m) == IF m.active = NoGoal THEN m ELSE MarkEnded(m, "CANCELLED")

\* A preempting request cancels the active goal and forgets the queue.
Enqueue(m, goal, preempt) ==
  LET kept == IF preempt THEN [CancelActive(m) EXCEPT !.queue = <<>>] ELSE m
      room == IF Len(kept.queue) >= MaxQueue THEN DropLowestPriority(kept.queue) ELSE kept.queue
  IN  [kept EXCEPT !.queue = InsertByPriority(room, goal)]

CanActivate(m) == m.active = NoGoal /\ m.queue # <<>>

ActivateNext(m) ==
  [m EXCEPT !.queue = Tail(@), !.active = Head(m.queue)]

\* Fault injection: a queued goal is recorded as cancelled and stays in the queue.
CancelGoalKeepsQueue(m, id) ==
  IF m.active.id = id THEN CancelActive(m)
  ELSE [m EXCEPT !.history = @ \cup {Ended(g, "CANCELLED") : g \in {h \in ToSet(m.queue) : h.id = id}}]

\* cancel_goal of one goal, active or queued: the first of that id leaves the queue.
CancelGoal(m, id) ==
  LET at == {i \in 1..Len(m.queue) : m.queue[i].id = id}
      first == CHOOSE i \in at : \A j \in at : i <= j
  IN  IF m.active.id = id THEN CancelActive(m)
      ELSE IF at = {} THEN m
      ELSE [m EXCEPT !.queue = RemoveAt(@, first),
                     !.history = @ \cup {Ended(m.queue[first], "CANCELLED")}]

\* cancel_goal without an id.
CancelAll(m) ==
  [CancelActive(m) EXCEPT !.queue = <<>>,
     !.history = @ \cup {Ended(g, "CANCELLED") : g \in ToSet(m.queue)}]

\* record_plan_failure: is the goal given up?
Unreachable(m) == m.plan_fail_count + 1 >= MaxPlanFail
RecordPlanFailure(m) == [m EXCEPT !.plan_fail_count = @ + 1]

=============================================================================
