----------------------------- MODULE MCStructures -----------------------------
(***************************************************************************)
(* The data structures and algorithms that work alone: each behaviour      *)
(* exercises one of them and leaves the variables of the others as they    *)
(* are.                                                                    *)
(*                                                                         *)
(*   "queue"  CQueue, with room for one value at first                     *)
(*   "deep"   gcMark on all graphs of three objects and small arrays       *)
(*   "wide"   gcMark on all pairs of longer arrays, of every kind of items *)
(*   "maps"   gcMark on all pairs of maps and objects                      *)
(*   "pool"   the pool allocator; an arena of six granules has room for    *)
(*            three small objects or two middle ones                       *)
(*   "message" a call of a foreign object's method, with all arguments      *)
(***************************************************************************)
EXTENDS RingQueue, TLC

CONSTANTS DeepObjects, WideObjects, None,
          Blocks, ObjectSizes, Target, MinCount, MaxArenas,
          MessageSize, NameSize, MaxParams, NameLength

VARIABLES which,                                \* the structure that is used
          kind, word, roots, start, marked, calls,  \* of the mark phases
          arenas, pooled, freeList, large, objectsToFree, objectCount,
          cursor, largeLeft, last,              \* of the pool allocator
          call, known, exported, client, server, buffer, used, problem,
          packed, received, read, clones, result  \* of a message

queueVars == vars
markVars  == <<kind, word, roots, start, marked, calls>>
poolVars  == <<arenas, pooled, freeList, large, objectsToFree, objectCount,
               cursor, largeLeft, last>>
packingVars == <<call, known, exported, client, server, buffer, used, problem, packed,
                 received, read, clones, result>>
allVars   == <<which, queueVars, markVars, poolVars, packingVars>>

Deep == INSTANCE GCMark WITH Objects <- DeepObjects, Words <- 2,
                             Kinds <- {"object", "refs"}
Wide == INSTANCE GCMark WITH Objects <- WideObjects, Words <- 4,
                             Kinds <- {"structs", "numbers", "leaves"}
Maps == INSTANCE GCMark WITH Objects <- WideObjects, Words <- 2,
                             Kinds <- {"object", "map"}

Pool == INSTANCE PoolAllocator
P == INSTANCE Packing WITH length <- used
ASSUME PoolsAreSmall == Pool!PoolAssumption
ASSUME GraphsAreSmall == Deep!GCMarkAssumption /\ Wide!GCMarkAssumption /\ Maps!GCMarkAssumption
ASSUME NamesHaveLengths == P!PackingAssumption

\* The nice names of Packing, in words.
NameLengths == [int |-> 1, string |-> 1, Point |-> 1, Pair |-> 1, Thing |-> 1,
                array |-> 1, door |-> 1, Foreign |-> 2]

NoMark == kind = <<>> /\ word = <<>> /\ roots = {} /\ start = {} /\ marked = {} /\ calls = <<>>

NoMessage == /\ call = None /\ known = None /\ exported = None /\ client = None
             /\ server = None /\ buffer = None /\ used = None /\ problem = None
             /\ packed = None /\ received = None /\ read = None /\ clones = None
             /\ result = None

MCInit == /\ Init /\ Pool!Init
          /\ \/ which \in {"queue", "pool"} /\ NoMark /\ NoMessage
             \/ which = "deep" /\ Deep!Init /\ NoMessage
             \/ which = "wide" /\ Wide!Init /\ NoMessage
             \/ which = "maps" /\ Maps!Init /\ NoMessage
             \/ which = "message" /\ NoMark /\ P!Init

MCNext == /\ \/ which = "queue" /\ Next /\ UNCHANGED <<markVars, poolVars, packingVars>>
             \/ which = "deep" /\ Deep!Next /\ UNCHANGED <<queueVars, poolVars, packingVars>>
             \/ which = "wide" /\ Wide!Next /\ UNCHANGED <<queueVars, poolVars, packingVars>>
             \/ which = "maps" /\ Maps!Next /\ UNCHANGED <<queueVars, poolVars, packingVars>>
             \/ which = "pool" /\ Pool!Next /\ UNCHANGED <<queueVars, markVars, packingVars>>
             \/ which = "message" /\ P!Next /\ UNCHANGED <<queueVars, markVars, poolVars>>
          /\ UNCHANGED which

MCSpec == MCInit /\ [][MCNext]_allVars

MCSymmetry == Permutations(DeepObjects) \cup Permutations(WideObjects)
              \cup Permutations(Blocks)

\* A marked object has been walked, so that the early return of gcMark loses
\* nothing, and none is walked twice: when the roots of a mark phase are through, exactly the objects they
\* lead to are marked, whatever cycles the graph has and in whatever order they come.
MarksWhatIsReachable ==
    /\ which = "deep" => Deep!MarksAreClosed /\ Deep!WalksOnce /\ Deep!MarksWhatIsReachable
    /\ which = "wide" => Wide!MarksAreClosed /\ Wide!WalksOnce /\ Wide!MarksWhatIsReachable
    /\ which = "maps" => Maps!MarksAreClosed /\ Maps!WalksOnce /\ Maps!MarksWhatIsReachable

\* Each element of an arena is either in use or exactly once on a free list, and
\* m_objectCount, by which judgement day ends, counts the objects.
EachElementOnce == which = "pool" => Pool!EachElementOnce /\ Pool!CountsObjects

\* The pools are a heap whose sweep visits each object once.
IsHeap == /\ Pool!H!Init
          /\ [][which = "pool" => Pool!H!Next]_(Pool!H!vars)

\* The arguments and the result of a cross-domain call arrive as they were passed.
MessagesArrive == which = "message" => P!MessagesArrive
=============================================================================
