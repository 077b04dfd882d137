SPECIFICATION FairSpec
CONSTANTS
 a1=a1 a2=a2 t1=t1 t2=t2 m1=m1 m2=m2 long=long word=word empty=empty captions=captions w1=w1 w2=w2
 Docs={a1,a2,t1,t2} Contents={long,word,empty,captions} Workers={w1,w2} Nothing=none
 Kind <- MCKind Past={m2} Meeting <- MCMeeting MayServe <- MCMayServe Reading <- MCReading Items <- MCItems
 MaxFetches = 2 MaxMishaps = 1
INVARIANTS VersionsAreNumbered ObservationsRecorded SnapshotFollows
PROPERTIES ParsedUnlessStopped
CHECK_DEADLOCK FALSE
