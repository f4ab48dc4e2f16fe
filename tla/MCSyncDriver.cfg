\* One peer six blocks ahead, two parallel downloads: a fill round queues
\* three blocks, so blocks arrive out of order and become orphans.
CONSTANTS
    P = 2
    PeerTop = 6
    NoSnap = NoSnap
SPECIFICATION FairSpec
INVARIANT TypeOK
INVARIANT DownloadedAreOrphans
INVARIANT MissingParentTracked
PROPERTY CatchesUp
