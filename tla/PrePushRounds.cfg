CONSTANTS
    None = None
    h1 = h1
    h2 = h2
    h3 = h3
    f = f
    tree1 = tree1
    tree2 = tree2
    Shas = {h1, h2, h3}
    Fingerprints = {f}
    Contents = {tree1, tree2}
    Content <- MCContent
    MaxRound = 1
SPECIFICATION Spec
INVARIANTS
    ReceiptEarned
    ReceiptSurvivesRestart
PROPERTIES
    Endorses
