CONSTANTS
    own = own
    t1 = t1
    t2 = t2
    lens = lens
    canon = canon
    mine = mine
    w1 = w1
    w2 = w2
    Owned = {own}
    Candidate = {1, 2, 3, 4}
    Label = {t1, t2}
    Lens = {lens}
    Name = {mine}
    LabelsOf <- Labels
    AuthorOf <- Authors
    KeyOf <- Keys
    DemoLists <- Canon
    Vocabulary <- Lenses
    Asked = {"strong"}
    Writer = {w1, w2}
    Aperture = 1
    DnfSignals = TRUE
    ShelfSize = 2
    MissLimit = 1
SPECIFICATION PicksSpec
PROPERTY AnswersAreKept
