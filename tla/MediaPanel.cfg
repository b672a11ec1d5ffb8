SPECIFICATION PanelSpec
CONSTANTS
    Texts = {t1, t2}
    FirstTitle = t1
    Top = 1
    Loudest = 2
    MaxChanges = 3
INVARIANTS PanelTypeOK PanelFollowsPlayer
PROPERTY PanelComesRight
CHECK_DEADLOCK FALSE
