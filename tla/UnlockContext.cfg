SPECIFICATION Spec
INVARIANT ValidContextCanSpend
PROPERTY RelockAfterUnlock StakingOnlyNotWidened
